--------------------------------- MODULE VMProofs ----------------------------------
(**********************************************************************************)
(* The C++ code around VM::execute keeps the invariant of module InstructionProofs,     *)
(* and the theorems about the machine follow.                                     *)
(**********************************************************************************)
EXTENDS InstructionProofs

------------------------------------------------------------------------------------
(* C++ calls *)

\* A step of a C++ call, which leaves the program and the call stack alone.
LEMMA HostStep ==
  ASSUME IInv, Sound, UNCHANGED << code, callStack, site >>,
         MemoryTypes', MemoryGrows, FunctionsOk',
         host' \in Seq(HostType'), operandStack' \in Seq(DOMAIN heap'),
         ip' \in Nat, env' \in DOMAIN frames', result' \in DOMAIN heap', mode' \in Modes,
         HostsKept, \A i \in DOMAIN site : site[i].act <= Len(host'),
         \A j \in DOMAIN host' \ DOMAIN host : HostOk(j)',
         HereOk'
  PROVE  IInv'
<1>0. UNCHANGED << program, immediates, shape, todo, callStack, site >>
  BY DEF code
<1>1. SitesOk /\ HostsOk /\ CodeOk /\ TypeOK
  BY DEF IInv, Discipline
<1>2. CodeGrows
  BY <1>0 DEF CodeGrows
<1>3. TypeOK'
  <2>1. CodeTypes' /\ LocalTypes'
    BY <1>0, <1>1, <1>2, TypesGrow DEF TypeOK, CodeTypes, LocalTypes
  <2>2. StackTypes'
    BY <1>0, <1>1, <1>2, TypesGrow DEF TypeOK, StackTypes
  <2> QED
    BY <2>1, <2>2 DEF TypeOK
<1>4. Evolves
  <2>1. EntriesKept
    BY <1>0 DEF EntriesKept
  <2> QED
    BY <1>0, <1>1, <1>2, <1>3, <2>1 DEF Evolves, SitesOk
<1>5. SitesOk'
  BY <1>0, <1>1, <1>4, SitesStay
<1>6. HostsOk'
  BY <1>0, <1>1, <1>4, HostsStay DEF HostsOk, HostOk
<1>7. CodeOk'
  BY <1>0, <1>1 DEF CodeOk
<1> QED
  BY <1>3, <1>5, <1>6, <1>7 DEF IInv, Discipline

\* What the call of a C++ function does to the calls.
LEMMA HostPushed ==
  ASSUME TypeOK, SitesOk, NEW h \in HostType, host' = Append(host, h)
  PROVE  /\ host' \in Seq(HostType) /\ Len(host') = Len(host) + 1 /\ Len(host) \in Nat
         /\ DOMAIN host' \ DOMAIN host = {Len(host) + 1}
         /\ host'[Len(host) + 1] = h /\ host' # <<>> /\ Caller' = h
         /\ \A j \in 1..Len(host) : host'[j] = host[j]
         /\ \A i \in DOMAIN site : site[i].act <= Len(host')
         /\ HostsKept
<1>1. host \in Seq(HostType)
  BY DEF TypeOK, StackTypes
<1>2. /\ host' \in Seq(HostType) /\ Len(host') = Len(host) + 1 /\ Len(host) \in Nat
      /\ DOMAIN host' \ DOMAIN host = {Len(host) + 1}
      /\ host'[Len(host) + 1] = h /\ host' # <<>>
      /\ \A j \in 1..Len(host) : host'[j] = host[j]
  BY <1>1
<1>3. Caller' = h
  BY <1>2 DEF Caller
<1>4. \A i \in DOMAIN site : site[i].act <= Len(host')
  <2> TAKE i \in DOMAIN site
  <2>1. site[i] \in SiteType
    BY DEF TypeOK, StackTypes
  <2>2. site[i].act \in Nat /\ site[i].act <= Len(host)
    BY <2>1 DEF SiteType, SitesOk
  <2> QED
    BY <1>2, <2>2
<1>5. HostsKept
  BY <1>2 DEF HostsKept
<1> QED
  BY <1>2, <1>3, <1>4, <1>5

\* An object that is a builtin.
LEMMA BuiltinObject ==
  ASSUME TypeOK, NEW v \in DOMAIN heap, heap[v].kind = "fn", heap[v].model = "Wrapped"
  PROVE  heap[v].name \in Builtins /\ heap[v].argc = Required[heap[v].name]
<1>1. heap[v] \in Object
  BY DEF TypeOK, MemoryTypes
<1>2. PICK name \in Builtins : heap[v] = Builtin(name)
  BY <1>1 DEF Object, Atom
<1> QED
  BY <1>2 DEF Builtin

\* A call that throws keeps the invariant.
LEMMA CallErrorStep == ASSUME IInv, CallError PROVE IInv'
<1>1. mode = "run" /\ OpAt = "Call" /\ Len(operandStack) >= 1
  BY DEF CallError, At
<1>2. CASE ~(IsKind(Operand(0), "fn") /\ Target.model # "Bytecode")
  BY <1>2, ThrowHalts DEF CallError
<1>3. CASE IsKind(Operand(0), "fn") /\ Target.model # "Bytecode"
  <2> DEFINE gone == IF Target.model = "Wrapped" THEN P8 + 1 ELSE 1
  <2>1. CASE Len(operandStack) < gone
    BY <1>3, <2>1, CrashHalts DEF CallError
  <2>2. CASE ~(Len(operandStack) < gone)
    <3>1. operandStack' = Dropped(gone) /\ mode' = "unwind"
          /\ UNCHANGED << code, memory, callStack, ip, env, host, result, fault, site >>
      BY <1>3, <2>2 DEF CallError
    <3>2. P8 \in Nat /\ Len(operandStack) \in Nat
      BY <1>1, CallArity DEF IInv, TypeOK, StackTypes
    <3>3. gone \in Nat /\ gone <= Len(operandStack)
      BY <2>2, <3>2
    <3> HIDE DEF gone
    <3>4. Dropped(gone) \in Seq(DOMAIN heap)
      BY <3>3, Operands DEF IInv
    <3> QED
      BY <3>1, <3>4, Halts DEF IInv, TypeOK, StackTypes
  <2> QED
    BY <2>1, <2>2
<1> QED
  BY <1>2, <1>3

\* The VM calls a builtin: the VM::execute waits for it.
LEMMA CallWrappedStep == ASSUME IInv, CallWrapped PROVE IInv'
<1> DEFINE start == Len(operandStack) - (P8 + 1)
           v     == Operand(0)
           h     == HostCall(Target.name, start, P8, P8, Cursor(Target.name, start), Next8, env)
           m     == Len(host) + 1
<1>1. /\ mode = "run" /\ OpAt = "Call" /\ Len(operandStack) >= P8 + 1 /\ ~CallFails(P8)
      /\ Target.model = "Wrapped" /\ operandStack' = Dropped(1) /\ host' = Append(host, h)
      /\ mode' = "builtin"
      /\ UNCHANGED << code, memory, callStack, ip, env, result, fault, site >>
  BY DEF CallWrapped, At
<1>2. /\ SitesOk /\ HostsOk /\ HereOk /\ host # <<>> /\ callStack # <<>> /\ TypeOK
      /\ Len(site) = Len(callStack) /\ Len(site) \in DOMAIN site
      /\ Here.act = Len(host) /\ env = callStack[Len(callStack)].env
  BY <1>1, AtInstruction DEF IInv
<1>3. /\ P8 \in 0..255 /\ P8 \in Nat /\ Len(operandStack) \in Nat
      /\ Consumes(program, ip) = P8 + 1 /\ Produces(program, ip) = 1
  BY <1>1, <1>2, CallArity DEF TypeOK, StackTypes
<1>4. v \in DOMAIN heap /\ start \in Nat /\ P8 + 1 <= Len(operandStack)
  BY <1>1, <1>3, CalleeOf
<1>5. Target.name \in Builtins /\ P8 >= Required[Target.name]
  <2>1. heap[v].kind = "fn" /\ heap[v].model = "Wrapped" /\ ~(P8 < heap[v].argc)
    BY <1>1 DEF CallFails, IsKind, Is, Target
  <2>2. heap[v].name \in Builtins /\ heap[v].argc = Required[heap[v].name]
    BY <1>2, <1>4, <2>1, BuiltinObject
  <2>3. Required[heap[v].name] \in {0, 1, 2}
    BY <2>2, RequiredRange
  <2> QED
    BY <1>3, <2>1, <2>2, <2>3 DEF Target
<1>6. Cursor(Target.name, start) \in DOMAIN heap
  <2>1. CASE Target.name # "apply"
    BY <1>2, <2>1, Constants DEF Cursor
  <2>2. CASE Target.name = "apply"
    <3>1. P8 >= 2
      BY <1>5, <2>2, RequiredRange
    <3>2. start + 2 \in 1..Len(operandStack)
      BY <1>1, <1>3, <1>4, <3>1
    <3> QED
      BY <1>2, <2>2, <3>2 DEF Cursor, TypeOK, StackTypes
  <2> QED
    BY <2>1, <2>2
<1>7. Resumes(Len(site), Next8, start + 1)
  <2>1. start + 1 \in Nat /\ start + 1 = Len(operandStack) - (P8 + 1) + 1
    BY <1>3, <1>4
  <2> QED
    BY <1>1, <1>3, <2>1, GoesOnInPlace
<1>8. Next8 \in Nat /\ Next8 # NoAddress
  BY <1>2, <1>7 DEF Resumes, NoAddress, TypeOK, CodeTypes
<1> HIDE DEF start
<1>9. /\ h \in HostType /\ h.kind = Target.name /\ h.start = start /\ h.argc = P8 /\ h.owned = P8
      /\ h.params = 0 /\ h.ip = Next8 /\ h.env = env /\ h.level = Len(callStack)
  <2>1. env \in DOMAIN frames /\ Len(callStack) \in Nat
    BY <1>2 DEF TypeOK, LocalTypes, StackTypes
  <2> QED
    BY <1>3, <1>4, <1>5, <1>6, <1>8, <2>1 DEF HostCall, HostType
<1> HIDE DEF h
<1>10. /\ host' \in Seq(HostType) /\ Len(host') = m /\ Len(host) \in Nat /\ m - 1 = Len(host) /\ m > 1
       /\ DOMAIN host' \ DOMAIN host = {m} /\ host'[m] = h /\ host' # <<>> /\ Caller' = h
       /\ \A i \in DOMAIN site : site[i].act <= Len(host')
       /\ HostsKept
  BY <1>1, <1>2, <1>9, HostPushed
<1>11. UNCHANGED << program, shape, heap, frames, callStack, site, ip, env, result >> /\ UNCHANGED code
       /\ UNCHANGED memory /\ UNCHANGED << code, callStack, site >>
  BY <1>1 DEF code, memory
<1>12. MemoryTypes' /\ MemoryGrows /\ FunctionsOk'
  BY <1>1, <1>11, SameMemory
<1>13. ASSUME NEW j, j = m PROVE HostOk(j)'
  <2>1. ASSUME NEW k, k = Len(site), NEW a, a = Next8, NEW n, n = start + 1 PROVE Resumes(k, a, n)'
    BY <1>7, <1>11, <2>1 DEF Resumes
  <2>2. FromVM(j)'
    BY <1>2, <1>9, <1>10, <1>11, <1>13, <2>1 DEF FromVM, Here
  <2>3. Len(callStack) > 0 /\ Len(callStack) <= Len(callStack) /\ site[Len(callStack)].act < m
    BY <1>2, <1>10 DEF Here, TypeOK, StackTypes
  <2> QED
    BY <1>5, <1>8, <1>9, <1>10, <1>11, <1>13, <2>2, <2>3 DEF HostOk
<1>14. operandStack' \in Seq(DOMAIN heap') /\ Len(operandStack') = start + P8
  <2>1. Dropped(1) \in Seq(DOMAIN heap) /\ Len(Dropped(1)) = Len(operandStack) - 1
    BY <1>1, <1>2, <1>3, Operands
  <2> QED
    BY <1>1, <1>3, <1>11, <2>1 DEF start
<1>15. HereOk'
  <2>1. Len(operandStack') = start + P8 + 0
    BY <1>3, <1>4, <1>14
  <2> QED
    BY <1>1, <1>5, <1>9, <1>10, <1>11, <2>1 DEF HereOk
<1>16. ip' \in Nat /\ env' \in DOMAIN frames' /\ result' \in DOMAIN heap' /\ mode' \in Modes
       /\ host' \in Seq(HostType')
  <2>1. HostType' = HostType
    BY <1>11 DEF HostType
  <2> QED
    BY <1>1, <1>2, <1>10, <1>11, <2>1 DEF TypeOK, LocalTypes, Modes
<1>17. Sound
  BY <1>1 DEF Sound
<1> HIDE DEF m
<1> QED
  BY <1>10, <1>11, <1>12, <1>13, <1>14, <1>15, <1>16, <1>17, HostStep

\* What is known while a C++ function runs.
LEMMA InNative ==
  ASSUME IInv, mode \in {"exec", "builtin", "return"}
  PROVE  /\ Sound /\ TypeOK /\ CodeOk /\ FunctionsOk /\ SitesOk /\ HostsOk /\ HereOk
         /\ host # <<>> /\ Len(host) \in DOMAIN host /\ Len(host) \in Nat /\ Len(host) > 0
         /\ Caller \in HostType /\ HostOk(Len(host))
         /\ Len(site) = Len(callStack) /\ Len(callStack) = Caller.level
         /\ Len(operandStack) = Caller.start + Caller.argc + Caller.params
         /\ Caller.start \in Nat /\ Caller.argc \in Nat /\ Caller.params \in Nat
         /\ Len(operandStack) \in Nat /\ Len(callStack) \in Nat
         /\ mode = "exec" => Caller.kind = "exec"
         /\ mode \in {"builtin", "return"} => Caller.kind \in Builtins
<1>1. Sound /\ TypeOK /\ CodeOk /\ FunctionsOk /\ SitesOk /\ HostsOk /\ HereOk
  BY DEF IInv, Discipline, Sound
<1>2. host # <<>> /\ host \in Seq(HostType) /\ callStack \in Seq(EntryType)
      /\ operandStack \in Seq(DOMAIN heap)
  BY <1>1 DEF HereOk, TypeOK, StackTypes
<1>3. /\ Len(host) \in DOMAIN host /\ Len(host) \in Nat /\ Len(host) > 0 /\ Caller \in HostType
      /\ Len(operandStack) \in Nat /\ Len(callStack) \in Nat
  BY <1>2 DEF Caller
<1>4. HostOk(Len(host))
  BY <1>1, <1>3 DEF HostsOk
<1>5. Caller.start \in Nat /\ Caller.argc \in Nat /\ Caller.params \in Nat
  BY <1>3 DEF HostType
<1> QED
  BY <1>1, <1>2, <1>3, <1>4, <1>5 DEF HereOk, SitesOk

\* A builtin returns a value.
LEMMA YieldStep ==
  ASSUME IInv, mode = "builtin", NEW v \in DOMAIN heap', Yield(v),
         MemoryTypes', MemoryGrows, FunctionsOk'
  PROVE  IInv'
<1>1. /\ Sound /\ TypeOK /\ SitesOk /\ HostsOk /\ HereOk
      /\ host # <<>> /\ Len(host) \in DOMAIN host
      /\ Caller.kind \in Builtins
  BY InNative
<1>2. /\ UNCHANGED << code, callStack, site >> /\ UNCHANGED << host, operandStack, callStack, ip, env >>
      /\ result' = v /\ mode' = "return"
  BY DEF Yield
<1>3. CodeGrows
  BY <1>2 DEF CodeGrows, code
<1>4. /\ host' \in Seq(HostType') /\ operandStack' \in Seq(DOMAIN heap')
      /\ ip' \in Nat /\ env' \in DOMAIN frames' /\ result' \in DOMAIN heap' /\ mode' \in Modes
  BY <1>1, <1>2, <1>3, TypesGrow DEF TypeOK, LocalTypes, Modes
<1>5. HostsKept /\ DOMAIN host' \ DOMAIN host = {} /\ \A i \in DOMAIN site : site[i].act <= Len(host')
  BY <1>1, <1>2 DEF HostsKept, SitesOk
<1>6. HereOk'
  BY <1>1, <1>2 DEF HereOk, Caller
<1> QED
  BY <1>1, <1>2, <1>4, <1>5, <1>6, HostStep

\* An argument of a builtin.
LEMMA Arguments ==
  ASSUME IInv, mode = "builtin", NEW k \in 1..Caller.argc
  PROVE  Argument(k) \in DOMAIN heap
<1>1. Caller.start + k \in 1..Len(operandStack)
  BY InNative, SMTT(30)
<1> QED
  BY <1>1 DEF Argument, IInv, TypeOK, StackTypes

\* How many it has.
LEMMA ArgumentCount ==
  ASSUME IInv, mode = "builtin"
  PROVE  /\ Caller.argc \in Nat
         /\ Caller.kind = "apply" => Caller.argc >= 2
         /\ Caller.kind \in Loaders => Caller.argc >= 1
         /\ Caller.kind \in DOMAIN Computing => Caller.argc >= Computing[Caller.kind]
<1>1. Caller.kind \in Builtins /\ Caller.argc >= Required[Caller.kind] /\ Caller.argc \in Nat
  BY InNative DEF HostOk, Caller
<1> QED
  BY <1>1, RequiredRange

\* Memory that a builtin leaves alone.
LEMMA SameMemoryInBuiltin ==
  ASSUME IInv, mode \in {"run", "exec", "builtin", "return", "idle"}, UNCHANGED code, UNCHANGED memory
  PROVE  MemoryTypes' /\ MemoryGrows /\ FunctionsOk' /\ heap' = heap
<1>1. TypeOK /\ FunctionsOk /\ CodeGrows
  BY DEF IInv, Discipline, Sound, CodeGrows, code
<1>2. MemoryTypes' /\ MemoryGrows /\ heap' = heap
  BY <1>1, MemoryKept DEF memory
<1> QED
  BY <1>1, <1>2, FunctionsStay

\* What a builtin that only computes gives back can be stored: a value it gives is an
\* object that exists, and an object it makes refers to such objects.

Storable(o) == o \in Object /\ ObjectOk(o) /\ o.kind # "fn"

Fits(a) ==
  /\ a.how = "given" => a.v \in DOMAIN heap
  /\ a.how = "new" => Storable(a.o)

\* An exception and undefined behaviour give nothing back.
LEMMA FitsNothing == Fits(Throws) /\ Fits(Overflows)
BY DEF Fits, Throws, Overflows

\* A value that is given.
LEMMA FitsGiven == ASSUME NEW v \in DOMAIN heap PROVE Fits(Given(v))
BY DEF Fits, Given

\* A new object.
LEMMA FitsNew == ASSUME NEW o, Storable(o) PROVE Fits(New(o))
BY DEF Fits, New

\* A truth value is one of the two objects of Context.
LEMMA FitsTruth == ASSUME TypeOK, NEW b \in BOOLEAN PROVE Fits(Truth(b))
BY Constants, FitsGiven DEF Truth

\* A number that is no integer gives undefined behaviour, any other an object.
LEMMA FitsResult == ASSUME NEW n PROVE Fits(Result(n))
<1>1. CASE n \in Integers
  <2>1. n \in Int
    BY <1>1, IntegerRange DEF Integers
  <2>2. Storable(Integer(n))
    BY <2>1 DEF Storable, Integer, Object, Atom, ObjectOk
  <2> QED
    BY <1>1, <2>2, FitsNew DEF Result
<1>2. CASE n \notin Integers
  BY <1>2, FitsNothing DEF Result
<1> QED
  BY <1>1, <1>2

\* The parts of a pair.
LEMMA FitsPart ==
  ASSUME TypeOK, NEW v \in DOMAIN heap, Is(heap, v, "pair")
  PROVE  Fits(Given(heap[v].car)) /\ Fits(Given(heap[v].cdr))
BY PairParts, FitsGiven DEF IsKind

\* length
LEMMA FitsLength == ASSUME NEW v PROVE Fits(Length(heap, v))
BY FitsResult, FitsNothing DEF Length

\* A character.
LEMMA CharacterFits == ASSUME NEW g \in STRING PROVE Storable(Character(g))
<1>1. Character(g) \in Atom
  BY DEF Character, Atom
<1>2. Character(g).kind = "char"
  BY DEF Character
<1> QED
  BY <1>1, <1>2 DEF Storable, Object, ObjectOk

\* A pair of objects.
LEMMA PairFits ==
  ASSUME TypeOK, NEW a \in DOMAIN heap, NEW d \in DOMAIN heap PROVE Storable(Pair(a, d))
<1>1. a \in Nat /\ d \in Nat
  BY DEF TypeOK, MemoryTypes
<1>2. Pair(a, d) \in Object /\ Pair(a, d).kind = "pair"
  BY <1>1 DEF Pair, Object
<1>3. Pair(a, d).car = a /\ Pair(a, d).cdr = d
  BY DEF Pair
<1> QED
  BY <1>2, <1>3 DEF Storable, ObjectOk

\* get
LEMMA FitsGet ==
  ASSUME TypeOK, NEW v \in DOMAIN heap, NEW i \in DOMAIN heap
  PROVE  Fits(Get(heap, v, i))
<1>1. CASE ~Is(heap, i, "int")
  BY <1>1, FitsNothing DEF Get
<1>2. CASE Is(heap, i, "int") /\ Is(heap, v, "str")
  <2> DEFINE n == heap[i].n
             s == heap[v].s
  <2>1. n \in Int /\ s \in Seq(STRING)
    <3>1. heap[i] \in Object /\ heap[v] \in Object
      BY DEF TypeOK, MemoryTypes
    <3> QED
      BY <1>2, <3>1 DEF Is, Object, Atom, Builtin
  <2>2. CASE n \in 0..Len(s) - 1
    <3>1. s[n + 1] \in STRING
      BY <2>1, <2>2
    <3>2. Storable(Character(s[n + 1]))
      BY <3>1, CharacterFits
    <3>3. Get(heap, v, i) = New(Character(s[n + 1]))
      BY <1>2, <2>2 DEF Get, Is
    <3> QED
      BY <3>2, <3>3, FitsNew
  <2>3. CASE n \notin 0..Len(s) - 1
    BY <1>2, <2>3, FitsNothing DEF Get, Is
  <2> QED
    BY <2>2, <2>3
<1>3. CASE Is(heap, i, "int") /\ Is(heap, v, "pair")
  <2> DEFINE w == NthCdr(heap, v, heap[i].n)
  <2>1. CASE heap[i].n \in 0..Len(heap) /\ PairAt(heap, v, heap[i].n)
    <3>1. w \in DOMAIN heap /\ Is(heap, w, "pair")
      BY <2>1 DEF PairAt
    <3>2. Get(heap, v, i) = Given(heap[w].car)
      BY <1>3, <2>1 DEF Get, Is
    <3> QED
      BY <3>1, <3>2, FitsPart
  <2>2. CASE ~(heap[i].n \in 0..Len(heap) /\ PairAt(heap, v, heap[i].n))
    BY <1>3, <2>2, FitsNothing DEF Get, Is
  <2> QED
    BY <2>1, <2>2
<1>4. CASE Is(heap, i, "int") /\ ~Is(heap, v, "str") /\ ~Is(heap, v, "pair")
  BY <1>4, FitsNothing DEF Get
<1> QED
  BY <1>1, <1>2, <1>3, <1>4

\* equal?
LEMMA FitsEqual == ASSUME TypeOK, NEW v, NEW w PROVE Fits(Equal(heap, v, w))
BY FitsTruth, FitsNothing DEF Equal

\* < and >
LEMMA FitsCompare ==
  ASSUME TypeOK, NEW v \in DOMAIN heap, NEW w \in DOMAIN heap, NEW name
  PROVE  Fits(Compare(name, heap, v, w))
<1>1. CASE Is(heap, v, "int") /\ Is(heap, w, "int")
  <2>1. heap[v].n \in Int /\ heap[w].n \in Int
    <3>1. heap[v] \in Object /\ heap[w] \in Object
      BY DEF TypeOK, MemoryTypes
    <3> QED
      BY <1>1, <3>1 DEF Is, Object, Atom, Builtin
  <2>2. \A x, y \in Int : (x < y) \in BOOLEAN /\ (x > y) \in BOOLEAN
    OBVIOUS
  <2> QED
    <3>1. CASE name = "<"
      BY <1>1, <2>1, <2>2, <3>1, FitsTruth DEF Compare
    <3>2. CASE name # "<"
      BY <1>1, <2>1, <2>2, <3>2, FitsTruth DEF Compare
    <3> QED
      BY <3>1, <3>2
<1>2. CASE ~(Is(heap, v, "int") /\ Is(heap, w, "int"))
  BY <1>2, FitsNothing DEF Compare
<1> QED
  BY <1>1, <1>2

\* + and *
LEMMA FitsTotal == ASSUME NEW vs PROVE Fits(Sum(heap, vs)) /\ Fits(Product(heap, vs))
BY FitsResult, FitsNothing DEF Sum, Product

\* incr, decr and abs
LEMMA FitsOfOne ==
  ASSUME NEW v \in DOMAIN heap, NEW name PROVE Fits(OfOne(name, heap, v))
BY FitsResult, FitsGiven, FitsNothing DEF OfOne

\* -, / and mod
LEMMA FitsOfTwo == ASSUME NEW v, NEW w, NEW name PROVE Fits(OfTwo(name, heap, v, w))
BY FitsResult, FitsNothing DEF OfTwo

\* All of them.
LEMMA ComputedFits ==
  ASSUME TypeOK, NEW name \in DOMAIN Computing, NEW vs \in Seq(DOMAIN heap),
         Len(vs) >= Computing[name]
  PROVE  Fits(Computed(name, heap, vs))
<1> USE FitsNothing
<1>1. CASE name \in {"+", "*"}
  BY <1>1, FitsTotal DEF Computed, Kind
<1>2. CASE name \in {"cons", "equal?", "get", "-", "/", "mod", "<", ">"}
  <2>1. vs[1] \in DOMAIN heap /\ vs[2] \in DOMAIN heap
    <3>1. Computing[name] = 2
      BY <1>2 DEF Computing
    <3> QED
      BY <3>1
  <2>2. CASE name = "cons"
    <3>1. Fits(New(Pair(vs[1], vs[2])))
      BY <2>1, PairFits, FitsNew
    <3> QED
      BY <2>2, <3>1 DEF Computed, Kind
  <2>3. CASE name \in {"equal?", "get", "<", ">"}
    BY <2>1, <2>3, FitsEqual, FitsGet, FitsCompare DEF Computed, Kind
  <2>4. CASE name \in {"-", "/", "mod"}
    BY <2>4, FitsOfTwo DEF Computed, Kind
  <2> QED
    BY <1>2, <2>2, <2>3, <2>4
<1>3. CASE name \notin {"+", "*", "cons", "equal?", "get", "-", "/", "mod", "<", ">"}
  <2>1. vs[1] \in DOMAIN heap
    <3>1. Computing[name] = 1
      BY <1>3 DEF Computing
    <3> QED
      BY <3>1
  <2>2. CASE name \in {"car", "cdr", "error", "not"}
    BY <2>1, <2>2, FitsPart, FitsTruth DEF Computed, Kind
  <2>3. CASE name \in DOMAIN Kind
    <3>1. Computed(name, heap, vs) = Truth(Is(heap, vs[1], Kind[name]))
      BY <2>3 DEF Computed, Kind
    <3>2. Is(heap, vs[1], Kind[name]) \in BOOLEAN
      BY DEF Is
    <3> QED
      BY <3>1, <3>2, FitsTruth
  <2>4. CASE name \in {"arity", "length"}
    BY <2>1, <2>4, FitsResult, FitsLength DEF Computed, Kind
  <2>5. CASE name \in {"incr", "decr", "abs"}
    BY <2>1, <2>5, FitsOfOne DEF Computed, Kind
  <2> QED
    BY <1>3, <2>2, <2>3, <2>4, <2>5 DEF Computing, Arithmetic
<1> QED
  BY <1>1, <1>2, <1>3

\* A builtin that only computes keeps the invariant.
LEMMA BuiltinValueStep == ASSUME IInv, BuiltinValue PROVE IInv'
<1>1. PICK name \in DOMAIN Computing :
        /\ InBuiltin(name)
        /\ LET args   == [k \in 1..Caller.argc |-> Argument(k)]
               answer == Computed(name, heap, args)
           IN  \/ answer.how = "given" /\ Yield(answer.v) /\ UNCHANGED memory
               \/ answer.how = "new" /\ Allocate(answer.o) /\ Yield(Allocated)
               \/ answer.how = "throws" /\ Throw
               \/ answer.how = "undefined" /\ Crash("arithmetic")
  BY DEF BuiltinValue
<1> DEFINE args   == [k \in 1..Caller.argc |-> Argument(k)]
           answer == Computed(name, heap, args)
<1>2. mode = "builtin" /\ TypeOK
  BY <1>1 DEF InBuiltin, IInv
<1>3. args \in Seq(DOMAIN heap) /\ Len(args) >= Computing[name]
  <2>1. Caller.argc \in Nat /\ Caller.argc >= Computing[name]
    BY <1>1, <1>2, ArgumentCount DEF InBuiltin
  <2>2. \A k \in 1..Caller.argc : Argument(k) \in DOMAIN heap
    BY <1>2, Arguments
  <2> QED
    BY <2>1, <2>2
<1>4. Fits(answer)
  BY <1>2, <1>3, ComputedFits
<1> HIDE DEF answer
<1>5. CASE answer.how = "given" /\ Yield(answer.v) /\ UNCHANGED memory
  <2>1. answer.v \in DOMAIN heap /\ UNCHANGED code
    BY <1>4, <1>5 DEF Fits, Yield
  <2> QED
    BY <1>2, <1>5, <2>1, SameMemoryInBuiltin, YieldStep
<1>6. CASE answer.how = "new" /\ Allocate(answer.o) /\ Yield(Allocated)
  <2>1. answer.o \in Object /\ ObjectOk(answer.o) /\ answer.o.kind # "fn" /\ UNCHANGED code
    BY <1>4, <1>6 DEF Fits, Storable, Yield
  <2>2. MemoryTypes' /\ MemoryGrows /\ FunctionsOk' /\ Allocated \in DOMAIN heap'
    BY <1>2, <1>6, <2>1, NewObject
  <2> QED
    BY <1>2, <1>6, <2>2, YieldStep
<1>7. CASE Throw \/ Crash("arithmetic")
  BY <1>7, ThrowHalts, CrashHalts
<1> QED
  BY <1>1, <1>5, <1>6, <1>7 DEF answer

\* An exception that leaves a C++ call keeps the invariant.
LEMMA UnwindStep == ASSUME IInv, Unwind PROVE IInv'
<1> DEFINE gone == Caller.params + Caller.owned
<1>1. CASE Len(operandStack) < gone
  BY <1>1, CrashHalts DEF Unwind
<1>2. CASE ~(Len(operandStack) < gone)
  <2>1. /\ mode = "unwind" /\ host # <<>> /\ operandStack' = Dropped(gone) /\ host' = Front(host)
        /\ UNCHANGED << code, memory, callStack, ip, env, mode, result, fault, site >>
    BY <1>2 DEF Unwind
  <2>2. /\ TypeOK /\ host \in Seq(HostType) /\ Len(operandStack) \in Nat
    BY DEF IInv, TypeOK, StackTypes
  <2>3. Caller \in HostType
    BY <2>1, <2>2 DEF Caller
  <2>4. gone \in Nat /\ gone <= Len(operandStack)
    BY <1>2, <2>2, <2>3 DEF HostType
  <2> HIDE DEF gone
  <2>5. operandStack' \in Seq(DOMAIN heap) /\ host' \in Seq(HostType)
    BY <2>1, <2>2, <2>4, Operands, FrontFacts
  <2> QED
    BY <2>1, <2>2, <2>5, Halts
<1> QED
  BY <1>1, <1>2

\* The end of the process keeps the invariant.
LEMMA ExitedStep == ASSUME IInv, Exited PROVE IInv'
BY Halts DEF IInv, Exited, TypeOK, StackTypes

\* An undefined instruction keeps the invariant.
LEMMA UndefinedStep == ASSUME IInv, Undefined PROVE IInv'
BY CrashHalts DEF Undefined

\* What the return of a C++ function does to the calls.
LEMMA HostPopped ==
  ASSUME TypeOK, SitesOk, HostsOk, host # <<>>, host' = Front(host), Len(callStack) = Caller.level
  PROVE  /\ host' \in Seq(HostType) /\ Len(host') = Len(host) - 1 /\ Len(host) \in Nat \ {0}
         /\ DOMAIN host' = 1..(Len(host) - 1) /\ DOMAIN host' \ DOMAIN host = {}
         /\ \A j \in 1..(Len(host) - 1) : host'[j] = host[j]
         /\ HostsKept
         /\ \A i \in DOMAIN site : site[i].act <= Len(host')
<1>1. host \in Seq(HostType) /\ Len(host) \in Nat \ {0}
  BY DEF TypeOK, StackTypes
<1>2. /\ host' \in Seq(HostType) /\ Len(host') = Len(host) - 1
      /\ \A j \in 1..(Len(host) - 1) : host'[j] = host[j]
  BY <1>1, FrontFacts
<1>3. DOMAIN host' = 1..(Len(host) - 1) /\ DOMAIN host = 1..Len(host)
  BY <1>1, <1>2
<1>4. DOMAIN host' \ DOMAIN host = {} /\ HostsKept
  BY <1>1, <1>2, <1>3 DEF HostsKept
<1>5. ASSUME NEW i \in DOMAIN site PROVE site[i].act <= Len(host')
  <2>1. Len(site) = Len(callStack) /\ Len(site) \in DOMAIN site /\ i <= Len(site) /\ Len(site) > 0
    BY DEF TypeOK, StackTypes, SitesOk
  <2>2. site[Len(site)].act < Len(host)
    BY <1>1, <1>3, <2>1 DEF HostsOk, HostOk, Caller
  <2>3. site[i].act <= site[Len(site)].act
    BY <2>1 DEF SitesOk
  <2>4. site[i].act \in Nat /\ site[Len(site)].act \in Nat
    <3>1. site[i] \in SiteType /\ site[Len(site)] \in SiteType
      BY <2>1 DEF TypeOK, StackTypes
    <3> QED
      BY <3>1 DEF SiteType
  <2> QED
    BY <1>1, <1>2, <2>2, <2>3, <2>4
<1> QED
  BY <1>1, <1>2, <1>3, <1>4, <1>5

\* The builtin's VM::execute goes on where it waited.
LEMMA ReturnToVMStep == ASSUME IInv, ReturnToVM PROVE IInv'
<1> DEFINE m == Len(host)
<1>1. /\ mode = "return" /\ Caller.ip # NoAddress
      /\ operandStack' = Append(Dropped(Caller.params + Caller.owned), result)
      /\ ip' = Caller.ip /\ env' = Caller.env /\ host' = Front(host) /\ mode' = "run"
      /\ UNCHANGED << code, memory, callStack, result, fault, site >>
  BY DEF ReturnToVM
<1>2. /\ UNCHANGED << code, callStack, site >> /\ UNCHANGED code /\ UNCHANGED memory
      /\ UNCHANGED << program, shape, heap, frames, callStack, site, result >>
  BY <1>1 DEF code, memory
<1>3. /\ Sound /\ TypeOK /\ SitesOk /\ HostsOk /\ HereOk
      /\ host # <<>> /\ m \in DOMAIN host /\ m \in Nat
      /\ Caller \in HostType /\ HostOk(m) /\ Caller = host[m]
      /\ Len(site) = Len(callStack) /\ Len(callStack) = Caller.level
      /\ Len(operandStack) = Caller.start + Caller.argc + Caller.params
      /\ Caller.start \in Nat /\ Caller.argc \in Nat /\ Caller.params \in Nat
      /\ Len(operandStack) \in Nat /\ Len(callStack) \in Nat
      /\ Caller.kind \in Builtins
  BY <1>1, InNative DEF Caller
<1>4. FromVM(m) /\ Caller.level > 0
  BY <1>1, <1>3 DEF HostOk
<1>5. /\ m > 1 /\ Caller.owned = Caller.argc /\ Here.act = m - 1
      /\ Caller.env = callStack[Len(callStack)].env
      /\ Resumes(Len(site), Caller.ip, Caller.start + 1)
  BY <1>3, <1>4 DEF FromVM, Here
<1>6. /\ Dropped(Caller.params + Caller.owned) \in Seq(DOMAIN heap)
      /\ Len(Dropped(Caller.params + Caller.owned)) = Caller.start
  <2>1. Caller.params + Caller.owned \in Nat /\ Caller.params + Caller.owned <= Len(operandStack)
        /\ Len(operandStack) - (Caller.params + Caller.owned) = Caller.start
    BY <1>3, <1>5, SMTT(30)
  <2> QED
    BY <1>3, <2>1, Operands
<1>7. operandStack' \in Seq(DOMAIN heap') /\ Len(operandStack') = Caller.start + 1
  <2>1. result \in DOMAIN heap
    BY <1>3 DEF TypeOK, LocalTypes
  <2> QED
    BY <1>1, <1>2, <1>6, <2>1, AppendFacts
<1>8. /\ host' \in Seq(HostType) /\ Len(host') = m - 1 /\ DOMAIN host' \ DOMAIN host = {}
      /\ \A j \in 1..(m - 1) : host'[j] = host[j]
      /\ HostsKept /\ \A i \in DOMAIN site : site[i].act <= Len(host')
  BY <1>1, <1>3, HostPopped
<1>9. MemoryTypes' /\ MemoryGrows /\ FunctionsOk'
  BY <1>1, <1>2, SameMemoryInBuiltin
<1>10. Len(site) \in DOMAIN site /\ callStack # <<>> /\ callStack[Len(callStack)] \in EntryType
  BY <1>3, <1>4 DEF TypeOK, StackTypes
<1>11. Caller'.kind \in {"apply", "exec", "setGlobal"} /\ host' # <<>>
  <2>1. Here.body # "none" /\ host[Here.act].kind \in {"apply", "exec", "setGlobal"}
    BY <1>3, <1>5, <1>10 DEF SitesOk, Here
  <2>2. Caller' = host[m - 1]
    BY <1>3, <1>5, <1>8, SMTT(30) DEF Caller
  <2> QED
    BY <1>3, <1>5, <1>8, <2>1, <2>2
<1>12. HereOk'
  <2>1. Resumes(Len(site), ip, Len(operandStack))'
    BY <1>1, <1>2, <1>5, <1>7 DEF Resumes
  <2>2. Here' = Here
    BY <1>2 DEF Here
  <2> QED
    BY <1>1, <1>2, <1>5, <1>8, <1>10, <1>11, <2>1, <2>2 DEF HereOk
<1>13. /\ host' \in Seq(HostType') /\ ip' \in Nat /\ env' \in DOMAIN frames'
       /\ result' \in DOMAIN heap' /\ mode' \in Modes
  <2>1. HostType' = HostType
    BY <1>2 DEF HostType
  <2> QED
    BY <1>1, <1>2, <1>3, <1>8, <2>1 DEF TypeOK, LocalTypes, HostType, Modes
<1> QED
  BY <1>2, <1>3, <1>7, <1>8, <1>9, <1>12, <1>13, HostStep

\* A builtin called by apply hands apply the value.
LEMMA ReturnToBuiltinStep == ASSUME IInv, ReturnToBuiltin PROVE IInv'
<1> DEFINE m == Len(host)
<1>1. /\ mode = "return" /\ Caller.ip = NoAddress
      /\ operandStack' = Dropped(Caller.params) /\ host' = Front(host)
      /\ UNCHANGED << code, memory, callStack, ip, env, mode, result, fault, site >>
  BY DEF ReturnToBuiltin
<1>2. /\ UNCHANGED << code, callStack, site >> /\ UNCHANGED code /\ UNCHANGED memory
      /\ UNCHANGED << heap, frames, callStack, ip, env, mode, result >>
  BY <1>1 DEF memory
<1>3. /\ Sound /\ TypeOK /\ SitesOk /\ HostsOk
      /\ host # <<>> /\ m \in DOMAIN host /\ m \in Nat /\ HostOk(m) /\ Caller = host[m]
      /\ Len(callStack) = Caller.level
      /\ Len(operandStack) = Caller.start + Caller.argc + Caller.params
      /\ Caller.start \in Nat /\ Caller.argc \in Nat /\ Caller.params \in Nat
      /\ Caller.kind \in Builtins
  BY <1>1, InNative DEF Caller
<1>4. /\ m > 1 /\ host[m - 1].kind = "apply" /\ Caller.level = host[m - 1].level
      /\ Caller.start = host[m - 1].start + host[m - 1].argc /\ Caller.argc = host[m - 1].params
  BY <1>1, <1>3 DEF HostOk, FromApply
<1>5. /\ Dropped(Caller.params) \in Seq(DOMAIN heap)
      /\ Len(Dropped(Caller.params)) = Caller.start + Caller.argc
  <2>1. Caller.params <= Len(operandStack)
        /\ Len(operandStack) - Caller.params = Caller.start + Caller.argc
    BY <1>3
  <2> QED
    BY <1>3, <2>1, Operands
<1>6. /\ host' \in Seq(HostType) /\ Len(host') = m - 1 /\ DOMAIN host' \ DOMAIN host = {}
      /\ \A j \in 1..(m - 1) : host'[j] = host[j]
      /\ HostsKept /\ \A i \in DOMAIN site : site[i].act <= Len(host')
  BY <1>1, <1>3, HostPopped
<1>7. MemoryTypes' /\ MemoryGrows /\ FunctionsOk'
  BY <1>1, <1>2, SameMemoryInBuiltin
<1>8. Caller' = host[m - 1] /\ host' # <<>>
  BY <1>3, <1>4, <1>6 DEF Caller
<1>9. HereOk'
  <2>1. "apply" \in Builtins
    BY BuiltinNames
  <2> QED
    BY <1>1, <1>2, <1>3, <1>4, <1>5, <1>8, <2>1 DEF HereOk
<1>10. /\ host' \in Seq(HostType') /\ operandStack' \in Seq(DOMAIN heap')
       /\ ip' \in Nat /\ env' \in DOMAIN frames' /\ result' \in DOMAIN heap' /\ mode' \in Modes
  <2>1. HostType' = HostType
    BY <1>1 DEF HostType, code, memory
  <2> QED
    BY <1>1, <1>2, <1>3, <1>5, <1>6, <2>1 DEF TypeOK, LocalTypes
<1> QED
  BY <1>2, <1>3, <1>6, <1>7, <1>9, <1>10, HostStep

\* exec returns to load or to the embedder.
LEMMA ExecReturnStep == ASSUME IInv, ExecReturn PROVE IInv'
<1> DEFINE m == Len(host)
<1>1. /\ mode = "exec" /\ host' = Front(host)
      /\ mode' = IF m = 1 THEN "idle" ELSE "return"
      /\ UNCHANGED << code, memory, operandStack, callStack, ip, env, result, fault, site >>
  BY DEF ExecReturn
<1>2. /\ UNCHANGED << code, callStack, site >> /\ UNCHANGED code /\ UNCHANGED memory
      /\ UNCHANGED << heap, frames, operandStack, callStack, ip, env, result >>
  BY <1>1 DEF memory
<1>3. /\ Sound /\ TypeOK /\ SitesOk /\ HostsOk
      /\ host # <<>> /\ m \in DOMAIN host /\ m \in Nat /\ HostOk(m) /\ Caller = host[m]
      /\ Len(callStack) = Caller.level
      /\ Len(operandStack) = Caller.start + Caller.argc + Caller.params
      /\ Caller.start \in Nat /\ Caller.kind = "exec"
  BY <1>1, InNative DEF Caller
<1>4. /\ Caller.argc = 0 /\ Caller.params = 0 /\ (FromLoad(m) \/ FromEmbedder(m))
  <2>1. "exec" \notin Builtins
    BY BuiltinNames
  <2> QED
    BY <1>3, <2>1 DEF HostOk
<1>5. /\ host' \in Seq(HostType) /\ Len(host') = m - 1 /\ DOMAIN host' \ DOMAIN host = {}
      /\ \A j \in 1..(m - 1) : host'[j] = host[j]
      /\ HostsKept /\ \A i \in DOMAIN site : site[i].act <= Len(host')
  BY <1>1, <1>3, HostPopped
<1>6. MemoryTypes' /\ MemoryGrows /\ FunctionsOk'
  BY <1>1, <1>2, SameMemoryInBuiltin
<1>7. HereOk'
  <2>1. CASE m = 1
    <3>1. host' = <<>> /\ Len(callStack) <= 1
      BY <1>3, <1>4, <1>5, <2>1 DEF FromLoad, FromEmbedder
    <3> QED
      BY <1>1, <1>2, <2>1, <3>1 DEF HereOk
  <2>2. CASE m # 1
    <3>1. FromLoad(m)
      BY <1>4, <2>2 DEF FromEmbedder
    <3>2. Caller' = host[m - 1] /\ host' # <<>>
      BY <1>3, <1>5, <2>2 DEF Caller
    <3>3. Loaders \subseteq Builtins
      BY BuiltinNames
    <3>4. host[m - 1].kind \in Loaders /\ Caller.level = host[m - 1].level
          /\ Caller.start = host[m - 1].start + host[m - 1].argc /\ host[m - 1].params = 0
      BY <1>3, <3>1 DEF FromLoad
    <3>5. Len(operandStack) = host[m - 1].start + host[m - 1].argc + 0
      <4>1. Len(operandStack) = Caller.start + 0 + 0
        BY <1>3, <1>4
      <4>2. Len(operandStack) = Caller.start /\ Caller.start + 0 = Caller.start
        BY <1>3, <4>1
      <4> QED
        BY <3>4, <4>2
    <3> QED
      BY <1>1, <1>2, <1>3, <2>2, <3>2, <3>3, <3>4, <3>5 DEF HereOk
  <2> QED
    BY <2>1, <2>2
<1>8. /\ host' \in Seq(HostType') /\ operandStack' \in Seq(DOMAIN heap')
      /\ ip' \in Nat /\ env' \in DOMAIN frames' /\ result' \in DOMAIN heap' /\ mode' \in Modes
  <2>1. HostType' = HostType
    BY <1>1 DEF HostType, code, memory
  <2> QED
    BY <1>1, <1>2, <1>3, <1>5, <2>1 DEF TypeOK, StackTypes, LocalTypes, Modes
<1> QED
  BY <1>2, <1>3, <1>5, <1>6, <1>7, <1>8, HostStep

\* What is known between the calls of the embedder.
LEMMA Idle ==
  ASSUME IInv, mode = "idle"
  PROVE  /\ Sound /\ TypeOK /\ CodeOk /\ FunctionsOk /\ SitesOk /\ HostsOk
         /\ host = <<>> /\ Len(callStack) \in {0, 1} /\ Len(site) = Len(callStack)
         /\ Len(operandStack) \in Nat
         /\ \A i \in DOMAIN site : site[i].act = 0
<1>1. Sound /\ TypeOK /\ CodeOk /\ FunctionsOk /\ SitesOk /\ HostsOk /\ HereOk
  BY DEF IInv, Discipline, Sound
<1>2. host = <<>> /\ Len(callStack) <= 1 /\ Len(callStack) \in Nat /\ Len(operandStack) \in Nat
  BY <1>1 DEF HereOk, TypeOK, StackTypes
<1>3. ASSUME NEW i \in DOMAIN site PROVE site[i].act = 0
  <2>1. site[i] \in SiteType
    BY <1>1 DEF TypeOK, StackTypes
  <2>2. site[i].act \in Nat /\ site[i].act <= 0
    BY <1>1, <1>2, <2>1 DEF SiteType, SitesOk
  <2> QED
    BY <2>2
<1> QED
  BY <1>1, <1>2, <1>3 DEF SitesOk

\* The call that exec or setGlobal is.
LEMMA ExecCall ==
  ASSUME TypeOK, NEW kind \in {"exec", "setGlobal"}, NEW h,
         h = HostCall(kind, Len(operandStack), 0, 0, Null, NoAddress, TopLevel)
  PROVE  /\ h \in HostType /\ h.kind = kind /\ h.kind \notin Builtins
         /\ h.start = Len(operandStack) /\ h.argc = 0
         /\ h.owned = 0 /\ h.params = 0 /\ h.ip = NoAddress /\ h.level = Len(callStack)
<1>1. /\ Len(operandStack) \in Nat /\ Len(callStack) \in Nat
      /\ Null \in DOMAIN heap /\ TopLevel \in DOMAIN frames
  BY DEF TypeOK, StackTypes, MemoryTypes, Null, TopLevel
<1>2. kind \notin Builtins
  BY BuiltinNames
<1> QED
  BY <1>1, <1>2 DEF HostCall, HostType, NoAddress

\* The embedder's call of exec keeps the invariant.
LEMMA ExecStep == ASSUME IInv, Exec PROVE IInv'
<1> DEFINE h == HostCall("exec", Len(operandStack), 0, 0, Null, NoAddress, TopLevel)
<1>1. /\ mode = "idle" /\ host' = Append(host, h) /\ mode' = "exec" /\ result' = Null
      /\ UNCHANGED << code, memory, operandStack, callStack, ip, env, fault, site >>
  BY DEF Exec
<1>2. /\ UNCHANGED << code, callStack, site >> /\ UNCHANGED code /\ UNCHANGED memory
      /\ UNCHANGED << heap, frames, operandStack, callStack, site, ip, env >>
  BY <1>1 DEF memory
<1>3. /\ Sound /\ TypeOK /\ SitesOk /\ HostsOk
      /\ host = <<>> /\ Len(callStack) \in {0, 1} /\ Len(site) = Len(callStack)
      /\ \A i \in DOMAIN site : site[i].act = 0
  BY <1>1, Idle
<1>4. /\ h \in HostType /\ h.kind = "exec" /\ h.kind \notin Builtins
      /\ h.start = Len(operandStack) /\ h.argc = 0
      /\ h.owned = 0 /\ h.params = 0 /\ h.ip = NoAddress /\ h.level = Len(callStack)
  BY <1>3, ExecCall
<1> HIDE DEF h
<1>5. /\ host' \in Seq(HostType) /\ Len(host') = 1
      /\ DOMAIN host' \ DOMAIN host = {1} /\ host'[1] = h /\ host' # <<>> /\ Caller' = h
      /\ \A i \in DOMAIN site : site[i].act <= Len(host')
      /\ HostsKept
  <2>1. Len(host) = 0
    BY <1>3
  <2> QED
    BY <1>1, <1>3, <1>4, <2>1, HostPushed
<1>6. ASSUME NEW j, j = 1 PROVE HostOk(j)'
  <2>1. Len(callStack) > 0 => site[Len(callStack)].act < 1
    BY <1>3 DEF TypeOK, StackTypes
  <2> QED
    BY <1>2, <1>3, <1>4, <1>5, <1>6, <2>1 DEF HostOk, FromEmbedder
<1>7. MemoryTypes' /\ MemoryGrows /\ FunctionsOk'
  BY <1>1, <1>2, SameMemoryInBuiltin
<1>8. HereOk'
  <2>1. Len(operandStack) = Len(operandStack) + 0 + 0
    BY <1>3 DEF TypeOK, StackTypes
  <2> QED
    BY <1>1, <1>2, <1>4, <1>5, <2>1 DEF HereOk
<1>9. /\ host' \in Seq(HostType') /\ operandStack' \in Seq(DOMAIN heap')
      /\ ip' \in Nat /\ env' \in DOMAIN frames' /\ result' \in DOMAIN heap' /\ mode' \in Modes
  <2>1. HostType' = HostType
    BY <1>1 DEF HostType, code, memory
  <2> QED
    BY <1>1, <1>2, <1>3, <1>5, <2>1, Constants DEF TypeOK, StackTypes, LocalTypes, Modes
<1> QED
  BY <1>2, <1>3, <1>5, <1>6, <1>7, <1>8, <1>9, HostStep

\* A builtin calls a C++ function: apply another builtin, load exec.
LEMMA NativeCall ==
  ASSUME IInv, mode = "builtin", NEW h \in HostType, host' = Append(host, h),
         h.level = Len(callStack), mode' \in {"exec", "builtin"}, result' \in DOMAIN heap,
         UNCHANGED << code, memory, operandStack, callStack, ip, env, fault, site >>,
         Len(operandStack) = h.start + h.argc + h.params,
         mode' = "exec" => h.kind = "exec", mode' = "builtin" => h.kind \in Builtins,
         h.owned = 0, h.params = 0, h.ip = NoAddress, h.start = Caller.start + Caller.argc,
         \/ /\ h.kind \in Builtins /\ h.argc >= Required[h.kind]
            /\ Caller.kind = "apply" /\ h.argc = Caller.params
         \/ /\ h.kind = "exec" /\ h.argc = 0
            /\ Caller.kind \in Loaders /\ Caller.params = 0
  PROVE  IInv'
<1> DEFINE m == Len(host) + 1
<1>1. /\ UNCHANGED << code, callStack, site >> /\ UNCHANGED code /\ UNCHANGED memory
      /\ UNCHANGED << heap, frames, operandStack, callStack, site, ip, env >>
  BY DEF memory
<1>2. /\ Sound /\ TypeOK /\ SitesOk /\ HostsOk
      /\ Len(host) \in DOMAIN host /\ Len(host) \in Nat /\ Len(host) > 0
      /\ HostOk(Len(host)) /\ Caller = host[Len(host)] /\ Caller.kind \in Builtins
      /\ Len(site) = Len(callStack) /\ Len(callStack) = Caller.level
      /\ Len(callStack) \in Nat
  BY InNative DEF Caller
<1>3. Caller.level > 0
  BY <1>2 DEF HostOk
<1>4. /\ host' \in Seq(HostType) /\ Len(host') = m /\ m - 1 = Len(host) /\ m > 1 /\ m \in Nat
      /\ DOMAIN host' \ DOMAIN host = {m} /\ host'[m] = h /\ host' # <<>> /\ Caller' = h
      /\ \A j \in 1..Len(host) : host'[j] = host[j]
      /\ \A i \in DOMAIN site : site[i].act <= Len(host')
      /\ HostsKept
  BY <1>2, HostPushed
<1>5. Here.act < m /\ Len(callStack) > 0
  <2>1. Len(site) \in DOMAIN site
    BY <1>2, <1>3
  <2>2. Here.act \in Nat /\ Here.act <= Len(host)
    <3>1. Here \in SiteType
      BY <1>2, <2>1 DEF Here, TypeOK, StackTypes
    <3> QED
      BY <1>2, <2>1, <3>1 DEF Here, SiteType, SitesOk
  <2> QED
    BY <1>2, <1>3, <2>2
<1> HIDE DEF m
<1>6. ASSUME NEW j, j = m PROVE HostOk(j)'
  <2>1. host'[j - 1] = Caller
    BY <1>2, <1>4, <1>6
  <2>2. "exec" \notin Builtins
    BY BuiltinNames
  <2>3. h.kind \in Builtins => FromApply(j)'
    BY <1>2, <1>4, <1>6, <2>1, <2>2 DEF FromApply
  <2>4. h.kind = "exec" => (FromLoad(j) \/ FromEmbedder(j))'
    BY <1>2, <1>4, <1>6, <2>1, <2>2 DEF FromLoad
  <2>5. /\ host'[j].level <= Len(callStack')
        /\ host'[j].level > 0 => site'[host'[j].level].act < j
    BY <1>1, <1>2, <1>4, <1>5, <1>6 DEF Here
  <2> QED
    BY <1>1, <1>2, <1>3, <1>4, <1>6, <2>2, <2>3, <2>4, <2>5 DEF HostOk
<1>7. MemoryTypes' /\ MemoryGrows /\ FunctionsOk'
  BY <1>1, SameMemoryInBuiltin
<1>8. HereOk'
  BY <1>1, <1>4 DEF HereOk
<1>9. /\ host' \in Seq(HostType') /\ operandStack' \in Seq(DOMAIN heap')
      /\ ip' \in Nat /\ env' \in DOMAIN frames' /\ result' \in DOMAIN heap' /\ mode' \in Modes
  <2>1. HostType' = HostType
    BY <1>1 DEF HostType
  <2> QED
    BY <1>1, <1>2, <1>4, <2>1 DEF TypeOK, StackTypes, LocalTypes, Modes
<1> QED
  BY <1>1, <1>2, <1>4, <1>6, <1>7, <1>8, <1>9, HostStep

\* load keeps the invariant: exec runs above its arguments.
LEMMA BuiltinLoadStep == ASSUME IInv, BuiltinLoad PROVE IInv'
<1> DEFINE h == HostCall("exec", Len(operandStack), 0, 0, Null, NoAddress, TopLevel)
<1>1. /\ mode = "builtin" /\ Caller.kind \in Loaders /\ host' = Append(host, h)
      /\ mode' = "exec" /\ result' = Null
      /\ UNCHANGED << code, memory, operandStack, callStack, ip, env, fault, site >>
  BY DEF BuiltinLoad, HasText, InBuiltin, Loaders
<1>2. /\ TypeOK /\ HostOk(Len(host)) /\ Len(operandStack) \in Nat
      /\ Len(operandStack) = Caller.start + Caller.argc + Caller.params
      /\ Caller.start \in Nat /\ Caller.argc \in Nat /\ Caller.kind \in Builtins
  BY <1>1, InNative
<1>3. /\ h \in HostType /\ h.kind = "exec" /\ h.kind \notin Builtins
      /\ h.start = Len(operandStack) /\ h.argc = 0
      /\ h.owned = 0 /\ h.params = 0 /\ h.ip = NoAddress /\ h.level = Len(callStack)
  BY <1>2, ExecCall
<1> HIDE DEF h
<1>4. Caller.params = 0
  BY <1>1, <1>2, BuiltinNames DEF HostOk, Caller
<1>5. h.start = Caller.start + Caller.argc /\ Len(operandStack) = h.start + 0 + 0
  <2>1. \A x, y \in Nat : x + y + 0 = x + y
    OBVIOUS
  <2>2. \A x \in Nat : x = x + 0 + 0
    OBVIOUS
  <2> QED
    BY <1>2, <1>3, <1>4, <2>1, <2>2
<1> QED
  BY <1>1, <1>2, <1>3, <1>4, <1>5, Constants, NativeCall

\* Argument 1 of apply is a builtin.
LEMMA ApplyWrappedStep == ASSUME IInv, ApplyWrapped PROVE IInv'
<1> DEFINE start == Caller.start + Caller.argc
           name  == Applied.name
           h     == HostCall(name, start, Caller.params, 0, Cursor(name, start), NoAddress, TopLevel)
<1>1. /\ mode = "builtin" /\ Caller.kind = "apply" /\ host' = Append(host, h)
      /\ heap[Argument(1)].kind = "fn" /\ heap[Argument(1)].model = "Wrapped"
      /\ Caller.params >= heap[Argument(1)].argc
      /\ UNCHANGED << code, memory, operandStack, callStack, ip, env, mode, result, fault, site >>
  BY DEF ApplyWrapped, ApplyReady, InBuiltin, IsKind, Is, Applied
<1>2. /\ TypeOK /\ Len(operandStack) \in Nat /\ Len(callStack) \in Nat
      /\ Len(operandStack) = Caller.start + Caller.argc + Caller.params
      /\ Caller.start \in Nat /\ Caller.argc \in Nat /\ Caller.params \in Nat
  BY <1>1, InNative
<1>3. Argument(1) \in DOMAIN heap
  BY <1>1, Arguments, ArgumentCount
<1>4. name \in Builtins /\ Caller.params >= Required[name]
  BY <1>1, <1>2, <1>3, BuiltinObject DEF Applied
<1>5. start \in Nat /\ Len(operandStack) = start + Caller.params
      /\ start + Caller.params = start + Caller.params + 0
  BY <1>2
<1>6. Cursor(name, start) \in DOMAIN heap
  <2> HIDE DEF start, name
  <2>1. CASE name # "apply"
    BY <1>2, <2>1, Constants DEF Cursor
  <2>2. CASE name = "apply"
    <3>1. Caller.params >= 2
      BY <1>4, <2>2, RequiredRange
    <3>2. start + 2 \in 1..Len(operandStack)
      BY <1>2, <1>5, <3>1
    <3> QED
      BY <1>2, <2>2, <3>2 DEF Cursor, TypeOK, StackTypes
  <2> QED
    BY <2>1, <2>2
<1> HIDE DEF name
<1>7. /\ h \in HostType /\ h.kind = name /\ h.start = Caller.start + Caller.argc /\ h.argc = Caller.params
      /\ h.owned = 0 /\ h.params = 0 /\ h.ip = NoAddress /\ h.level = Len(callStack)
  <2>1. TopLevel \in DOMAIN frames
    BY <1>2 DEF TypeOK, MemoryTypes, TopLevel
  <2> QED
    BY <1>2, <1>4, <1>5, <1>6, <2>1 DEF HostCall, HostType, NoAddress
<1>8. result' \in DOMAIN heap
  BY <1>1, <1>2 DEF TypeOK, LocalTypes
<1>9. Len(operandStack) = h.start + h.argc + h.params
  BY <1>5, <1>7
<1> HIDE DEF h
<1> QED
  BY <1>1, <1>4, <1>7, <1>8, <1>9, NativeCall

\* dolist pushes one more argument.
LEMMA ApplyPushStep == ASSUME IInv, ApplyPush PROVE IInv'
<1>1. mode = "builtin" /\ Caller.kind = "apply"
  BY DEF ApplyPush, InBuiltin
<1>2. CASE ~IsKind(Caller.cursor, "pair")
  BY <1>2, ThrowHalts DEF ApplyPush
<1>3. CASE IsKind(Caller.cursor, "pair")
  <2> DEFINE m == Len(host)
             a == heap[Caller.cursor].car
             d == heap[Caller.cursor].cdr
             h == [kind |-> Caller.kind, done |-> Caller.done, start |-> Caller.start,
                   argc |-> Caller.argc, owned |-> Caller.owned, params |-> Caller.params + 1,
                   cursor |-> d, ip |-> Caller.ip, env |-> Caller.env, level |-> Caller.level]
  <2>1. /\ operandStack' = Append(operandStack, a)
        /\ host' = [host EXCEPT ![m].params = @ + 1, ![m].cursor = d]
        /\ UNCHANGED << code, memory, callStack, ip, env, mode, result, fault, site >>
    BY <1>3 DEF ApplyPush
  <2>2. /\ Sound /\ TypeOK /\ SitesOk /\ HostsOk /\ HereOk
        /\ host # <<>> /\ m \in DOMAIN host /\ m \in Nat /\ Caller \in HostType /\ Caller = host[m]
        /\ Len(callStack) = Caller.level
        /\ Len(operandStack) = Caller.start + Caller.argc + Caller.params
        /\ Caller.start \in Nat /\ Caller.argc \in Nat /\ Caller.params \in Nat
        /\ Caller.kind \in Builtins
    BY <1>1, InNative DEF Caller
  <2>3. a \in DOMAIN heap /\ d \in DOMAIN heap
    <3>1. Caller.cursor \in DOMAIN heap
      BY <2>2 DEF HostType
    <3> QED
      BY <1>3, <2>2, <3>1, PairParts
  <2>4. h \in HostType
    BY <2>2, <2>3 DEF HostType
  <2>5. host' = [host EXCEPT ![m] = h]
    <3>1. host[m] = [kind |-> Caller.kind, done |-> Caller.done, start |-> Caller.start,
                     argc |-> Caller.argc, owned |-> Caller.owned, params |-> Caller.params,
                     cursor |-> Caller.cursor, ip |-> Caller.ip, env |-> Caller.env, level |-> Caller.level]
      BY <2>2 DEF HostType
    <3>2. [[host[m] EXCEPT !.params = @ + 1] EXCEPT !.cursor = d] = h
      <4> DEFINE g == [kind |-> Caller.kind, done |-> Caller.done, start |-> Caller.start,
                       argc |-> Caller.argc, owned |-> Caller.owned, params |-> Caller.params + 1,
                       cursor |-> Caller.cursor, ip |-> Caller.ip, env |-> Caller.env, level |-> Caller.level]
      <4>1. [host[m] EXCEPT !.params = Caller.params + 1] = g
        BY <3>1
      <4>2. [g EXCEPT !.cursor = d] = h
        OBVIOUS
      <4> HIDE DEF g, h, d
      <4> QED
        BY <2>2, <4>1, <4>2
    <3>3. host' = [host EXCEPT ![m] = [[host[m] EXCEPT !.params = @ + 1] EXCEPT !.cursor = d]]
      BY <2>1, <2>2 DEF TypeOK, StackTypes
    <3> QED
      BY <3>2, <3>3
  <2>6. /\ h.kind = Caller.kind /\ h.start = Caller.start /\ h.argc = Caller.argc
        /\ h.owned = Caller.owned /\ h.params = Caller.params + 1 /\ h.ip = Caller.ip
        /\ h.env = Caller.env /\ h.level = Caller.level
    OBVIOUS
  <2> HIDE DEF h, a, d
  <2>7. /\ host' \in Seq(HostType) /\ Len(host') = m /\ DOMAIN host' = DOMAIN host
        /\ host'[m] = h /\ \A j \in DOMAIN host : j # m => host'[j] = host[j]
        /\ Caller' = h /\ host' # <<>>
    <3>1. host \in Seq(HostType)
      BY <2>2 DEF TypeOK, StackTypes
    <3>2. /\ host' \in Seq(HostType) /\ Len(host') = m /\ DOMAIN host' = DOMAIN host
          /\ host'[m] = h /\ \A j \in DOMAIN host : j # m => host'[j] = host[j]
      BY <2>2, <2>4, <2>5, <3>1
    <3> QED
      BY <2>2, <3>2 DEF Caller
  <2>8. HostsKept /\ \A i \in DOMAIN site : site[i].act <= Len(host')
    BY <1>1, <2>2, <2>6, <2>7 DEF HostsKept, SitesOk
  <2>9. /\ UNCHANGED << code, callStack, site >> /\ UNCHANGED code /\ UNCHANGED memory
        /\ UNCHANGED << heap, frames, callStack, site, ip, env, mode, result >>
    BY <2>1 DEF memory
  <2>10. MemoryTypes' /\ MemoryGrows /\ FunctionsOk'
    BY <1>1, <2>9, SameMemoryInBuiltin
  <2>11. operandStack' \in Seq(DOMAIN heap') /\ Len(operandStack') = h.start + h.argc + h.params
    <3>1. operandStack \in Seq(DOMAIN heap)
      BY <2>2 DEF TypeOK, StackTypes
    <3>2. operandStack' \in Seq(DOMAIN heap') /\ Len(operandStack') = Len(operandStack) + 1
      BY <2>1, <2>3, <2>9, <3>1, AppendFacts
    <3>3. Caller.start + Caller.argc + Caller.params + 1 = Caller.start + Caller.argc + (Caller.params + 1)
      BY <2>2
    <3> QED
      BY <2>2, <2>6, <3>2, <3>3
  <2>12. HereOk'
    BY <1>1, <2>2, <2>6, <2>7, <2>9, <2>11 DEF HereOk
  <2>13. /\ host' \in Seq(HostType') /\ ip' \in Nat /\ env' \in DOMAIN frames'
         /\ result' \in DOMAIN heap' /\ mode' \in Modes
    <3>1. HostType' = HostType
      BY <2>9 DEF HostType
    <3> QED
      BY <2>2, <2>7, <2>9, <3>1 DEF TypeOK, LocalTypes
  <2>14. DOMAIN host' \ DOMAIN host = {}
    BY <2>7
  <2> QED
    BY <2>2, <2>8, <2>9, <2>10, <2>11, <2>12, <2>13, <2>14, HostStep
<1> QED
  BY <1>2, <1>3

------------------------------------------------------------------------------------
(* Exit, and the start of a VM::execute *)

\* Where the machine is when it runs an Exit: at the end of the function that apply
\* called, or of a statement.
LEMMA AtExit ==
  ASSUME IInv, mode = "run", OpAt = "Exit"
  PROVE  /\ Sound /\ TypeOK /\ CodeOk /\ FunctionsOk /\ SitesOk /\ HostsOk
         /\ host # <<>> /\ Len(host) \in DOMAIN host /\ Len(host) \in Nat \ {0}
         /\ callStack # <<>> /\ Len(site) = Len(callStack) /\ Len(site) \in DOMAIN site
         /\ Len(callStack) \in Nat \ {0} /\ Len(operandStack) \in Nat
         /\ Caller \in HostType /\ Caller.kind \in {"apply", "exec", "setGlobal"}
         /\ Caller.kind = "apply" => Returned
         /\ Caller.kind # "apply" =>
              /\ Here.act = Len(host) /\ Caller.level = Len(callStack) - 1
              /\ Caller.kind = "exec" => Len(operandStack) = Caller.start + 1
<1>1. Sound /\ TypeOK /\ CodeOk /\ FunctionsOk /\ SitesOk /\ HostsOk /\ HereOk
  BY DEF IInv, Discipline, Sound
<1>2. host # <<>> /\ callStack # <<>> /\ Caller.kind \in {"apply", "exec", "setGlobal"}
  BY <1>1 DEF HereOk
<1>3. /\ Len(host) \in DOMAIN host /\ Len(host) \in Nat \ {0}
      /\ Len(site) = Len(callStack) /\ Len(site) \in DOMAIN site
      /\ Len(callStack) \in Nat \ {0} /\ Len(operandStack) \in Nat
  BY <1>1, <1>2 DEF TypeOK, StackTypes, SitesOk
<1>4. Caller \in HostType /\ Here \in SiteType
  BY <1>1, <1>3 DEF Caller, Here, TypeOK, StackTypes
<1>5. CASE Returned
  <2>1. Caller.kind = "apply"
    BY <1>5 DEF Returned
  <2> QED
    BY <1>1, <1>2, <1>3, <1>4, <1>5, <2>1
<1>6. CASE ~Returned
  <2>1. Here.act = Len(host) /\ Resumes(Len(site), ip, Len(operandStack))
    BY <1>1, <1>6 DEF HereOk
  <2>2. Here.body # "none"
    BY <1>1, <1>3, <2>1 DEF SitesOk, Here
  <2>3. ip \in DOMAIN program /\ Decode(program[ip]) = "Exit"
    BY <2>1 DEF Resumes, OpAt
  <2>4. /\ Here.body # "fn" /\ Here.depth = 0
        /\ Here.body = "exec" => Len(operandStack) - Here.base = 1
    <3>1. CellOk(program, shape, ip)
      BY <1>1, <2>3 DEF CodeOk, Disciplined
    <3>2. /\ shape[ip].body = Here.body /\ shape[ip].depth = Here.depth
          /\ shape[ip].height = Len(operandStack) - Here.base
      BY <2>1 DEF Resumes, Here
    <3> QED
      BY <2>2, <2>3, <3>1, <3>2 DEF CellOk, Closed
  <2>5. RootSite(Len(site))
    <3>1. SiteOk(Len(site))
      BY <1>1, <1>3 DEF SitesOk
    <3> QED
      BY <2>2, <2>4, <3>1 DEF SiteOk, CallSite, BottomSite, Here
  <2>6. /\ Caller.level = Len(callStack) - 1 /\ Here.body = Caller.kind
        /\ Caller.kind \in {"exec", "setGlobal"} /\ Here.base = Caller.start
    BY <1>3, <2>1, <2>4, <2>5 DEF RootSite, Here, Caller
  <2>7. Caller.kind = "exec" => Len(operandStack) = Caller.start + 1
    <3>1. Caller.start \in Nat
      BY <1>4 DEF HostType
    <3> QED
      BY <1>3, <2>4, <2>6, <3>1
  <2> QED
    BY <1>1, <1>2, <1>3, <1>4, <2>1, <2>6, <2>7
<1> QED
  BY <1>5, <1>6

\* VM::execute returns to Function::call.
LEMMA ExitToBuiltinStep == ASSUME IInv, ExitToBuiltin PROVE IInv'
<1> DEFINE m == Len(host)
           h == [Caller EXCEPT !.params = 0]
<1>1. /\ mode = "run" /\ OpAt = "Exit" /\ Len(operandStack) >= 1 /\ Caller.kind \in Builtins
      /\ result' = Operand(0) /\ operandStack' = Dropped(1)
      /\ host' = [host EXCEPT ![m].params = 0] /\ mode' = "return"
      /\ UNCHANGED << code, memory, callStack, ip, env, fault, site >>
  BY DEF ExitToBuiltin, At
<1>2. /\ UNCHANGED << code, callStack, site >> /\ UNCHANGED code /\ UNCHANGED memory
      /\ UNCHANGED << heap, frames, callStack, site, ip, env >>
  BY <1>1 DEF memory
<1>3. /\ Sound /\ TypeOK /\ SitesOk /\ HostsOk
      /\ host # <<>> /\ m \in DOMAIN host /\ m \in Nat \ {0} /\ Len(operandStack) \in Nat
      /\ Caller \in HostType /\ Caller = host[m] /\ Caller.kind = "apply" /\ Returned
  <2>1. "exec" \notin Builtins /\ "setGlobal" \notin Builtins
    BY BuiltinNames
  <2> QED
    BY <1>1, <2>1, AtExit DEF Caller
<1>4. Len(callStack) = Caller.level /\ Len(operandStack) = Caller.start + Caller.argc + 1
  BY <1>3 DEF Returned
<1>5. Caller.start \in Nat /\ Caller.argc \in Nat
  BY <1>3 DEF HostType
<1>6. /\ h \in HostType /\ h.kind = Caller.kind /\ h.start = Caller.start /\ h.argc = Caller.argc
      /\ h.owned = Caller.owned /\ h.params = 0 /\ h.ip = Caller.ip
      /\ h.env = Caller.env /\ h.level = Caller.level
  BY <1>3 DEF HostType
<1>7. host' = [host EXCEPT ![m] = h]
  BY <1>1, <1>3
<1> HIDE DEF h
<1>8. /\ host' \in Seq(HostType) /\ Len(host') = m /\ DOMAIN host' = DOMAIN host
      /\ host'[m] = h /\ \A j \in DOMAIN host : j # m => host'[j] = host[j]
      /\ Caller' = h /\ host' # <<>>
  <2>1. host \in Seq(HostType)
    BY <1>3 DEF TypeOK, StackTypes
  <2>2. /\ host' \in Seq(HostType) /\ Len(host') = m /\ DOMAIN host' = DOMAIN host
        /\ host'[m] = h /\ \A j \in DOMAIN host : j # m => host'[j] = host[j]
    BY <1>3, <1>6, <1>7, <2>1
  <2> QED
    BY <1>3, <2>2 DEF Caller
<1>9. /\ HostsKept /\ \A i \in DOMAIN site : site[i].act <= Len(host')
      /\ DOMAIN host' \ DOMAIN host = {}
  BY <1>3, <1>6, <1>8 DEF HostsKept, SitesOk
<1>10. MemoryTypes' /\ MemoryGrows /\ FunctionsOk'
  BY <1>1, <1>2, SameMemoryInBuiltin
<1>11. /\ operandStack' \in Seq(DOMAIN heap') /\ Len(operandStack') = h.start + h.argc + h.params
       /\ result' \in DOMAIN heap'
  <2>1. Dropped(1) \in Seq(DOMAIN heap) /\ Len(Dropped(1)) = Len(operandStack) - 1
        /\ Operand(0) \in DOMAIN heap
    BY <1>1, <1>3, Operands
  <2>2. Len(operandStack) - 1 = Caller.start + Caller.argc + 0
    BY <1>4, <1>5
  <2> QED
    BY <1>1, <1>2, <1>6, <2>1, <2>2
<1>12. HereOk'
  BY <1>1, <1>2, <1>4, <1>6, <1>8, <1>11 DEF HereOk
<1>13. host' \in Seq(HostType') /\ ip' \in Nat /\ env' \in DOMAIN frames' /\ mode' \in Modes
  <2>1. HostType' = HostType
    BY <1>2 DEF HostType
  <2> QED
    BY <1>1, <1>2, <1>3, <1>8, <2>1 DEF TypeOK, LocalTypes, Modes
<1> QED
  BY <1>2, <1>3, <1>8, <1>9, <1>10, <1>11, <1>12, <1>13, HostStep

\* VM::execute returns to exec.
LEMMA ExitToExecStep == ASSUME IInv, ExitToExec PROVE IInv'
<1>1. mode = "run" /\ OpAt = "Exit" /\ Len(operandStack) >= 1 /\ Caller.kind = "exec"
  BY DEF ExitToExec, At
<1>2. CASE callStack = <<>>
  BY <1>2, CrashHalts DEF ExitToExec
<1>3. CASE callStack # <<>>
  <2>1. /\ callStack' = Front(callStack) /\ site' = Front(site)
        /\ result' = Operand(0) /\ operandStack' = Dropped(1) /\ mode' = "exec"
        /\ UNCHANGED << code, memory, ip, env, host, fault >>
    BY <1>3 DEF ExitToExec
  <2>2. /\ UNCHANGED << program, immediates, shape, todo, heap, frames, ip, env, host >>
        /\ UNCHANGED code /\ UNCHANGED memory
    BY <2>1 DEF code, memory
  <2>3. /\ TypeOK /\ CodeOk /\ SitesOk /\ HostsOk
        /\ host # <<>> /\ Len(host) \in DOMAIN host /\ Len(site) = Len(callStack)
        /\ Caller \in HostType /\ Here.act = Len(host) /\ Caller.level = Len(callStack) - 1
        /\ Len(operandStack) \in Nat /\ Len(operandStack) = Caller.start + 1
    BY <1>1, AtExit
  <2>4. Caller.argc = 0 /\ Caller.params = 0 /\ Caller.start \in Nat
    <3>1. "exec" \notin Builtins
      BY BuiltinNames
    <3> QED
      BY <1>1, <2>3, <3>1 DEF HostsOk, HostOk, Caller, HostType
  <2>5. MemoryTypes' /\ MemoryGrows /\ FunctionsOk' /\ CodeGrows
    <3>1. CodeGrows
      BY <2>2 DEF CodeGrows
    <3> QED
      BY <1>1, <2>2, <3>1, SameMemoryInBuiltin
  <2>6. /\ Len(callStack') = Len(callStack) - 1
        /\ callStack' \in Seq(EntryType) /\ site' \in Seq(SiteType)
    BY <1>3, <2>1, <2>3, Popped
  <2>7. /\ operandStack' \in Seq(DOMAIN heap) /\ result' \in DOMAIN heap
        /\ Len(operandStack') = Caller.start + Caller.argc + Caller.params
    <3>1. Dropped(1) \in Seq(DOMAIN heap) /\ Len(Dropped(1)) = Len(operandStack) - 1
          /\ Operand(0) \in DOMAIN heap
      BY <1>1, <2>3, Operands
    <3>2. Len(operandStack) - 1 = Caller.start + 0 + 0
      BY <2>3, <2>4
    <3> QED
      BY <2>1, <2>4, <3>1, <3>2
  <2>8. TypeOK'
    <3>1. EntryType' = EntryType /\ HostType' = HostType
      BY <2>2 DEF EntryType, HostType
    <3> QED
      BY <2>1, <2>2, <2>3, <2>5, <2>6, <2>7, <3>1
      DEF TypeOK, CodeTypes, StackTypes, LocalTypes, Modes
  <2>9. SitesOk' /\ HostsOk'
    BY <1>3, <2>1, <2>2, <2>3, <2>5, <2>8, PopStays
  <2>10. HereOk'
    <3>1. Caller' = Caller
      BY <2>2 DEF Caller
    <3> QED
      BY <1>1, <2>1, <2>2, <2>3, <2>6, <2>7, <3>1 DEF HereOk
  <2>11. CodeOk'
    BY <2>2, <2>3 DEF CodeOk
  <2> QED
    BY <2>5, <2>8, <2>9, <2>10, <2>11 DEF IInv, Discipline
<1> QED
  BY <1>2, <1>3

\* VM::execute returns to setGlobal, which returns to its caller.
LEMMA ExitToSetGlobalStep == ASSUME IInv, ExitToSetGlobal PROVE IInv'
<1>1. mode = "run" /\ OpAt = "Exit" /\ Caller.kind = "setGlobal"
  BY DEF ExitToSetGlobal, At
<1>2. CASE callStack = <<>>
  BY <1>2, CrashHalts DEF ExitToSetGlobal
<1>3. CASE callStack # <<>>
  <2>1. /\ callStack' = Front(callStack) /\ site' = Front(site)
        /\ host' = Front(host) /\ mode' = "idle"
        /\ UNCHANGED << code, memory, operandStack, ip, env, result, fault >>
    BY <1>3 DEF ExitToSetGlobal
  <2>2. /\ UNCHANGED << program, immediates, shape, todo, heap, frames, operandStack, ip, env, result >>
        /\ UNCHANGED code /\ UNCHANGED memory
    BY <2>1 DEF code, memory
  <2>3. /\ TypeOK /\ CodeOk /\ SitesOk /\ HostsOk
        /\ host # <<>> /\ Len(host) \in DOMAIN host /\ Len(host) \in Nat \ {0}
        /\ Len(site) = Len(callStack) /\ Len(callStack) \in Nat \ {0}
        /\ Caller \in HostType /\ Caller.level = Len(callStack) - 1
    BY <1>1, AtExit
  <2>4. Len(host) = 1 /\ Caller.level <= 1
    <3>1. "setGlobal" \notin Builtins
      BY BuiltinNames
    <3> QED
      BY <1>1, <2>3, <3>1 DEF HostsOk, HostOk, FromLoad, FromEmbedder, Caller
  <2>5. host' = <<>> /\ host' \in Seq(HostType)
    <3>1. host' \in Seq(HostType) /\ Len(host') = 0
      BY <2>1, <2>3, <2>4, FrontFacts DEF TypeOK, StackTypes
    <3> QED
      BY <3>1
  <2>6. MemoryTypes' /\ MemoryGrows /\ FunctionsOk' /\ CodeGrows
    <3>1. CodeGrows
      BY <2>2 DEF CodeGrows
    <3> QED
      BY <1>1, <2>2, <3>1, SameMemoryInBuiltin
  <2>7. /\ Len(callStack') = Len(callStack) - 1 /\ Len(site') = Len(callStack')
        /\ DOMAIN site' = 1..(Len(callStack) - 1) /\ DOMAIN site = 1..Len(callStack)
        /\ callStack' \in Seq(EntryType) /\ site' \in Seq(SiteType) /\ EntriesKept
    BY <1>3, <2>1, <2>3, Popped
  <2>8. TypeOK'
    <3>1. EntryType' = EntryType /\ HostType' = HostType
      BY <2>2 DEF EntryType, HostType
    <3> QED
      BY <2>1, <2>2, <2>3, <2>5, <2>6, <2>7, <3>1
      DEF TypeOK, CodeTypes, StackTypes, LocalTypes, Modes
  <2>9. HostsKept /\ DOMAIN host' = {} /\ Len(host') = 0
    BY <2>5 DEF HostsKept
  <2>10. Evolves
    BY <2>3, <2>6, <2>7, <2>8, <2>9 DEF Evolves
  <2>11. ASSUME NEW i \in DOMAIN site' PROVE site[i].act <= Len(host')
    <3>1. /\ i \in DOMAIN site /\ Caller.level \in DOMAIN site /\ i <= Caller.level /\ Caller.level > 0
      BY <2>3, <2>7
    <3>2. site[Caller.level].act < 1 /\ site[i].act <= site[Caller.level].act
      BY <2>3, <2>4, <3>1 DEF HostsOk, HostOk, Caller, SitesOk
    <3>3. site[i] \in SiteType /\ site[Caller.level] \in SiteType
      BY <2>3, <3>1 DEF TypeOK, StackTypes
    <3>4. site[i].act \in Nat /\ site[Caller.level].act \in Nat
      BY <3>3 DEF SiteType
    <3> QED
      BY <2>9, <3>2, <3>4
  <2>12. SitesOk'
    <3>1. DOMAIN site' \ DOMAIN site = {}
      BY <2>3, <2>7
    <3> QED
      BY <2>3, <2>10, <2>11, <3>1, SitesStay
  <2>13. HostsOk'
    BY <2>9 DEF HostsOk
  <2>14. HereOk'
    BY <2>1, <2>3, <2>4, <2>5, <2>7 DEF HereOk
  <2>15. CodeOk'
    BY <2>2, <2>3 DEF CodeOk
  <2> QED
    BY <2>6, <2>8, <2>12, <2>13, <2>14, <2>15 DEF IInv, Discipline
<1> QED
  BY <1>2, <1>3

\* Argument 1 of apply is a function of bytecode: a VM::execute of its own begins.
LEMMA ApplyBytecodeStep == ASSUME IInv, ApplyBytecode PROVE IInv'
<1> DEFINE fn == heap[Argument(1)]
           base == Len(operandStack) - fn.argc
           c == Entry(Len(program), fn.addr, Len(frames) + 1)
           s == Site("fn", fn.addr, 0, base, Len(host), TRUE)
           i == Len(callStack) + 1
<1>1. /\ mode = "builtin" /\ Caller.kind = "apply"
      /\ fn.kind = "fn" /\ fn.model = "Bytecode" /\ Caller.params = fn.argc
      /\ frames' = Append(frames, Frame(fn.def)) /\ env' = Len(frames) + 1
      /\ callStack' = Append(callStack, c) /\ site' = Append(site, s) /\ ip' = fn.addr
      /\ mode' = "run" /\ UNCHANGED << code, heap, operandStack, host, result, fault >>
  BY DEF ApplyBytecode, ApplyReady, InBuiltin, IsKind, Is, Applied
<1>2. UNCHANGED << program, shape >> /\ UNCHANGED code /\ UNCHANGED << code, host, result >>
      /\ heap' = heap
  BY <1>1 DEF code
<1>3. /\ TypeOK /\ SitesOk /\ HostsOk /\ CodeOk /\ HereOk /\ FunctionsOk
      /\ host # <<>> /\ Len(host) \in DOMAIN host /\ Len(host) \in Nat
      /\ Len(site) = Len(callStack) /\ Len(callStack) = Caller.level /\ Len(callStack) \in Nat
      /\ HostOk(Len(host)) /\ Caller = host[Len(host)]
      /\ Len(operandStack) = Caller.start + Caller.argc + Caller.params
      /\ Caller.start \in Nat /\ Caller.argc \in Nat /\ Caller.params \in Nat
      /\ Caller.kind \in Builtins
  BY <1>1, InNative DEF Caller
<1>4. Argument(1) \in DOMAIN heap
  BY <1>1, Arguments, ArgumentCount
<1>5. /\ fn.def \in DOMAIN frames /\ fn.addr \in DOMAIN program /\ fn.addr \in Nat
      /\ shape[fn.addr] = [body |-> "fn", at |-> 0, depth |-> 0, height |-> fn.argc]
  <2>1. ObjectOk(fn) /\ fn.addr \in DOMAIN program
    BY <1>1, <1>3, <1>4 DEF TypeOK, MemoryTypes, ObjectOk
  <2>2. shape[fn.addr] = [body |-> "fn", at |-> 0, depth |-> 0, height |-> fn.argc]
    BY <1>1, <1>3, <1>4 DEF FunctionsOk
  <2>3. fn.addr \in Nat
    BY <1>3, <2>1, SMTT(30) DEF TypeOK, CodeTypes
  <2> QED
    BY <1>1, <2>1, <2>2, <2>3 DEF ObjectOk
<1>6. /\ MemoryTypes' /\ MemoryGrows /\ Len(frames) + 1 \in DOMAIN frames'
  BY <1>1, <1>2, <1>3, <1>5, FrameAllocated DEF TypeOK, MemoryTypes
<1>7. FunctionsOk' /\ operandStack' \in Seq(DOMAIN heap')
  <2>1. CodeGrows
    BY <1>2 DEF CodeGrows
  <2> QED
    BY <1>1, <1>2, <1>3, <1>6, <2>1, FunctionsStay DEF TypeOK, StackTypes
<1>8. base \in Nat /\ base = Caller.start + Caller.argc /\ Len(operandStack) = base + fn.argc
      /\ base + fn.argc >= base /\ (base + fn.argc) - base = fn.argc
  <2>1. \A x, y, z \in Nat : (x + y + z) - z = x + y /\ x + y \in Nat
    OBVIOUS
  <2>2. base = Caller.start + Caller.argc /\ base \in Nat
    BY <1>1, <1>3, <2>1, SMTT(30)
  <2> QED
    BY <1>1, <1>3, <2>2, SMTT(30)
<1>9. c \in EntryType' /\ c.env = env' /\ c.ret = Len(program) /\ c.top = fn.addr
  <2>1. Len(program) \in DOMAIN program
    BY <1>3 DEF CodeOk, TypeOK, CodeTypes
  <2> QED
    BY <1>1, <1>2, <1>5, <1>6, <2>1 DEF Entry, EntryType
<1>10. /\ s \in SiteType /\ s.act = Len(host) /\ s.body = "fn" /\ s.start = fn.addr
       /\ s.base = base /\ s.depth = 0 /\ s.root = TRUE
  BY <1>3, <1>5, <1>8 DEF Site, SiteType, Bodies
<1> HIDE DEF c, s, base
<1>11. /\ site'[i] = s /\ callStack'[i] = c /\ i > 1 /\ i - 1 = Len(callStack)
       /\ i \in DOMAIN site'
  <2>1. Len(callStack) > 0
    BY <1>3 DEF HostOk
  <2> QED
    BY <1>1, <1>3, <2>1, Pushed, SMTT(30)
<1>12. ASSUME NEW n, n = i PROVE SiteOk(n)'
  <2>1. Decode(program[Len(program)]) = "Exit"
    BY <1>3 DEF CodeOk
  <2>2. /\ site'[n] = s /\ callStack'[n] = c /\ n > 1 /\ n - 1 = Caller.level
        /\ host' = host /\ program' = program
    BY <1>1, <1>2, <1>3, <1>11, <1>12
  <2>3. RootSite(n)'
    <3>1. /\ site'[n].act = Len(host) /\ Len(host) \in DOMAIN host' /\ host'[Len(host)] = Caller
          /\ site'[n].body = "fn" /\ site'[n].start = callStack'[n].top
          /\ site'[n].base = Caller.start + Caller.argc
          /\ Decode(program'[callStack'[n].ret]) = "Exit"
      BY <1>3, <1>8, <1>9, <1>10, <2>1, <2>2
    <3> QED
      BY <1>1, <2>2, <3>1 DEF RootSite
  <2> QED
    BY <1>10, <1>11, <1>12, <2>3 DEF SiteOk
<1>13. ASSUME NEW n, n = i, NEW a, a = ip', NEW k, k = Len(operandStack') PROVE Resumes(n, a, k)'
  <2>1. fn.addr - fn.addr = 0
    BY <1>5
  <2> QED
    BY <1>1, <1>2, <1>5, <1>8, <1>10, <1>11, <1>13, <2>1, SMTT(30) DEF Resumes
<1>14. i = Len(callStack) + 1 /\ s.act = Len(host) /\ s.body # "none"
  BY <1>10
<1> HIDE DEF i, fn
<1> QED
  BY <1>1, <1>2, <1>3, <1>6, <1>7, <1>9, <1>10, <1>12, <1>13, <1>14, EnterStep

\* The literals of compiled code are values that refer to nothing.
LEMMA AtomFacts ==
  ASSUME NEW o \in Atom
  PROVE  o \in Object /\ ObjectOk(o) /\ ObjectOk(o)' /\ (o.kind = "fn" => o.model = "Wrapped")
<1>1. o \in Object
  BY DEF Object
<1>2. o.kind # "pair" /\ (o.kind = "fn" => o.model = "Wrapped")
  BY DEF Atom, Builtin
<1> QED
  BY <1>1, <1>2 DEF ObjectOk

\* A statement that is taken from todo was compiled to code that keeps to the discipline.
Accepted == todo' # todo => ChunkOk(Head(todo))

\* A statement was compiled: the code is there, and the machine is at its start.
LEMMA LaunchStep ==
  ASSUME IInv, Accepted, mode \in {"idle", "exec"}, todo # <<>>,
         NEW c, c = Head(todo), c.outcome = "ok", NEW calls, Launch(c, calls),
         calls \in Seq(HostType), calls # <<>>, Len(host) <= Len(calls), HostsKept,
         calls[Len(calls)].kind = c.kind, calls[Len(calls)].level = Len(callStack),
         calls[Len(calls)].start = Len(operandStack),
         \A j \in DOMAIN calls \ DOMAIN host : HostOk(j)'
  PROVE  IInv'
<1> DEFINE start == Len(program) + 1
           lits == c.lits
           news == [k \in 1..Len(lits) |-> Len(heap) + k]
           e == Entry(Unused, Unused, TopLevel)
           s == Site(c.kind, start, 0, Len(operandStack), Len(calls), TRUE)
           i == Len(callStack) + 1
<1>1. /\ program' = program \o c.code /\ shape' = shape \o c.shape
      /\ heap' = heap \o lits /\ immediates' = immediates \o news
      /\ todo' = Tail(todo) /\ callStack' = Append(callStack, e) /\ host' = calls
      /\ site' = Append(site, s) /\ ip' = start /\ env' = TopLevel /\ mode' = "run"
      /\ UNCHANGED << session, frames, operandStack, result, fault >>
  BY DEF Launch
<1>2. /\ TypeOK /\ CodeOk /\ FunctionsOk /\ SitesOk /\ HostsOk
  BY DEF IInv, Discipline, Sound
<1>3. c \in Chunk /\ DisciplinedChunk(c.code, c.shape, c.kind) /\ todo' \in Seq(Chunk)
  <2>1. todo \in Seq(Chunk)
    BY <1>2 DEF TypeOK, CodeTypes
  <2> HIDE DEF Chunk
  <2>2. /\ Tail(todo) \in Seq(Chunk) /\ Len(Tail(todo)) = Len(todo) - 1
        /\ Head(todo) = todo[1] /\ 1 \in DOMAIN todo /\ Len(todo) \in Nat
    BY <2>1, TailFacts
  <2>3. c \in Chunk
    BY <2>1, <2>2
  <2>4. todo' # todo
    <3>1. Len(todo') = Len(todo) - 1 /\ Len(todo) \in Nat
      BY <1>1, <2>2
    <3> QED
      BY <3>1
  <2> QED
    BY <1>1, <2>2, <2>3, <2>4 DEF Accepted, ChunkOk
<1>4. /\ c.code \in Seq(Byte) /\ c.shape \in Seq(Shape) /\ lits \in Seq(Atom)
      /\ c.kind \in {"exec", "setGlobal"} /\ c.code # <<>> /\ Len(c.shape) = Len(c.code)
      /\ c.shape[1] = [body |-> c.kind, at |-> 0, depth |-> 0, height |-> 0]
      /\ Disciplined(c.code, c.shape) /\ Decode(c.code[Len(c.code)]) = "Exit"
  BY <1>3 DEF Chunk, DisciplinedChunk, Disciplined
<1>5. Disciplined(program', shape') /\ CodeGrows /\ start \in DOMAIN program'
      /\ shape'[start] = c.shape[1] /\ CodeOk'
  <2>1. /\ program \in Seq(Byte) /\ shape \in Seq(Shape) /\ Len(shape) = Len(program)
        /\ Disciplined(program, shape)
    BY <1>2 DEF CodeOk, Disciplined
  <2>2. Disciplined(program', shape')
    BY <1>1, <1>4, <2>1, ConcatDisciplined
  <2> HIDE DEF Shape, Byte
  <2>3. /\ Len(program') = Len(program) + Len(c.code) /\ Len(shape') = Len(program')
        /\ \A a \in 1..Len(program) : program'[a] = program[a] /\ shape'[a] = shape[a]
        /\ \A a \in 1..Len(c.code) : /\ program'[Len(program) + a] = c.code[a]
                                      /\ shape'[Len(program) + a] = c.shape[a]
        /\ program' \in Seq(Byte)
    <3>1. /\ program' \in Seq(Byte) /\ Len(program') = Len(program) + Len(c.code)
          /\ \A a \in 1..Len(program) : program'[a] = program[a]
          /\ \A a \in 1..Len(c.code) : program'[Len(program) + a] = c.code[a]
      <4>1. program' = program \o c.code /\ program \in Seq(Byte) /\ c.code \in Seq(Byte)
        BY <1>1, <1>4, <2>1
      <4> QED
        BY <4>1, ConcatFacts, SMTT(30)
    <3>2. /\ Len(shape') = Len(shape) + Len(c.shape)
          /\ \A a \in 1..Len(shape) : shape'[a] = shape[a]
          /\ \A a \in 1..Len(c.shape) : shape'[Len(shape) + a] = c.shape[a]
      <4>1. shape' = shape \o c.shape /\ shape \in Seq(Shape) /\ c.shape \in Seq(Shape)
        BY <1>1, <1>4, <2>1
      <4> QED
        BY <4>1, ConcatFacts, SMTT(30)
    <3>3. Len(shape) = Len(program) /\ Len(c.shape) = Len(c.code)
      BY <1>4, <2>1
    <3>4. /\ Len(program') = Len(program) + Len(c.code) /\ Len(shape') = Len(program')
          /\ program' \in Seq(Byte)
      BY <3>1, <3>2, <3>3
    <3>5. \A a \in 1..Len(program) : program'[a] = program[a] /\ shape'[a] = shape[a]
      BY <3>1, <3>2, <3>3
    <3>6. \A a \in 1..Len(c.code) : /\ program'[Len(program) + a] = c.code[a]
                                      /\ shape'[Len(program) + a] = c.shape[a]
      BY <3>1, <3>2, <3>3, SMTT(30)
    <3> QED
      BY <3>4, <3>5, <3>6
  <2>4. Len(program) \in Nat /\ Len(c.code) \in Nat \ {0} /\ Len(c.code) \in 1..Len(c.code)
        /\ 1 \in 1..Len(c.code)
    BY <1>4, <2>1
  <2>5. CodeGrows
    BY <2>1, <2>3, <2>4 DEF CodeGrows
  <2>6. start \in DOMAIN program' /\ shape'[start] = c.shape[1] /\ program' # <<>>
    BY <2>3, <2>4
  <2>7. Decode(program'[Len(program')]) = "Exit"
    BY <1>4, <2>3, <2>4
  <2> QED
    BY <2>2, <2>5, <2>6, <2>7 DEF CodeOk
<1>6. /\ MemoryTypes' /\ MemoryGrows /\ FunctionsOk' /\ immediates' \in Seq(DOMAIN heap')
  <2>1. /\ lits \in Seq(Object) /\ \A k \in DOMAIN lits : ObjectOk(lits[k])'
        /\ \A k \in DOMAIN lits : lits[k].kind = "fn" => lits[k].model = "Wrapped"
    <3>1. Atom \subseteq Object
      BY AtomFacts
    <3>2. \A k \in DOMAIN lits : lits[k] \in Atom
      <4> HIDE DEF Atom, lits
      <4> QED
        BY <1>4
    <3>3. lits \in Seq(Object)
      BY <1>4, <3>1, SeqMono
    <3> QED
      BY <3>2, <3>3, AtomFacts
  <2>2. heap \in Seq(Object)
    BY <1>2 DEF TypeOK, MemoryTypes
  <2> HIDE DEF Object, lits
  <2>3. MemoryTypes' /\ MemoryGrows
    BY <1>1, <1>2, <1>5, <2>1, HeapGrows
  <2>4. /\ Len(heap') = Len(heap) + Len(lits) /\ heap' \in Seq(Object)
        /\ \A k \in 1..Len(lits) : heap'[Len(heap) + k] = lits[k]
    BY <1>1, <2>1, <2>2, ConcatFacts
  <2>5. Len(heap) \in Nat /\ Len(lits) \in Nat /\ DOMAIN heap = 1..Len(heap)
        /\ DOMAIN heap' = 1..(Len(heap) + Len(lits)) /\ DOMAIN lits = 1..Len(lits)
    BY <2>1, <2>2, <2>4
  <2>6. ASSUME NEW v \in DOMAIN heap' \ DOMAIN heap
        PROVE  heap'[v].kind = "fn" => heap'[v].model = "Wrapped"
    <3>1. v - Len(heap) \in 1..Len(lits) /\ Len(heap) + (v - Len(heap)) = v
      BY <2>5
    <3>2. heap'[v] = lits[v - Len(heap)]
      BY <2>4, <3>1
    <3> QED
      BY <2>1, <2>5, <3>1, <3>2
  <2>7. FunctionsOk'
    BY <1>2, <1>5, <2>3, <2>6, FunctionsStay
  <2>8. immediates' \in Seq(DOMAIN heap')
    <3>1. immediates \in Seq(DOMAIN heap')
      BY <1>2, <1>5, <2>3, TypesGrow
    <3>2. news \in Seq(DOMAIN heap')
      <4>1. \A k \in 1..Len(lits) : Len(heap) + k \in DOMAIN heap'
        BY <2>5
      <4> QED
        BY <2>5, <4>1
    <3> HIDE DEF news
    <3> QED
      BY <1>1, <3>1, <3>2, ConcatFacts
  <2> QED
    BY <2>3, <2>7, <2>8
<1> HIDE DEF lits, news
<1>7. /\ TopLevel \in DOMAIN frames' /\ Unused \in DOMAIN program'
      /\ frames' = frames /\ Len(operandStack) \in Nat /\ Len(callStack) \in Nat
      /\ Len(calls) \in Nat \ {0} /\ Len(host) \in Nat /\ start \in Nat
  <2>1. frames' = frames /\ Len(operandStack) \in Nat /\ Len(callStack) \in Nat
        /\ Len(calls) \in Nat \ {0} /\ Len(host) \in Nat
    BY <1>1, <1>2, SMTT(30) DEF TypeOK, StackTypes
  <2>2. start \in Nat /\ Unused \in DOMAIN program'
    <3>1. program' \in Seq(Byte) /\ Len(program) \in Nat
      BY <1>2, <1>5 DEF TypeOK, CodeTypes, Disciplined
    <3> HIDE DEF Byte
    <3> QED
      BY <1>5, <3>1 DEF Unused
  <2>3. TopLevel \in DOMAIN frames
    BY <1>2 DEF TypeOK, MemoryTypes, TopLevel
  <2> QED
    BY <2>1, <2>2, <2>3
<1>8. e \in EntryType' /\ e.env = TopLevel
  BY <1>7 DEF Entry, EntryType
<1>9. /\ s \in SiteType /\ s.act = Len(calls) /\ s.body = c.kind /\ s.start = start
      /\ s.base = Len(operandStack) /\ s.depth = 0 /\ s.root = TRUE
  BY <1>4, <1>7 DEF Site, SiteType, Bodies
<1> HIDE DEF e, s
<1>10. TypeOK'
  <2>1. CodeTypes'
    BY <1>3, <1>5, <1>6 DEF CodeTypes, Disciplined
  <2>2. operandStack' \in Seq(DOMAIN heap') /\ result' \in DOMAIN heap'
    BY <1>1, <1>2, <1>5, <1>6, TypesGrow
  <2>3. callStack' \in Seq(EntryType') /\ site' \in Seq(SiteType)
    BY <1>1, <1>2, <1>5, <1>6, <1>8, <1>9, PushTypes
  <2>4. host' \in Seq(HostType')
    BY <1>1, <1>2, <1>5, <1>6, TypesGrow, SeqMono
  <2>5. StackTypes'
    BY <2>2, <2>3, <2>4 DEF StackTypes
  <2>6. LocalTypes'
    BY <1>1, <1>7, <2>2 DEF LocalTypes, Modes
  <2> QED
    BY <1>6, <2>1, <2>5, <2>6 DEF TypeOK
<1>11. /\ site'[i] = s /\ callStack'[i] = e /\ i - 1 = Len(callStack) /\ i \in DOMAIN site'
       /\ Len(callStack') = i /\ Len(site') = i /\ callStack' # <<>>
  <2>1. /\ site'[i] = s /\ callStack'[i] = e /\ Len(callStack') = i /\ Len(site') = i
        /\ DOMAIN site' = 1..i
    BY <1>1, <1>2, Pushed DEF SitesOk
  <2> QED
    BY <1>7, <2>1
<1>12. Caller' = calls[Len(calls)] /\ host' = calls /\ Len(calls) \in DOMAIN calls
  BY <1>1, <1>7 DEF Caller
<1>13. ASSUME NEW n, n = i PROVE SiteRow(n)'
  <2>1. RootSite(n)'
    BY <1>4, <1>9, <1>11, <1>12, <1>13, SMTT(30) DEF RootSite
  <2>2. SiteOk(n)'
    BY <1>9, <1>11, <1>13, <2>1 DEF SiteOk
  <2> QED
    BY <1>4, <1>7, <1>9, <1>11, <1>12, <1>13, <2>2, SMTT(30) DEF SiteRow
<1>14. i = Len(callStack) + 1 /\ Len(host) <= Len(host') /\ s.act = Len(host')
       /\ \A j \in DOMAIN host' \ DOMAIN host : HostOk(j)'
  BY <1>9, <1>12
<1>15. HereOk'
  <2>1. start - start = 0 /\ Len(operandStack) - Len(operandStack) = 0
        /\ Len(operandStack) >= Len(operandStack)
    BY <1>7
  <2>2. Resumes(Len(site), ip, Len(operandStack))'
    <3>1. /\ Len(site') = i /\ i \in DOMAIN site' /\ site'[i] = s /\ ip' = start
          /\ operandStack' = operandStack
      BY <1>1, <1>11
    <3>2. shape'[start] = [body |-> s.body, at |-> start - s.start, depth |-> s.depth,
                           height |-> Len(operandStack) - s.base]
      BY <1>4, <1>5, <1>9, <2>1
    <3>3. start \in DOMAIN program' /\ Len(operandStack) >= s.base
      BY <1>5, <1>9, <2>1
    <3> HIDE DEF i, start
    <3> QED
      BY <3>1, <3>2, <3>3 DEF Resumes
  <2>3. Here' = s /\ env' = callStack'[Len(callStack')].env
    BY <1>1, <1>8, <1>11 DEF Here
  <2> QED
    BY <1>1, <1>4, <1>9, <1>11, <1>12, <2>2, <2>3 DEF HereOk
<1> HIDE DEF i, start
<1>16. SitesOk' /\ HostsOk'
  BY <1>1, <1>2, <1>5, <1>6, <1>10, <1>13, <1>14, PushStays
<1> QED
  BY <1>3, <1>5, <1>6, <1>10, <1>15, <1>16 DEF IInv, Discipline

\* setGlobal keeps the invariant.
LEMMA SetGlobalStep == ASSUME IInv, Accepted, SetGlobal PROVE IInv'
<1> DEFINE c == Head(todo)
           h == HostCall("setGlobal", Len(operandStack), 0, 0, Null, NoAddress, TopLevel)
           calls == Append(host, h)
<1>1. mode = "idle" /\ todo # <<>> /\ c.kind = "setGlobal"
  BY DEF SetGlobal
<1>2. CASE c.outcome # "ok"
  BY <1>2, CrashHalts, ThrowHalts DEF SetGlobal, CompileError
<1>3. CASE c.outcome = "ok"
  <2>1. Launch(c, calls) /\ host' = calls
    BY <1>3 DEF SetGlobal, Launch
  <2>2. /\ TypeOK /\ SitesOk /\ HostsOk
        /\ host = <<>> /\ Len(callStack) \in {0, 1} /\ Len(site) = Len(callStack)
        /\ \A i \in DOMAIN site : site[i].act = 0
    BY <1>1, Idle
  <2>3. /\ h \in HostType /\ h.kind = "setGlobal" /\ h.kind \notin Builtins
        /\ h.start = Len(operandStack) /\ h.argc = 0
        /\ h.owned = 0 /\ h.params = 0 /\ h.ip = NoAddress /\ h.level = Len(callStack)
    BY <2>2, ExecCall
  <2> HIDE DEF h
  <2>4. /\ calls \in Seq(HostType) /\ Len(calls) = 1
        /\ DOMAIN calls \ DOMAIN host = {1} /\ calls[1] = h /\ calls # <<>>
        /\ HostsKept
    <3>1. Len(host) = 0
      BY <2>2
    <3> QED
      BY <2>1, <2>2, <2>3, <3>1, HostPushed
  <2>5. ASSUME NEW j, j = 1 PROVE HostOk(j)'
    <3>1. /\ Len(callStack') = Len(callStack) + 1 /\ Len(callStack) \in Nat
          /\ \A k \in 1..Len(callStack) : site'[k] = site[k] /\ k \in DOMAIN site
      BY <2>1, <2>2, Pushed DEF Launch
    <3>2. Len(callStack) > 0 => site'[Len(callStack)].act < 1
      BY <2>2, <3>1
    <3>3. Len(callStack) <= Len(callStack')
      BY <3>1
    <3> QED
      BY <2>1, <2>2, <2>3, <2>4, <2>5, <3>2, <3>3 DEF HostOk, FromEmbedder
  <2>6. Len(host) <= Len(calls) /\ calls[Len(calls)] = h
    BY <2>2, <2>4
  <2> HIDE DEF calls, c
  <2>7. c = Head(todo)
    BY DEF c
  <2> QED
    BY <1>1, <1>3, <2>1, <2>3, <2>4, <2>5, <2>6, <2>7, LaunchStep
<1> QED
  BY <1>2, <1>3

\* The next statement of an exec keeps the invariant.
LEMMA ExecStatementStep == ASSUME IInv, Accepted, ExecStatement PROVE IInv'
<1> DEFINE c == Head(todo)
           m == Len(host)
           h == [Caller EXCEPT !.done = c.last]
           calls == [host EXCEPT ![m].done = c.last]
<1>1. mode = "exec" /\ todo # <<>> /\ c.kind = "exec"
  BY DEF ExecStatement
<1>2. CASE c.outcome # "ok"
  BY <1>2, CrashHalts, ThrowHalts DEF ExecStatement, CompileError
<1>3. CASE c.outcome = "ok"
  <2>1. Launch(c, calls) /\ host' = calls
    BY <1>3 DEF ExecStatement, Launch
  <2>2. /\ TypeOK /\ host # <<>> /\ m \in DOMAIN host /\ m \in Nat
        /\ Caller \in HostType /\ Caller = host[m] /\ Caller.kind = "exec" /\ HostOk(m)
        /\ Len(callStack) = Caller.level
        /\ Len(operandStack) = Caller.start + Caller.argc + Caller.params /\ Caller.start \in Nat
    BY <1>1, InNative DEF Caller
  <2>3. Len(operandStack) = Caller.start
    <3>1. "exec" \notin Builtins
      BY BuiltinNames
    <3>2. Caller.argc = 0 /\ Caller.params = 0
      BY <2>2, <3>1 DEF HostOk
    <3> QED
      BY <2>2, <3>2
  <2>4. c.last \in BOOLEAN
    <3>1. todo \in Seq(Chunk)
      BY <2>2 DEF TypeOK, CodeTypes
    <3>2. c \in Chunk
      <4> HIDE DEF Chunk
      <4> QED
        BY <1>1, <3>1
    <3> HIDE DEF c
    <3> QED
      BY <3>2 DEF Chunk
  <2>5. /\ h \in HostType /\ h.kind = Caller.kind /\ h.start = Caller.start /\ h.argc = Caller.argc
        /\ h.owned = Caller.owned /\ h.params = Caller.params /\ h.ip = Caller.ip
        /\ h.env = Caller.env /\ h.level = Caller.level
    <3> HIDE DEF c
    <3> QED
      BY <2>2, <2>4 DEF HostType
  <2>6. calls = [host EXCEPT ![m] = h]
    BY <2>2
  <2> HIDE DEF h, calls
  <2>7. /\ calls \in Seq(HostType) /\ Len(calls) = m /\ DOMAIN calls = DOMAIN host
        /\ calls[m] = h /\ \A j \in DOMAIN host : j # m => calls[j] = host[j]
        /\ calls # <<>>
    <3>1. host \in Seq(HostType)
      BY <2>2 DEF TypeOK, StackTypes
    <3>2. /\ calls \in Seq(HostType) /\ Len(calls) = m /\ DOMAIN calls = DOMAIN host
          /\ calls[m] = h /\ \A j \in DOMAIN host : j # m => calls[j] = host[j]
      BY <2>2, <2>5, <2>6, <3>1
    <3> QED
      BY <2>2, <3>2
  <2>8. HostsKept
    BY <2>1, <2>2, <2>5, <2>7 DEF HostsKept
  <2>9. Len(host) <= Len(calls) /\ calls[Len(calls)] = h /\ DOMAIN calls \ DOMAIN host = {}
    BY <2>2, <2>7
  <2> HIDE DEF c
  <2>10. c = Head(todo)
    BY DEF c
  <2> QED
    <3>1. /\ calls # <<>> /\ Len(host) <= Len(calls) /\ calls \in Seq(HostType)
          /\ calls[Len(calls)].kind = c.kind /\ calls[Len(calls)].level = Len(callStack)
          /\ calls[Len(calls)].start = Len(operandStack)
      BY <1>1, <2>2, <2>3, <2>5, <2>7, <2>9
    <3>2. \A j \in DOMAIN calls \ DOMAIN host : HostOk(j)'
      BY <2>9
    <3> QED
      BY <1>1, <1>3, <2>1, <2>8, <2>10, <3>1, <3>2, LaunchStep
<1> QED
  BY <1>2, <1>3

------------------------------------------------------------------------------------
(* The invariant *)

\* The constructor's own entry.
LEMMA ConstructStep == ASSUME IInv, Construct PROVE IInv'
<1> DEFINE e == Entry(Unused, Unused, TopLevel)
           s == Site("none", Unused, 0, 0, 0, TRUE)
<1>1. /\ mode = "idle" /\ callStack = <<>> /\ callStack' = << e >> /\ site' = << s >>
      /\ UNCHANGED << code, memory, operandStack, ip, env, control >>
  BY DEF Construct
<1>2. /\ UNCHANGED << program, immediates, shape, todo, heap, frames, operandStack, ip, env,
                      host, mode, result >>
      /\ UNCHANGED code /\ UNCHANGED memory
  BY <1>1 DEF code, memory, control
<1>3. /\ Sound /\ TypeOK /\ CodeOk /\ FunctionsOk /\ SitesOk /\ HostsOk
      /\ host = <<>> /\ Len(site) = Len(callStack)
  BY <1>1, Idle
<1>4. MemoryTypes' /\ MemoryGrows /\ FunctionsOk' /\ CodeGrows
  <2>1. CodeGrows
    BY <1>2 DEF CodeGrows
  <2> QED
    BY <1>1, <1>2, <2>1, SameMemoryInBuiltin
<1>5. TypeOK'
  <2>1. EntryType' = EntryType /\ HostType' = HostType
    BY <1>2 DEF EntryType, HostType
  <2>2. e \in EntryType
    BY <1>3 DEF Entry, EntryType, Unused, TopLevel, CodeOk, TypeOK, CodeTypes, MemoryTypes
  <2>3. s \in SiteType
    BY DEF Site, SiteType, Unused
  <2> HIDE DEF e, s
  <2> QED
    BY <1>1, <1>2, <1>3, <1>4, <2>1, <2>2, <2>3 DEF TypeOK, CodeTypes, StackTypes, LocalTypes
<1>6. SitesOk'
  <2>1. s.body = "none" /\ s.act = 0 /\ s.depth = 0 /\ s.root = TRUE
    BY DEF Site
  <2> HIDE DEF e, s
  <2>2. DOMAIN site' = {1} /\ site'[1] = s /\ Len(site') = Len(callStack') /\ Len(host') = 0
    BY <1>1, <1>2, <1>3
  <2>3. SiteOk(1)'
    BY <2>1, <2>2 DEF SiteOk, BottomSite
  <2>4. ASSUME NEW i \in DOMAIN site' PROVE SiteOk(i)' /\ i = 1
    BY <2>2, <2>3
  <2> QED
    BY <2>1, <2>2, <2>4 DEF SitesOk
<1>7. HostsOk' /\ CodeOk'
  BY <1>2, <1>3 DEF HostsOk, CodeOk
<1>8. HereOk'
  BY <1>1, <1>2, <1>3 DEF HereOk
<1> QED
  BY <1>4, <1>5, <1>6, <1>7, <1>8 DEF IInv, Discipline

\* The machine starts in the relation.
LEMMA InitInv == Init => IInv
<1> SUFFICES ASSUME Init PROVE IInv
  OBVIOUS
<1>1. /\ program = << 0 >> /\ shape = << [body |-> "exec", at |-> 0, depth |-> 0, height |-> 1] >>
      /\ immediates = <<>>
      /\ heap = << [kind |-> "bool"], [kind |-> "bool"], [kind |-> "null"] >>
      /\ frames = << Frame(0) >>
      /\ operandStack = <<>> /\ callStack = <<>> /\ site = <<>> /\ host = <<>>
      /\ ip = 1 /\ env = 1 /\ mode = "idle" /\ result = 3
      /\ session \in Sessions /\ todo = session
  BY ExitByte DEF Init, TopLevel, Null
<1>2. program \in Seq(Byte) /\ shape \in Seq(Shape)
  BY <1>1 DEF Byte, Shape, Bodies
<1>3. todo \in Seq(Chunk)
  BY <1>1, SessionsTyped
<1>4. CodeTypes
  BY <1>1, <1>2, <1>3 DEF CodeTypes
<1>5. MemoryTypes
  <2>1. heap \in Seq(Object) /\ Len(heap) = 3
    BY <1>1 DEF Object
  <2>2. \A v \in DOMAIN heap : ObjectOk(heap[v])
    BY <1>1 DEF ObjectOk
  <2>3. frames \in Seq([parent : Nat, vars : Seq(Nat)]) /\ frames # <<>>
    BY <1>1 DEF Frame
  <2>4. \A e \in DOMAIN frames : FrameOk(e)
    <3>1. DOMAIN frames = {1} /\ frames[1].parent = 0 /\ frames[1].vars = <<>>
      BY <1>1 DEF Frame
    <3>2. <<>> \in Seq(DOMAIN heap)
      OBVIOUS
    <3>3. FrameOk(1)
      BY <3>1, <3>2 DEF FrameOk
    <3> QED
      BY <3>1, <3>3
  <2> QED
    BY <2>1, <2>2, <2>3, <2>4 DEF MemoryTypes
<1>6. StackTypes
  BY <1>1 DEF StackTypes
<1>7. LocalTypes
  BY <1>1 DEF LocalTypes, Modes
<1>8. CodeOk
  <2>1. CellOk(program, shape, 1)
    <3>1. Decode(program[1]) = "Exit" /\ "Exit" \in Opcodes
      BY <1>1, ExitByte DEF Opcodes, OpcodeList, ToSet
    <3>2. Successors(program, 1, shape[1]) = {} /\ Consumes(program, 1) = 0
          /\ Width(Decode(program[1])) = 1
      <4>1. Width(Decode(program[1])) = 1
        BY <3>1 DEF Width
      <4>2. Consumes(program, 1) = 0
        BY <3>1 DEF Consumes
      <4>3. Successors(program, 1, shape[1]) = {}
        BY <3>1, SuccessorCases DEF LambdaOps
      <4> QED
        BY <4>1, <4>2, <4>3
    <3>3. Closed(program, shape, 1)
      BY <1>1, <3>1 DEF Closed
    <3> QED
      BY <1>1, <3>1, <3>2, <3>3 DEF CellOk
  <2>2. DOMAIN program = {1} /\ Len(shape) = 1 /\ Len(program) = 1 /\ Decode(program[1]) = "Exit"
    BY <1>1, ExitByte
  <2> QED
    BY <1>1, <1>2, <2>1, <2>2 DEF CodeOk, Disciplined
<1>9. FunctionsOk
  BY <1>1 DEF FunctionsOk
<1>10. SitesOk /\ HostsOk /\ HereOk
  BY <1>1 DEF SitesOk, HostsOk, HereOk
<1> QED
  BY <1>3, <1>4, <1>5, <1>6, <1>7, <1>8, <1>9, <1>10 DEF IInv, TypeOK, Discipline

\* Nothing happens.
LEMMA StutterStep == ASSUME IInv, UNCHANGED vars PROVE IInv'
<1>1. UNCHANGED << program, immediates, heap, frames, operandStack, callStack, ip, env, host, mode,
                   result, fault, session, todo, shape, site >>
  BY DEF vars, code, memory, control
<1>2. TypeOK' = TypeOK
  BY <1>1 DEF TypeOK, CodeTypes, MemoryTypes, StackTypes, LocalTypes, ObjectOk, FrameOk,
     EntryType, HostType
<1>3. CodeOk' = CodeOk /\ FunctionsOk' = FunctionsOk /\ Sound' = Sound
  BY <1>1 DEF CodeOk, FunctionsOk, Sound
<1>4. SitesOk' = SitesOk
  BY <1>1 DEF SitesOk, SiteOk, LetSite, CallSite, RootSite, BottomSite, Resumes
<1>5. HostsOk' = HostsOk
  BY <1>1 DEF HostsOk, HostOk, FromVM, FromApply, FromLoad, FromEmbedder, Resumes
<1>6. HereOk' = HereOk
  BY <1>1 DEF HereOk, Returned, Caller, Here, Resumes
<1> QED
  BY <1>2, <1>3, <1>4, <1>5, <1>6 DEF IInv, Discipline

\* Every action keeps the relation.
LEMMA InstructionStep == ASSUME IInv, Instruction PROVE IInv'
<1>1. CASE OpCons \/ OpCar \/ OpCdr \/ OpIsNull \/ OpPush \/ OpPushI \/ OpPushLambda
  BY <1>1, ConsStep, CarStep, CdrStep, IsNullStep, PushStep, PushIStep, PushLambdaStep
<1>2. CASE OpLoad \/ OpRebind \/ OpStore \/ OpDiscard \/ OpJump \/ OpJumpIfFalse \/ OpRecur
  BY <1>2, LoadStep, RebindStep, StoreStep, DiscardStep, JumpStep, JumpIfFalseStep, RecurStep
<1>3. CASE OpEnterLet \/ OpExitLet \/ OpReturn
  BY <1>3, EnterLetStep, ExitLetStep, ReturnStep
<1>4. CASE CallError \/ CallBytecode \/ CallVariadic \/ CallWrapped
  BY <1>4, CallErrorStep, CallBytecodeStep, CallVariadicStep, CallWrappedStep
<1>5. CASE ExitToExec \/ ExitToSetGlobal \/ ExitToBuiltin \/ Undefined
  BY <1>5, ExitToExecStep, ExitToSetGlobalStep, ExitToBuiltinStep, UndefinedStep
<1> QED
  BY <1>1, <1>2, <1>3, <1>4, <1>5 DEF Instruction

\* Every step of the C++ code keeps the invariant.
LEMMA NativeStep == ASSUME IInv, Accepted, Native PROVE IInv'
<1>1. CASE Construct \/ SetGlobal \/ Exec \/ ExecStatement \/ ExecReturn
  BY <1>1, ConstructStep, SetGlobalStep, ExecStep, ExecStatementStep, ExecReturnStep
<1>2. CASE BuiltinValue \/ BuiltinLoad
  BY <1>2, BuiltinValueStep, BuiltinLoadStep
<1>3. CASE BuiltinLoadFails \/ ApplyError
  BY <1>3, ThrowHalts DEF BuiltinLoadFails, ApplyError
<1>4. CASE ApplyPush \/ ApplyBytecode \/ ApplyWrapped \/ ReturnToVM \/ ReturnToBuiltin
  BY <1>4, ApplyPushStep, ApplyBytecodeStep, ApplyWrappedStep, ReturnToVMStep, ReturnToBuiltinStep
<1>5. CASE Unwind \/ Exited
  BY <1>5, UnwindStep, ExitedStep
<1> QED
  BY <1>1, <1>2, <1>3, <1>4, <1>5 DEF Native

\* Every step keeps the invariant, if what it appends to the program keeps to the
\* discipline.
LEMMA StepInv == IInv /\ Accepted /\ [Next]_vars => IInv'
BY InstructionStep, NativeStep, StutterStep DEF Next

------------------------------------------------------------------------------------
(* The session *)

\* todo is the rest of the session.
Rest ==
  /\ session \in Seq(Chunk) /\ todo \in Seq(Chunk) /\ Len(todo) <= Len(session)
  /\ \A k \in 1..Len(todo) : todo[k] = session[Len(session) - Len(todo) + k]

\* An instruction takes no statement.
LEMMA InstructionTakes == ASSUME Instruction PROVE UNCHANGED << session, todo >>
<1>1. CASE OpCons \/ OpCar \/ OpCdr \/ OpIsNull \/ OpPush \/ OpPushI \/ OpPushLambda
  BY <1>1 DEF OpCons, OpCar, OpCdr, OpIsNull, OpPush, OpPushI, OpPushLambda, Replace, Throw, Crash,
     code
<1>2. CASE OpLoad \/ OpRebind \/ OpStore \/ OpDiscard \/ OpJump \/ OpJumpIfFalse \/ OpRecur
  BY <1>2 DEF OpLoad, OpRebind, OpStore, OpDiscard, OpJump, OpJumpIfFalse, OpRecur, Replace, Crash,
     code
<1>3. CASE OpEnterLet \/ OpExitLet \/ OpReturn
  BY <1>3 DEF OpEnterLet, OpExitLet, OpReturn, Crash, code
<1>4. CASE CallError \/ CallBytecode \/ CallVariadic \/ CallWrapped
  BY <1>4 DEF CallError, CallBytecode, CallVariadic, CallWrapped, Enter, Throw, Crash, code
<1>5. CASE ExitToExec \/ ExitToSetGlobal \/ ExitToBuiltin \/ Undefined
  BY <1>5 DEF ExitToExec, ExitToSetGlobal, ExitToBuiltin, Undefined, Crash, code
<1> QED
  BY <1>1, <1>2, <1>3, <1>4, <1>5 DEF Instruction

\* The C++ code takes the next one, when that was compiled, or none.
LEMMA NativeTakes ==
  ASSUME Native
  PROVE  /\ UNCHANGED session
         /\ \/ UNCHANGED todo
            \/ todo # <<>> /\ todo' = Tail(todo)
<1>1. CASE Construct \/ Exec \/ ExecReturn
  BY <1>1 DEF Construct, Exec, ExecReturn, code
<1>2. CASE SetGlobal \/ ExecStatement
  BY <1>2 DEF SetGlobal, ExecStatement, Launch, CompileError, Throw, Crash, code
<1>3. CASE BuiltinValue \/ BuiltinLoad \/ BuiltinLoadFails
  BY <1>3 DEF BuiltinValue, BuiltinLoad, BuiltinLoadFails, Yield, Throw, Crash, code
<1>4. CASE ApplyPush \/ ApplyError \/ ApplyBytecode \/ ApplyWrapped
  BY <1>4 DEF ApplyPush, ApplyError, ApplyBytecode, ApplyWrapped, Throw, code
<1>5. CASE ReturnToVM \/ ReturnToBuiltin \/ Unwind \/ Exited
  BY <1>5 DEF ReturnToVM, ReturnToBuiltin, Unwind, Exited, Crash, code
<1> QED
  BY <1>1, <1>2, <1>3, <1>4, <1>5 DEF Native

LEMMA Takes ==
  ASSUME [Next]_vars
  PROVE  /\ UNCHANGED session
         /\ \/ UNCHANGED todo
            \/ todo # <<>> /\ todo' = Tail(todo)
<1>1. CASE UNCHANGED vars
  BY <1>1 DEF vars, code
<1> QED
  BY <1>1, InstructionTakes, NativeTakes DEF Next

\* What is taken is the next statement of the session; when all that was taken since
\* the beginning keeps to the discipline, that did before, and what is taken does.
LEMMA RestStep ==
  ASSUME Rest, [Next]_vars
  PROVE  Rest' /\ (CodeDisciplined' => CodeDisciplined /\ Accepted)
<1> HIDE DEF Chunk
<1>1. CASE UNCHANGED todo
  BY <1>1, Takes DEF Rest, CodeDisciplined, Accepted
<1>2. CASE todo # <<>> /\ todo' = Tail(todo)
  <2>1. /\ session' = session /\ session \in Seq(Chunk) /\ todo \in Seq(Chunk)
        /\ Len(session) \in Nat /\ Len(todo) \in Nat /\ Len(todo) <= Len(session)
    BY Takes DEF Rest
  <2>2. /\ todo' \in Seq(Chunk) /\ Len(todo') = Len(todo) - 1 /\ Len(todo) > 0
        /\ \A k \in 1..(Len(todo) - 1) : todo'[k] = todo[k + 1]
        /\ Head(todo) = todo[1]
    BY <1>2, <2>1, TailFacts
  <2>3. Rest'
    <3>1. ASSUME NEW k \in 1..Len(todo')
          PROVE  todo'[k] = session[Len(session) - Len(todo') + k]
      <4>1. k + 1 \in 1..Len(todo) /\ k \in 1..(Len(todo) - 1)
        BY <2>1, <2>2, <3>1
      <4>2. todo'[k] = session[Len(session) - Len(todo) + (k + 1)]
        BY <2>2, <4>1 DEF Rest
      <4>3. Len(session) - Len(todo') + k = Len(session) - Len(todo) + (k + 1)
        BY <2>1, <2>2, <3>1
      <4> QED
        BY <4>2, <4>3
    <3> QED
      BY <2>1, <2>2, <3>1 DEF Rest
  <2>4. ASSUME CodeDisciplined' PROVE CodeDisciplined /\ Accepted
    <3> DEFINE n == Len(session) - Len(todo)
    <3>1. n \in Nat /\ Len(session) - Len(todo') = n + 1
      BY <2>1, <2>2
    <3>2. \A i \in 1..n + 1 : ChunkOk(session[i])
      BY <2>1, <2>4, <3>1 DEF CodeDisciplined, ChunkOk
    <3>3. Head(todo) = session[n + 1]
      BY <2>1, <2>2 DEF Rest
    <3> HIDE DEF n
    <3>4. CodeDisciplined
      BY <3>1, <3>2 DEF CodeDisciplined, n
    <3> QED
      BY <3>1, <3>2, <3>3, <3>4 DEF Accepted
  <2> QED
    BY <2>3, <2>4
<1> QED
  BY <1>1, <1>2, Takes

\* At first nothing was taken.
LEMMA InitRest == Init => Rest
<1> SUFFICES ASSUME Init PROVE Rest
  OBVIOUS
<1>1. session \in Seq(Chunk) /\ todo = session
  BY SessionsTyped DEF Init
<1> HIDE DEF Chunk
<1> QED
  BY <1>1 DEF Rest

\* The invariant holds in every state the program reaches, until code that breaks the
\* discipline is appended to it.
LEMMA Invariant == Spec => [](CodeDisciplined => IInv)
<1>1. Init => Rest /\ (CodeDisciplined => IInv)
  BY InitRest, InitInv
<1>2. Rest /\ (CodeDisciplined => IInv) /\ [Next]_vars
        => Rest' /\ (CodeDisciplined' => IInv')
  BY RestStep, StepInv
<1> QED
  BY <1>1, <1>2, PTL DEF Spec

\* No value, environment, stack entry or local of the machine ever refers to something
\* that does not exist, whatever the session, while its code keeps to the discipline.
THEOREM TypesHold == Spec => [](CodeDisciplined => TypeOK)
<1>1. (CodeDisciplined => IInv) => (CodeDisciplined => TypeOK)
  BY DEF IInv
<1> QED
  BY <1>1, Invariant, PTL

\* Until an exception or undefined behaviour ends it, every activation, on whichever
\* stack or C++ call it waits, can go on in its code with the operands it has: the
\* operand stack, the call stack and the C++ calls agree (vm.cpp, Function::call), while
\* code keeps to the discipline.
THEOREM DisciplineHolds == Spec => [](CodeDisciplined => Discipline)
<1>1. (CodeDisciplined => IInv) => (CodeDisciplined => Discipline)
  BY DEF IInv
<1> QED
  BY <1>1, Invariant, PTL

\* The environment of the running code, and of every VM::execute that waits for a
\* builtin, is in an entry of the call stack, where the collector looks (gc.cpp), while
\* code keeps to the discipline.
THEOREM EnvironmentsAreRooted == Spec => [](CodeDisciplined => EnvironmentsRooted)
<1>1. IInv => EnvironmentsRooted
  <2> SUFFICES ASSUME IInv, Sound PROVE EnvironmentsRooted
    BY DEF EnvironmentsRooted
  <2>1. TypeOK /\ HereOk /\ HostsOk
    BY DEF IInv, Discipline
  <2>2. mode = "run" => callStack # <<>> /\ env = Last(callStack).env
    BY <2>1 DEF HereOk, Last
  <2>3. ASSUME NEW j \in DOMAIN host, host[j].ip # NoAddress
        PROVE  host[j].level \in DOMAIN callStack /\ host[j].env = callStack[host[j].level].env
    <3>1. HostOk(j) /\ host[j] \in HostType
      BY <2>1 DEF HostsOk, TypeOK, StackTypes
    <3>2. FromVM(j) /\ host[j].level > 0 /\ host[j].level <= Len(callStack)
      BY <2>3, <3>1 DEF HostOk
    <3>3. host[j].level \in Nat
      BY <3>1 DEF HostType
    <3> QED
      BY <2>1, <3>2, <3>3 DEF FromVM, TypeOK, StackTypes
  <2> QED
    BY <2>2, <2>3 DEF EnvironmentsRooted
<1>2. (CodeDisciplined => IInv) => (CodeDisciplined => EnvironmentsRooted)
  BY <1>1
<1> QED
  BY <1>2, Invariant, PTL

------------------------------------------------------------------------------------
(* The stacks *)

\* An ExitLet finds an entry on the call stack and an environment to go back to.
LEMMA ExitLetSafe == ASSUME IInv, OpExitLet PROVE UNCHANGED fault
<1>1. /\ mode = "run" /\ OpAt = "ExitLet" /\ OpAt = Decode(program[ip])
      /\ TypeOK /\ SitesOk /\ callStack # <<>>
      /\ Len(site) = Len(callStack) /\ Len(site) \in DOMAIN site
      /\ env = callStack[Len(callStack)].env
      /\ Here \in SiteType /\ Here.body # "none"
      /\ Resumes(Len(site), ip, Len(operandStack))
      /\ CellOk(program, shape, ip)
  BY AtInstruction DEF OpExitLet, At, IInv
<1>2. Here.depth > 0
  BY <1>1 DEF CellOk, Closed, Resumes, Here
<1> DEFINE i == Len(site)
<1>3. LetSite(i)
  <2>1. SiteOk(i)
    BY <1>1 DEF SitesOk
  <2> QED
    BY <1>1, <1>2, <2>1 DEF SiteOk, Here, SiteType
<1>4. frames[env].parent # 0
  <2>1. frames[env].parent = callStack[i - 1].env /\ i - 1 \in DOMAIN callStack
    BY <1>1, <1>3 DEF LetSite, TypeOK, StackTypes
  <2>2. callStack[i - 1].env \in DOMAIN frames
    <3>1. callStack[i - 1] \in EntryType
      BY <1>1, <2>1 DEF TypeOK, StackTypes
    <3> QED
      BY <3>1 DEF EntryType
  <2> QED
    BY <1>1, <2>1, <2>2 DEF TypeOK, MemoryTypes
<1> QED
  BY <1>1, <1>4 DEF OpExitLet, control

\* A Return finds the entry of the caller below its own.
LEMMA ReturnSafe == ASSUME IInv, OpReturn PROVE UNCHANGED fault
<1>1. /\ mode = "run" /\ OpAt = "Return" /\ OpAt = Decode(program[ip])
      /\ TypeOK /\ SitesOk /\ callStack # <<>>
      /\ Len(site) = Len(callStack) /\ Len(site) \in DOMAIN site
      /\ Here \in SiteType /\ Here.body # "none"
      /\ Resumes(Len(site), ip, Len(operandStack))
      /\ CellOk(program, shape, ip)
  BY AtInstruction DEF OpReturn, At, IInv
<1>2. Here.body = "fn" /\ Here.depth = 0
  BY <1>1 DEF CellOk, Closed, Resumes, Here
<1>3. SiteOk(Len(site))
  BY <1>1 DEF SitesOk
<1>4. Len(callStack) > 1 /\ Len(callStack) \in Nat
  BY <1>1, <1>2, <1>3
  DEF SiteOk, CallSite, RootSite, BottomSite, Here, SiteType, TypeOK, StackTypes
<1> QED
  BY <1>4 DEF OpReturn, control

\* What an Exit needs is there.
LEMMA ExitSafe ==
  ASSUME IInv, ExitToExec \/ ExitToSetGlobal \/ ExitToBuiltin
  PROVE  UNCHANGED fault
<1>1. mode = "run" /\ OpAt = "Exit"
  BY DEF ExitToExec, ExitToSetGlobal, ExitToBuiltin, At
<1>2. callStack # <<>>
  BY <1>1, AtExit
<1> QED
  BY <1>2 DEF ExitToExec, ExitToSetGlobal, ExitToBuiltin

\* No byte that is reached is anything but an instruction with its operands.
LEMMA NothingUndefined == ASSUME IInv, Undefined PROVE FALSE
<1>1. mode = "run"
  BY DEF Undefined
<1>2. CASE OpAt # "Exit"
  <2>1. /\ OpAt \in Opcodes /\ Consumes(program, ip) \in Nat /\ Here \in SiteType
        /\ Len(operandStack) - Consumes(program, ip) >= Here.base
    BY <1>1, <1>2, AtInstruction
  <2>2. OpAt # "undefined"
    BY <2>1, NoOpcode
  <2>3. Len(operandStack) >= Consumes(program, ip) /\ Len(operandStack) \in Nat
    BY <2>1 DEF SiteType, IInv, TypeOK, StackTypes
  <2> QED
    BY <1>2, <2>1, <2>2, <2>3 DEF Undefined
<1>3. CASE OpAt = "Exit"
  <2>1. /\ TypeOK /\ Len(operandStack) \in Nat
        /\ Caller \in HostType /\ Caller.kind \in {"apply", "exec", "setGlobal"}
        /\ Caller.kind = "apply" => Returned
        /\ Caller.kind = "exec" => Len(operandStack) = Caller.start + 1
    BY <1>1, <1>3, AtExit
  <2>2. Consumes(program, ip) = 0
    <3>1. Decode(program[ip]) = "Exit"
      BY <1>3 DEF OpAt
    <3> QED
      BY <3>1 DEF Consumes
  <2>3. Caller.kind # "setGlobal" => operandStack # <<>>
    <3>1. Caller.start \in Nat /\ Caller.argc \in Nat
      BY <2>1 DEF HostType
    <3>2. Caller.kind # "setGlobal" => Len(operandStack) > 0
      BY <2>1, <3>1 DEF Returned
    <3> QED
      BY <3>2
  <2> QED
    BY <1>3, <2>1, <2>2, <2>3 DEF Undefined
<1> QED
  BY <1>2, <1>3

\* The faults that remain: those of variables, of the compiler, of arithmetic
\* and of an exception.
LEMMA FaultStep == ASSUME IInv, StacksHold, [Next]_vars PROVE StacksHold'
<1> DEFINE Fine == \/ UNCHANGED fault
                   \/ fault' \in {"variable", "immediate", "compiler", "unwind", "arithmetic"}
<1>1. SUFFICES Fine
  BY DEF StacksHold
<1>2. CASE OpCons \/ OpCar \/ OpCdr \/ OpIsNull \/ OpPush \/ OpPushI \/ OpPushLambda
  BY <1>2 DEF OpCons, OpCar, OpCdr, OpIsNull, OpPush, OpPushI, OpPushLambda, Replace, Throw, Crash,
     control
<1>3. CASE OpLoad \/ OpRebind \/ OpStore \/ OpDiscard \/ OpJump \/ OpJumpIfFalse \/ OpEnterLet
  BY <1>3 DEF OpLoad, OpRebind, OpStore, OpDiscard, OpJump, OpJumpIfFalse, OpEnterLet, Replace, Crash,
     control
<1>4. CASE OpRecur
  <2>1. callStack # <<>>
    BY <1>4, AtInstruction DEF OpRecur, At
  <2> QED
    BY <1>4, <2>1 DEF OpRecur, control
<1>5. CASE OpExitLet \/ OpReturn \/ ExitToExec \/ ExitToSetGlobal \/ ExitToBuiltin \/ Undefined
  BY <1>5, ExitLetSafe, ReturnSafe, ExitSafe, NothingUndefined
<1>6. CASE CallError \/ CallBytecode \/ CallVariadic \/ CallWrapped
  BY <1>6 DEF CallError, CallBytecode, CallVariadic, CallWrapped, Enter, Throw, Crash, control
<1>7. CASE Construct \/ SetGlobal \/ Exec \/ ExecStatement \/ ExecReturn
  BY <1>7 DEF Construct, SetGlobal, Exec, ExecStatement, ExecReturn, Launch, CompileError, Throw, Crash,
     control
<1>8. CASE BuiltinValue \/ BuiltinLoad \/ BuiltinLoadFails
  BY <1>8 DEF BuiltinValue, BuiltinLoad, BuiltinLoadFails, Yield, Throw, Crash
<1>9. CASE ApplyPush \/ ApplyError \/ ApplyBytecode \/ ApplyWrapped
  BY <1>9 DEF ApplyPush, ApplyError, ApplyBytecode, ApplyWrapped, Throw
<1>10. CASE ReturnToVM \/ ReturnToBuiltin \/ Unwind \/ Exited
  BY <1>10 DEF ReturnToVM, ReturnToBuiltin, Unwind, Exited, Crash
<1>11. CASE UNCHANGED vars
  BY <1>11 DEF vars, control
<1> QED
  BY <1>2, <1>3, <1>4, <1>5, <1>6, <1>7, <1>8, <1>9, <1>10, <1>11 DEF Next, Instruction, Native

\* VM::execute, which checks neither, never pops an empty operand stack or call stack
\* and never meets a byte that is no opcode, unless code was appended to the program that
\* breaks the discipline: for any other session a test of heights would be superfluous.
THEOREM FaultsAreForetold == Spec => []FaultsForetold
<1> DEFINE Until == /\ Rest
                    /\ CodeDisciplined => IInv /\ StacksHold
<1>1. Init => Until
  BY InitRest, InitInv DEF Init, StacksHold
<1>2. Until /\ [Next]_vars => Until'
  BY RestStep, StepInv, FaultStep
<1>3. Until => FaultsForetold
  BY DEF FaultsForetold
<1> QED
  BY <1>1, <1>2, <1>3, PTL DEF Spec

\* So of a session whose code keeps to the discipline.
\* Code: Environment::exec, VM::execute.
THEOREM StacksNeverFail == Spec => [](CodeDisciplined => StacksHold)
<1>1. FaultsForetold => (CodeDisciplined => StacksHold)
  BY DEF FaultsForetold
<1> QED
  BY <1>1, FaultsAreForetold, PTL
====================================================================================
