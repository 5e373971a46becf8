--------------------------------- MODULE CallerProofs ---------------------------------
(***************************************************************************************)
(* What runs on behalf of a C++ call, whatever it is, leaves alone what the call and   *)
(* its callers have on the two stacks.                                                 *)
(***************************************************************************************)
EXTENDS VMProofs

---------------------------------------------------------------------------------------
(* The invariant: the parts of the operand stack that belong to C++ calls and to       *)
(* activations of bytecode lie one above the other, in the order of the calls.         *)

\* What call j has on the operand stack ends here: its arguments.
Bottom(j) == host[j].start + host[j].argc

HostsNested == \A j, k \in DOMAIN host : j < k => Bottom(j) <= host[k].start

SitesNested ==
  \A i \in DOMAIN site : site[i].act \in DOMAIN host => Bottom(site[i].act) <= site[i].base

Nested == Sound => HostsNested /\ SitesNested

NInv == IInv /\ Nested

SameCall(h, g) == h.start = g.start /\ h.argc = g.argc /\ h.level = g.level

\* The lowest n operands stay.
Kept(n) == \A k \in 1..n : k \in DOMAIN operandStack' /\ operandStack'[k] = operandStack[k]

\* Calls end, or a new one begins above what all others have on the stack.
CallsMove ==
  \/ \A j \in DOMAIN host' : j \in DOMAIN host /\ SameCall(host'[j], host[j])
  \/ \E h : host' = Append(host, h) /\ \A j \in DOMAIN host : Bottom(j) <= h.start

\* An entry leaves the call stack, or a new one is above the arguments of its call.
EntriesMove ==
  \/ UNCHANGED site
  \/ site # <<>> /\ site' = Front(site)
  \/ \E s : /\ site' = Append(site, s)
            /\ s.act \in DOMAIN host' => host'[s.act].start + host'[s.act].argc <= s.base

ArgumentsKept == \A j \in DOMAIN host \intersect DOMAIN host' : Kept(Bottom(j))

Calm ==
  /\ HostsNested' /\ SitesNested'
  /\ \A j \in DOMAIN host \intersect DOMAIN host' : SameCall(host'[j], host[j])
  /\ ArgumentsKept

\* n operands are taken off, and possibly one is put in their place.
Lower(n) ==
  \/ operandStack' = Dropped(n)
  \/ \E v : operandStack' = Append(Dropped(n), v)

\* Operands taken off the top leave those below.
LEMMA LowerKept ==
  ASSUME TypeOK, NEW n \in Nat, n <= Len(operandStack), Lower(n),
         NEW m \in Int, m <= Len(operandStack) - n
  PROVE  Kept(m)
<1>1. operandStack \in Seq(DOMAIN heap) /\ Len(operandStack) - n \in 0..Len(operandStack)
  BY DEF TypeOK, StackTypes
<1> DEFINE d == Dropped(n)
<1>2. /\ d \in Seq(DOMAIN heap) /\ Len(d) = Len(operandStack) - n
      /\ \A i \in 1..(Len(operandStack) - n) : d[i] = operandStack[i]
  BY <1>1, PrefixFacts DEF Dropped
<1> HIDE DEF d
<1>3. CASE operandStack' = d
  BY <1>1, <1>2, <1>3 DEF Kept
<1>4. ASSUME NEW v, operandStack' = Append(d, v) PROVE Kept(m)
  BY <1>1, <1>2, <1>4 DEF Kept
<1> QED
  BY <1>3, <1>4 DEF Lower, d

\* The elements of a sequence that grows at its end ...
LEMMA AppendElements ==
  ASSUME NEW S, NEW s \in Seq(S), NEW x, NEW i \in DOMAIN Append(s, x)
  PROVE  \/ i \in DOMAIN s /\ Append(s, x)[i] = s[i]
         \/ i = Len(s) + 1 /\ Append(s, x)[i] = x
<1>1. Len(s) \in Nat /\ i \in 1..(Len(s) + 1)
  OBVIOUS
<1>2. CASE i \in 1..Len(s)
  BY <1>2
<1>3. CASE i = Len(s) + 1
  BY <1>3
<1> QED
  BY <1>1, <1>2, <1>3

\* ... or shrinks.
LEMMA FrontElements ==
  ASSUME NEW S, NEW s \in Seq(S), s # <<>>
  PROVE  \A i \in DOMAIN Front(s) : i \in DOMAIN s /\ i < Len(s) /\ Front(s)[i] = s[i]
<1>1. /\ Front(s) \in Seq(S) /\ Len(Front(s)) = Len(s) - 1
      /\ \A i \in 1..(Len(s) - 1) : Front(s)[i] = s[i]
  BY FrontFacts
<1> QED
  BY <1>1

\* What is known of calls and entries.
LEMMA CallNumbers ==
  ASSUME IInv
  PROVE  /\ host \in Seq(HostType) /\ site \in Seq(SiteType) /\ operandStack \in Seq(DOMAIN heap)
         /\ callStack \in Seq(EntryType) /\ TypeOK
         /\ Len(host) \in Nat /\ Len(site) \in Nat /\ Len(operandStack) \in Nat
         /\ DOMAIN host = 1..Len(host) /\ DOMAIN site = 1..Len(site)
         /\ \A j \in DOMAIN host : /\ host[j].start \in Nat /\ host[j].argc \in Nat
                                   /\ host[j].level \in Nat /\ Bottom(j) \in Nat
         /\ \A i \in DOMAIN site : site[i].act \in Nat /\ site[i].base \in Nat
<1>1. TypeOK /\ StackTypes
  BY DEF IInv, TypeOK
<1>2. ASSUME NEW j \in DOMAIN host
      PROVE host[j].start \in Nat /\ host[j].argc \in Nat /\ host[j].level \in Nat
  <2>1. host[j] \in HostType
    BY <1>1 DEF StackTypes
  <2> QED
    BY <2>1 DEF HostType
<1>3. ASSUME NEW i \in DOMAIN site PROVE site[i].act \in Nat /\ site[i].base \in Nat
  <2>1. site[i] \in SiteType
    BY <1>1 DEF StackTypes
  <2> QED
    BY <2>1 DEF SiteType
<1> QED
  BY <1>1, <1>2, <1>3 DEF StackTypes, Bottom

\* Steps that move calls and entries in these ways keep them one above the other.
LEMMA CalmStep ==
  ASSUME NInv, Sound, IInv', CallsMove, EntriesMove, ArgumentsKept
  PROVE  Calm
<1>1. IInv /\ HostsNested /\ SitesNested /\ SitesOk
  BY DEF NInv, Nested, IInv, Discipline
<1>2. /\ Len(host) \in Nat /\ DOMAIN host = 1..Len(host)
      /\ \A j \in DOMAIN host : /\ host[j].start \in Nat /\ host[j].argc \in Nat
                                /\ host[j].level \in Nat /\ Bottom(j) \in Nat
      /\ \A i \in DOMAIN site : site[i].act \in Nat /\ site[i].base \in Nat
  BY <1>1, CallNumbers
<1>3. /\ Len(host') \in Nat /\ DOMAIN host' = 1..Len(host')
  <2>1. host' \in Seq(HostType')
    BY DEF IInv, TypeOK, StackTypes
  <2> QED
    BY <2>1
<1>4. \A j \in DOMAIN host' :
        \/ j \in DOMAIN host /\ SameCall(host'[j], host[j])
        \/ j = Len(host) + 1 /\ \A i \in DOMAIN host : Bottom(i) <= host'[j].start
  <2>1. ASSUME NEW h, host' = Append(host, h), \A j \in DOMAIN host : Bottom(j) <= h.start,
               NEW j \in DOMAIN host'
        PROVE  \/ j \in DOMAIN host /\ SameCall(host'[j], host[j])
               \/ j = Len(host) + 1 /\ \A i \in DOMAIN host : Bottom(i) <= host'[j].start
    <3>1. \/ j \in DOMAIN host /\ host'[j] = host[j]
          \/ j = Len(host) + 1 /\ host'[j] = h
      BY <1>1, <2>1, CallNumbers, AppendElements
    <3> QED
      BY <2>1, <3>1 DEF SameCall
  <2> QED
    BY <2>1 DEF CallsMove
<1>5. ASSUME NEW i \in DOMAIN site'
      PROVE  \/ i \in DOMAIN site /\ site'[i] = site[i]
             \/ site'[i].act \in DOMAIN host' =>
                  host'[site'[i].act].start + host'[site'[i].act].argc <= site'[i].base
  <2>1. CASE UNCHANGED site
    BY <2>1
  <2>2. CASE site # <<>> /\ site' = Front(site)
    BY <1>1, <2>2, CallNumbers, FrontElements
  <2>3. ASSUME NEW s, site' = Append(site, s),
               s.act \in DOMAIN host' => host'[s.act].start + host'[s.act].argc <= s.base
        PROVE  \/ i \in DOMAIN site /\ site'[i] = site[i]
               \/ site'[i].act \in DOMAIN host' =>
                    host'[site'[i].act].start + host'[site'[i].act].argc <= site'[i].base
    <3>1. (i \in DOMAIN site /\ site'[i] = site[i]) \/ site'[i] = s
      BY <1>1, <2>3, CallNumbers, AppendElements
    <3> QED
      BY <2>3, <3>1
  <2> QED
    BY <2>1, <2>2, <2>3 DEF EntriesMove
<1>6. \A j \in DOMAIN host \intersect DOMAIN host' : SameCall(host'[j], host[j])
  BY <1>2, <1>4
<1>7. HostsNested'
  <2> SUFFICES ASSUME NEW j \in DOMAIN host', NEW k \in DOMAIN host', j < k
               PROVE  host'[j].start + host'[j].argc <= host'[k].start
    BY DEF HostsNested, Bottom
  <2>1. j \in DOMAIN host
    BY <1>2, <1>3, <1>4
  <2>2. host'[j].start + host'[j].argc = Bottom(j)
    BY <1>6, <2>1 DEF SameCall, Bottom
  <2>3. CASE k \in DOMAIN host
    BY <1>1, <1>6, <2>1, <2>2, <2>3 DEF SameCall, HostsNested
  <2>4. CASE k \notin DOMAIN host
    BY <1>4, <2>1, <2>2, <2>4
  <2> QED
    BY <2>3, <2>4
<1>8. SitesNested'
  <2> SUFFICES ASSUME NEW i \in DOMAIN site', site'[i].act \in DOMAIN host'
               PROVE  host'[site'[i].act].start + host'[site'[i].act].argc <= site'[i].base
    BY DEF SitesNested, Bottom
  <2>1. CASE i \in DOMAIN site /\ site'[i] = site[i]
    <3>1. site[i].act \in DOMAIN host
      BY <1>1, <1>2, <1>3, <2>1 DEF SitesOk
    <3>2. SameCall(host'[site[i].act], host[site[i].act])
      BY <1>6, <2>1, <3>1
    <3>3. Bottom(site[i].act) <= site[i].base
      BY <1>1, <2>1, <3>1 DEF SitesNested
    <3> QED
      BY <2>1, <3>2, <3>3 DEF SameCall, Bottom
  <2> QED
    BY <1>5, <2>1
<1> QED
  BY <1>6, <1>7, <1>8 DEF Calm

\* Where the operands of the C++ calls end while bytecode runs ...
LEMMA RunFloor ==
  ASSUME NInv, mode = "run", OpAt # "Exit"
  PROVE  /\ Here.act = Len(host) /\ Len(host) \in DOMAIN host /\ Here.base \in Nat
         /\ \A j \in DOMAIN host : /\ Bottom(j) <= Here.base
                                   /\ Bottom(j) <= Len(operandStack) - Consumes(program, ip)
                                   /\ Bottom(j) <= Len(operandStack)
<1>1. IInv /\ HostsNested /\ SitesNested
  BY DEF NInv, Nested, Sound
<1>2. /\ host # <<>> /\ Len(site) \in DOMAIN site /\ Here \in SiteType /\ Here.act = Len(host)
      /\ Consumes(program, ip) \in Nat /\ Len(operandStack) - Consumes(program, ip) >= Here.base
  BY <1>1, AtInstruction
<1>3. /\ Len(host) \in Nat /\ DOMAIN host = 1..Len(host) /\ Len(operandStack) \in Nat
      /\ host \in Seq(HostType)
      /\ \A j \in DOMAIN host : /\ host[j].start \in Nat /\ host[j].argc \in Nat
                                /\ Bottom(j) \in Nat
  BY <1>1, CallNumbers
<1>4. Len(host) \in DOMAIN host /\ Here.base \in Nat
  BY <1>2, <1>3 DEF SiteType
<1>5. Bottom(Len(host)) <= Here.base
  BY <1>1, <1>2, <1>4 DEF SitesNested, Here
<1>6. ASSUME NEW j \in DOMAIN host PROVE Bottom(j) <= Here.base
  <2>1. CASE j = Len(host)
    BY <1>5, <2>1
  <2>2. CASE j < Len(host)
    <3>1. Bottom(j) <= host[Len(host)].start
      BY <1>1, <1>4, <2>2 DEF HostsNested
    <3>2. host[Len(host)].start <= Bottom(Len(host))
      BY <1>3, <1>4 DEF Bottom
    <3> QED
      BY <1>3, <1>4, <1>5, <3>1, <3>2
  <2> QED
    BY <1>3, <2>1, <2>2
<1>7. ASSUME NEW j \in DOMAIN host
      PROVE /\ Bottom(j) <= Len(operandStack) - Consumes(program, ip)
            /\ Bottom(j) <= Len(operandStack)
  <2>1. Bottom(j) \in Nat /\ Bottom(j) <= Here.base
    BY <1>3, <1>6
  <2> HIDE DEF Bottom
  <2> QED
    BY <1>2, <1>3, <1>4, <2>1
<1> QED
  BY <1>2, <1>4, <1>6, <1>7

\* ... and while a C++ function does.
LEMMA NativeFloor ==
  ASSUME NInv, mode \in {"exec", "builtin", "return"}
  PROVE  /\ \A j \in DOMAIN host : Bottom(j) <= Caller.start + Caller.argc
         /\ \A j \in DOMAIN host : Bottom(j) <= Len(operandStack)
         /\ \A j \in DOMAIN host : j < Len(host) => Bottom(j) <= Caller.start
<1>1. IInv /\ HostsNested
  BY DEF NInv, Nested, Sound
<1>2. /\ Len(host) \in DOMAIN host /\ Caller.start \in Nat /\ Caller.argc \in Nat
      /\ Caller.params \in Nat /\ Len(operandStack) = Caller.start + Caller.argc + Caller.params
  BY <1>1, InNative
<1>3. Len(host) \in Nat /\ DOMAIN host = 1..Len(host) /\ \A j \in DOMAIN host : Bottom(j) \in Nat
  BY <1>1, CallNumbers
<1>4. ASSUME NEW j \in DOMAIN host, j < Len(host) PROVE Bottom(j) <= Caller.start
  BY <1>1, <1>2, <1>4 DEF HostsNested, Caller
<1>5. Bottom(Len(host)) = Caller.start + Caller.argc
  BY DEF Bottom, Caller
<1>6. ASSUME NEW j \in DOMAIN host PROVE Bottom(j) <= Caller.start + Caller.argc
  <2>1. CASE j = Len(host)
    BY <1>2, <1>5, <2>1
  <2>2. CASE j < Len(host)
    BY <1>2, <1>3, <1>4, <2>2
  <2> QED
    BY <1>3, <2>1, <2>2
<1> QED
  BY <1>2, <1>3, <1>4, <1>6

---------------------------------------------------------------------------------------
(* The ways in which operands and calls move *)

\* Nothing is taken off the operand stack.
LEMMA SameArguments ==
  ASSUME IInv, \A j \in DOMAIN host : Bottom(j) <= Len(operandStack),
         UNCHANGED operandStack \/ \E v : operandStack' = Append(operandStack, v)
  PROVE  ArgumentsKept
<1> SUFFICES ASSUME NEW j \in DOMAIN host PROVE Kept(Bottom(j))
  BY DEF ArgumentsKept
<1>1. /\ operandStack \in Seq(DOMAIN heap) /\ Len(operandStack) \in Nat
      /\ Bottom(j) \in Nat /\ Bottom(j) <= Len(operandStack)
  BY CallNumbers
<1> HIDE DEF Bottom
<1>2. CASE UNCHANGED operandStack
  BY <1>1, <1>2 DEF Kept
<1>3. ASSUME NEW v, operandStack' = Append(operandStack, v) PROVE Kept(Bottom(j))
  BY <1>1, <1>3 DEF Kept
<1> QED
  BY <1>2, <1>3

\* n operands are, from above the arguments of the calls that go on.
LEMMA LowArguments ==
  ASSUME IInv, NEW n \in Nat, n <= Len(operandStack), Lower(n),
         \A j \in DOMAIN host \intersect DOMAIN host' : Bottom(j) <= Len(operandStack) - n
  PROVE  ArgumentsKept
<1> SUFFICES ASSUME NEW j \in DOMAIN host \intersect DOMAIN host' PROVE Kept(Bottom(j))
  BY DEF ArgumentsKept
<1>1. TypeOK /\ Bottom(j) \in Int /\ Bottom(j) <= Len(operandStack) - n
  BY CallNumbers
<1> QED
  BY <1>1, LowerKept

\* The innermost call ends.
LEMMA CallEnds ==
  ASSUME IInv, host # <<>>, host' = Front(host)
  PROVE  CallsMove /\ \A j \in DOMAIN host' : j \in DOMAIN host /\ j < Len(host)
<1>1. \A j \in DOMAIN host' : j \in DOMAIN host /\ j < Len(host) /\ host'[j] = host[j]
  BY CallNumbers, FrontElements
<1> QED
  BY <1>1 DEF CallsMove, SameCall

\* No call begins or ends.
LEMMA CallsStay == ASSUME UNCHANGED host PROVE CallsMove
BY DEF CallsMove, SameCall

\* As many calls as before.
LEMMA SameLength ==
  ASSUME IInv, IInv', DOMAIN host' = DOMAIN host
  PROVE  Len(host') = Len(host)
<1>1. host' \in Seq(HostType')
  BY DEF IInv, TypeOK, StackTypes
<1>2. /\ Len(host') \in Nat /\ DOMAIN host' = 1..Len(host')
      /\ Len(host) \in Nat /\ DOMAIN host = 1..Len(host)
  BY <1>1, CallNumbers
<1>3. \A x, y \in Nat : 1..x = 1..y => x = y
  <2> SUFFICES ASSUME NEW x \in Nat, NEW y \in Nat, 1..x = 1..y PROVE x <= y /\ y <= x
    OBVIOUS
  <2>1. x > 0 => x \in 1..x
    OBVIOUS
  <2>2. y > 0 => y \in 1..y
    OBVIOUS
  <2>3. x > 0 => x \in 1..y
    BY <2>1
  <2>4. y > 0 => y \in 1..x
    BY <2>2
  <2> QED
    BY <2>3, <2>4
<1> QED
  BY <1>2, <1>3

\* Every call has its fields.
LEMMA CallTyped == ASSUME IInv, NEW j \in DOMAIN host PROVE host[j] \in HostType
BY DEF IInv, TypeOK, StackTypes

\* A field of the innermost call changes that says nothing of its place.
LEMMA Updated ==
  ASSUME IInv, IInv', Len(host) \in DOMAIN host,
         \/ \E x : host' = [host EXCEPT ![Len(host)].params = x]
         \/ \E x : host' = [host EXCEPT ![Len(host)].done = x]
         \/ \E x, y : host' = [host EXCEPT ![Len(host)].params = x, ![Len(host)].cursor = y]
  PROVE  /\ CallsMove /\ Len(host') = Len(host)
         /\ \A j \in DOMAIN host' : j \in DOMAIN host /\ SameCall(host'[j], host[j])
<1> DEFINE m == Len(host)
           P == \E h : host' = [host EXCEPT ![m] = h] /\ SameCall(h, host[m])
           fields == {"start", "argc", "level", "done", "params", "cursor"}
<1>1. host \in Seq(HostType) /\ m \in DOMAIN host
  BY CallNumbers
<1>2. fields \subseteq DOMAIN host[m]
  <2> HIDE DEF m
  <2>1. host[m] \in HostType
    BY <1>1, CallTyped
  <2>2. DOMAIN host[m] = {"kind", "done", "start", "argc", "owned", "params", "cursor", "ip",
                          "env", "level"}
    BY <2>1 DEF HostType
  <2> QED
    BY <2>2
<1>3. \A f, x, y : fields \subseteq DOMAIN f /\ SameCall(f, host[m]) /\ x \in {"params", "done", "cursor"}
                   => LET g == [f EXCEPT ![x] = y]
                      IN  fields \subseteq DOMAIN g /\ SameCall(g, host[m])
  BY DEF SameCall
<1>4. P
  <2> HIDE DEF fields, m
  <2>1. SameCall(host[m], host[m])
    BY DEF SameCall
  <2>2. ASSUME NEW x, host' = [host EXCEPT ![m].params = x] PROVE P
    <3>1. SameCall([host[m] EXCEPT !.params = x], host[m])
      BY <1>2, <1>3, <2>1
    <3> QED
      BY <2>2, <3>1
  <2>3. ASSUME NEW x, host' = [host EXCEPT ![m].done = x] PROVE P
    <3>1. SameCall([host[m] EXCEPT !.done = x], host[m])
      BY <1>2, <1>3, <2>1
    <3> QED
      BY <2>3, <3>1
  <2>4. ASSUME NEW x, NEW y, host' = [host EXCEPT ![m].params = x, ![m].cursor = y] PROVE P
    <3> DEFINE g == [host[m] EXCEPT !.params = x]
               e == [host EXCEPT ![m] = g]
    <3>1. fields \subseteq DOMAIN g /\ SameCall(g, host[m])
      BY <1>2, <1>3, <2>1
    <3>2. e[m] = g /\ host' = [e EXCEPT ![m].cursor = y]
      BY <1>1, <2>4
    <3> HIDE DEF g
    <3>3. host' = [host EXCEPT ![m] = [g EXCEPT !.cursor = y]]
      BY <1>1, <3>2
    <3>4. SameCall([g EXCEPT !.cursor = y], host[m])
      BY <1>3, <3>1
    <3> QED
      BY <3>3, <3>4
  <2> QED
    BY <2>2, <2>3, <2>4 DEF m
<1>5. /\ DOMAIN host' = DOMAIN host
      /\ \A j \in DOMAIN host : SameCall(host'[j], host[j])
  <2>1. PICK h : host' = [host EXCEPT ![m] = h] /\ SameCall(h, host[m])
    BY <1>4
  <2> QED
    BY <1>1, <2>1 DEF SameCall
<1>6. Len(host') = Len(host)
  BY <1>5, SameLength
<1> QED
  BY <1>5, <1>6 DEF CallsMove

\* No call lasts.
LEMMA NoCallCalm == ASSUME DOMAIN host' = {} PROVE Calm
BY DEF Calm, HostsNested, SitesNested, ArgumentsKept

---------------------------------------------------------------------------------------
(* Instructions *)

\* An instruction that changes neither the calls nor the entries.
LEMMA PlainCalm ==
  ASSUME NInv, mode = "run", OpAt # "Exit", IInv', UNCHANGED << host, site >>,
         UNCHANGED operandStack \/ Lower(Consumes(program, ip))
  PROVE  Calm
<1> DEFINE n == Consumes(program, ip)
<1>1. /\ IInv /\ Sound /\ n \in Nat /\ n <= Len(operandStack)
      /\ \A j \in DOMAIN host : Bottom(j) <= Len(operandStack) - n /\ Bottom(j) <= Len(operandStack)
  <2>1. /\ IInv /\ Sound /\ n \in Nat /\ Len(operandStack) - n >= Here.base
        /\ Here.base \in Nat /\ Len(operandStack) \in Nat
    BY RunFloor, AtInstruction, CallNumbers DEF NInv, Sound
  <2> HIDE DEF n
  <2>2. n <= Len(operandStack)
    BY <2>1
  <2> QED
    BY <2>1, <2>2, RunFloor DEF n
<1>2. ArgumentsKept
  <2> HIDE DEF n
  <2>1. CASE UNCHANGED operandStack
    BY <1>1, <2>1, SameArguments
  <2>2. CASE Lower(n)
    BY <1>1, <2>2, LowArguments
  <2> QED
    BY <2>1, <2>2 DEF n
<1> QED
  BY <1>1, <1>2, CalmStep, CallsStay DEF EntriesMove

\* Those that compute, load, store and jump take off as many operands as the
\* discipline says.
LEMMA ComputeCalm ==
  ASSUME NInv, IInv', Sound',
         OpCons \/ OpCar \/ OpCdr \/ OpIsNull \/ OpPush \/ OpPushI \/ OpPushLambda
  PROVE  Calm
<1> DEFINE n == Consumes(program, ip)
<1>1. mode = "run" /\ OpAt # "Exit" /\ OpAt = Decode(program[ip])
  <2>1. mode = "run" /\ OpAt # "Exit"
    BY DEF OpCons, OpCar, OpCdr, OpIsNull, OpPush, OpPushI, OpPushLambda, At, LambdaOps
  <2> QED
    BY <2>1, AtInstruction DEF NInv
<1>2. ASSUME NEW k, NEW v, Replace(k, v), k = n PROVE UNCHANGED << host, site >> /\ Lower(n)
  <2> HIDE DEF n
  <2> QED
    BY <1>2 DEF Replace, control, Lower
<1>3. ~Throw /\ \A why : ~Crash(why)
  BY DEF Throw, Crash, Sound
<1>4. CASE OpCons
  <2>1. n = 2
    BY <1>1, <1>4 DEF OpCons, At, Consumes
  <2>2. Replace(2, Allocated)
    BY <1>4 DEF OpCons
  <2> QED
    BY <1>1, <1>2, <2>1, <2>2, PlainCalm
<1>5. CASE OpCar
  <2>1. n = 1
    BY <1>1, <1>5 DEF OpCar, At, Consumes
  <2>2. Replace(1, heap[Operand(0)].car)
    BY <1>3, <1>5 DEF OpCar
  <2> QED
    BY <1>1, <1>2, <2>1, <2>2, PlainCalm
<1>6. CASE OpCdr
  <2>1. n = 1
    BY <1>1, <1>6 DEF OpCdr, At, Consumes
  <2>2. Replace(1, heap[Operand(0)].cdr)
    BY <1>3, <1>6 DEF OpCdr
  <2> QED
    BY <1>1, <1>2, <2>1, <2>2, PlainCalm
<1>7. CASE OpIsNull
  <2>1. n = 1
    BY <1>1, <1>7 DEF OpIsNull, At, Consumes
  <2>2. \E v : Replace(1, v)
    BY <1>7 DEF OpIsNull
  <2> QED
    BY <1>1, <1>2, <2>1, <2>2, PlainCalm
<1>8. CASE OpPush
  <2>1. n = 0
    BY <1>1, <1>8 DEF OpPush, At, Consumes
  <2>2. \E v : Replace(0, v)
    BY <1>8 DEF OpPush
  <2> QED
    BY <1>1, <1>2, <2>1, <2>2, PlainCalm
<1>9. CASE OpPushI
  <2>1. n = 0
    BY <1>1, <1>9 DEF OpPushI, At, Consumes
  <2>2. \E v : Replace(0, v)
    BY <1>3, <1>9 DEF OpPushI
  <2> QED
    BY <1>1, <1>2, <2>1, <2>2, PlainCalm
<1>10. CASE OpPushLambda
  <2>1. n = 0
    BY <1>1, <1>10 DEF OpPushLambda, At, Consumes, LambdaOps
  <2>2. \E v : Replace(0, v)
    BY <1>10 DEF OpPushLambda
  <2> QED
    BY <1>1, <1>2, <2>1, <2>2, PlainCalm
<1> QED
  BY <1>4, <1>5, <1>6, <1>7, <1>8, <1>9, <1>10

\* Instructions on variables, and jumps.
LEMMA VariableCalm ==
  ASSUME NInv, IInv', Sound',
         OpLoad \/ OpRebind \/ OpStore \/ OpDiscard \/ OpJump \/ OpJumpIfFalse \/ OpRecur
  PROVE  Calm
<1> DEFINE n == Consumes(program, ip)
<1>1. mode = "run" /\ OpAt # "Exit" /\ OpAt = Decode(program[ip])
  <2>1. mode = "run" /\ OpAt # "Exit"
    BY DEF OpLoad, OpRebind, OpStore, OpDiscard, OpJump, OpJumpIfFalse, OpRecur, At, LoadOps
  <2> QED
    BY <2>1, AtInstruction DEF NInv
<1>2. \A why : ~Crash(why)
  BY DEF Crash, Sound
<1>3. CASE OpLoad
  <2>1. n = 0
    BY <1>1, <1>3 DEF OpLoad, At, Consumes, LoadOps
  <2>2. \E v : Replace(0, v)
    BY <1>2, <1>3 DEF OpLoad
  <2>3. UNCHANGED << host, site >> /\ Lower(0)
    BY <2>2 DEF Replace, control, Lower
  <2> QED
    BY <1>1, <2>1, <2>3, PlainCalm
<1>4. CASE OpRebind \/ OpStore \/ OpDiscard \/ OpJumpIfFalse
  <2>1. n = 1
    BY <1>1, <1>4 DEF OpRebind, OpStore, OpDiscard, OpJumpIfFalse, At, Consumes
  <2>2. UNCHANGED << host, site >> /\ operandStack' = Dropped(1)
    BY <1>2, <1>4 DEF OpRebind, OpStore, OpDiscard, OpJumpIfFalse, control
  <2> QED
    BY <1>1, <2>1, <2>2, PlainCalm DEF Lower
<1>5. CASE OpJump \/ OpRecur
  <2>1. UNCHANGED << host, site, operandStack >>
    BY <1>2, <1>5 DEF OpJump, OpRecur, control
  <2> QED
    BY <1>1, <2>1, PlainCalm
<1> QED
  BY <1>3, <1>4, <1>5

\* An entry is pushed, of a let ...
LEMMA LetCalm == ASSUME NInv, IInv', Sound', OpEnterLet PROVE Calm
<1> DEFINE s == Site(Here.body, Here.start, Here.depth + 1, Here.base, Here.act, FALSE)
<1>1. /\ mode = "run" /\ OpAt # "Exit" /\ UNCHANGED host /\ UNCHANGED operandStack
      /\ site' = Append(site, s)
  BY DEF OpEnterLet, At, control
<1>2. IInv /\ Sound /\ \A j \in DOMAIN host : Bottom(j) <= Here.base /\ Bottom(j) <= Len(operandStack)
  BY <1>1, RunFloor DEF NInv, Sound
<1>3. s.act \in DOMAIN host' => host'[s.act].start + host'[s.act].argc <= s.base
  BY <1>1, <1>2 DEF Site, Bottom
<1> HIDE DEF s
<1>4. EntriesMove
  BY <1>1, <1>3 DEF EntriesMove
<1> QED
  BY <1>1, <1>2, <1>4, CalmStep, CallsStay, SameArguments

\* ... or of a function, which takes over its arguments, and of a variadic one those
\* that are in the list.
LEMMA FunctionCalm == ASSUME NInv, IInv', Sound', CallBytecode \/ CallVariadic PROVE Calm
<1> DEFINE base == Len(operandStack) - (P8 + 1)
           s == Site("fn", Target.addr, 0, base, Len(host), FALSE)
<1>1. /\ mode = "run" /\ OpAt = "Call" /\ Len(operandStack) >= P8 + 1 /\ UNCHANGED host
      /\ site' = Append(site, s)
  BY DEF CallBytecode, CallVariadic, At, Enter, control
<1>2. IInv /\ Sound
  BY <1>1 DEF NInv, Sound
<1>3. /\ P8 \in Nat /\ Consumes(program, ip) = P8 + 1 /\ Len(operandStack) \in Nat
      /\ \A j \in DOMAIN host : Bottom(j) <= base /\ Bottom(j) \in Nat
  BY <1>1, <1>2, RunFloor, CallArity, CallNumbers
<1>4. \E n \in 1..(P8 + 1) : Lower(n)
  <2>1. CASE CallBytecode
    BY <1>3, <2>1 DEF CallBytecode, Lower
  <2>2. CASE CallVariadic
    <3>1. Lower(P8 - (Target.argc - 1) + 1)
      BY <2>2 DEF CallVariadic, Lower
    <3>2. P8 - (Target.argc - 1) \in 0..P8
      BY <1>2, <2>2, ExtraArguments
    <3> QED
      BY <1>3, <3>1, <3>2
  <2> QED
    BY <2>1, <2>2
<1>5. ArgumentsKept
  <2>1. PICK n \in 1..(P8 + 1) : Lower(n)
    BY <1>4
  <2> HIDE DEF Bottom
  <2>2. n \in Nat /\ n <= Len(operandStack) /\ \A j \in DOMAIN host : Bottom(j) <= Len(operandStack) - n
    BY <1>1, <1>3
  <2> QED
    BY <1>2, <2>1, <2>2, LowArguments
<1>6. s.act \in DOMAIN host' => host'[s.act].start + host'[s.act].argc <= s.base
  BY <1>1, <1>3 DEF Site, Bottom
<1> HIDE DEF s
<1>7. EntriesMove
  BY <1>1, <1>6 DEF EntriesMove
<1> QED
  BY <1>1, <1>2, <1>5, <1>7, CalmStep, CallsStay

\* ExitLet and Return take the entry off.
LEMMA LeaveCalm == ASSUME NInv, IInv', Sound', OpExitLet \/ OpReturn PROVE Calm
<1>1. \A why : ~Crash(why)
  BY DEF Crash, Sound
<1>2. /\ mode = "run" /\ OpAt # "Exit" /\ site' = Front(site)
      /\ UNCHANGED host /\ UNCHANGED operandStack
  BY <1>1 DEF OpExitLet, OpReturn, At, control
<1>3. /\ IInv /\ Sound /\ site # <<>> /\ \A j \in DOMAIN host : Bottom(j) <= Len(operandStack)
  <2>1. IInv /\ Sound /\ Len(site) \in DOMAIN site
    BY <1>2, AtInstruction DEF NInv, Sound
  <2>2. site # <<>>
    BY <2>1
  <2> QED
    BY <1>2, <2>1, <2>2, RunFloor
<1> QED
  BY <1>2, <1>3, CalmStep, CallsStay, SameArguments DEF EntriesMove

\* A builtin is called: its arguments are what the instruction takes.
LEMMA WrappedCalm == ASSUME NInv, IInv', Sound', CallWrapped PROVE Calm
<1> DEFINE start == Len(operandStack) - (P8 + 1)
           h == HostCall(Target.name, start, P8, P8, Cursor(Target.name, start), Next8, env)
<1>1. /\ mode = "run" /\ OpAt = "Call" /\ Len(operandStack) >= P8 + 1 /\ UNCHANGED site
      /\ host' = Append(host, h) /\ operandStack' = Dropped(1)
  BY DEF CallWrapped, At
<1>2. IInv /\ Sound
  BY <1>1 DEF NInv, Sound
<1>3. /\ P8 \in Nat /\ Len(operandStack) \in Nat
      /\ \A j \in DOMAIN host : Bottom(j) <= start /\ Bottom(j) \in Nat
  BY <1>1, <1>2, RunFloor, CallArity, CallNumbers
<1>4. CallsMove
  <2>1. h.start = start
    BY DEF HostCall
  <2> HIDE DEF h
  <2> QED
    BY <1>1, <1>3, <2>1 DEF CallsMove
<1> HIDE DEF h
<1>5. Lower(1) /\ 1 <= Len(operandStack) /\ \A j \in DOMAIN host : Bottom(j) <= Len(operandStack) - 1
  <2> HIDE DEF Bottom
  <2>1. 1 <= Len(operandStack) /\ \A j \in DOMAIN host : Bottom(j) <= Len(operandStack) - 1
    BY <1>1, <1>3
  <2> QED
    BY <1>1, <2>1 DEF Lower
<1>6. ArgumentsKept
  BY <1>2, <1>5, LowArguments
<1> QED
  BY <1>1, <1>2, <1>4, <1>6, CalmStep DEF EntriesMove

\* Where the operands of the C++ calls end when VM::execute returns with a value.
LEMMA ExitFloor ==
  ASSUME NInv, mode = "run", OpAt = "Exit", Caller.kind # "setGlobal"
  PROVE  /\ IInv /\ Sound /\ host # <<>> /\ site # <<>> /\ Len(host) \in DOMAIN host
         /\ 1 <= Len(operandStack)
         /\ \A j \in DOMAIN host : Bottom(j) <= Len(operandStack) - 1
<1>1. /\ IInv /\ Sound /\ HostsNested /\ HostsOk /\ host # <<>> /\ Len(host) \in DOMAIN host
      /\ Len(site) \in DOMAIN site /\ Caller.kind \in {"apply", "exec"}
      /\ Caller.kind = "apply" => Returned
      /\ Caller.kind = "exec" => Len(operandStack) = Caller.start + 1
  <2>1. IInv
    BY DEF NInv
  <2> QED
    BY <2>1, AtExit DEF NInv, Nested
<1>2. /\ Len(host) \in Nat /\ DOMAIN host = 1..Len(host) /\ Len(operandStack) \in Nat
      /\ Caller.start \in Nat /\ Caller.argc \in Nat /\ site # <<>>
      /\ \A j \in DOMAIN host : Bottom(j) \in Nat
  <2>1. site # <<>>
    BY <1>1
  <2>2. /\ Len(host) \in Nat /\ DOMAIN host = 1..Len(host) /\ Len(operandStack) \in Nat
        /\ \A j \in DOMAIN host : host[j].start \in Nat /\ host[j].argc \in Nat /\ Bottom(j) \in Nat
    BY <1>1, CallNumbers
  <2> QED
    BY <1>1, <2>1, <2>2 DEF Caller
<1>3. Len(operandStack) = Caller.start + Caller.argc + 1
  <2>1. CASE Caller.kind = "apply"
    BY <1>1, <2>1 DEF Returned
  <2>2. CASE Caller.kind = "exec"
    <3>1. Caller.argc = 0
      BY <1>1, <2>2, BuiltinNames DEF HostsOk, HostOk, Caller
    <3> QED
      BY <1>1, <1>2, <2>2, <3>1
  <2> QED
    BY <1>1, <2>1, <2>2
<1>4. Bottom(Len(host)) = Caller.start + Caller.argc
  BY DEF Bottom, Caller
<1>5. ASSUME NEW j \in DOMAIN host PROVE Bottom(j) <= Len(operandStack) - 1
  <2>1. CASE j = Len(host)
    BY <1>2, <1>3, <1>4, <2>1
  <2>2. CASE j < Len(host)
    <3>1. Bottom(j) <= Caller.start /\ Bottom(j) \in Nat
      BY <1>1, <1>2, <2>2 DEF HostsNested, Caller
    <3> HIDE DEF Bottom
    <3> QED
      BY <1>2, <1>3, <3>1
  <2> QED
    BY <1>2, <2>1, <2>2
<1> QED
  BY <1>1, <1>2, <1>3, <1>5

\* VM::execute returns: exec and Function::call take one operand off ...
LEMMA ExitCalm == ASSUME NInv, IInv', Sound', ExitToExec \/ ExitToBuiltin PROVE Calm
<1>1. \A why : ~Crash(why)
  BY DEF Crash, Sound
<1>2. /\ mode = "run" /\ OpAt = "Exit" /\ Caller.kind # "setGlobal"
      /\ operandStack' = Dropped(1)
  BY <1>1, BuiltinNames DEF ExitToExec, ExitToBuiltin, At
<1>3. /\ IInv /\ Sound /\ host # <<>> /\ site # <<>> /\ Len(host) \in DOMAIN host
      /\ 1 <= Len(operandStack) /\ \A j \in DOMAIN host : Bottom(j) <= Len(operandStack) - 1
  BY <1>2, ExitFloor
<1>4. ArgumentsKept
  BY <1>2, <1>3, LowArguments DEF Lower
<1>5. CASE ExitToExec
  <2>1. UNCHANGED host /\ site' = Front(site)
    BY <1>1, <1>5 DEF ExitToExec
  <2> QED
    BY <1>3, <1>4, <2>1, CalmStep, CallsStay DEF EntriesMove
<1>6. CASE ExitToBuiltin
  <2>1. UNCHANGED site /\ host' = [host EXCEPT ![Len(host)].params = 0]
    BY <1>6 DEF ExitToBuiltin
  <2>2. CallsMove
    BY <1>3, <2>1, Updated
  <2> QED
    BY <1>3, <1>4, <2>1, <2>2, CalmStep DEF EntriesMove
<1> QED
  BY <1>5, <1>6

\* ... and setGlobal, which only the embedder calls, none.
LEMMA ExitToSetGlobalCalm == ASSUME NInv, IInv', Sound', ExitToSetGlobal PROVE Calm
<1>1. \A why : ~Crash(why)
  BY DEF Crash, Sound
<1>2. mode = "run" /\ OpAt = "Exit" /\ Caller.kind = "setGlobal" /\ host' = Front(host)
  BY <1>1 DEF ExitToSetGlobal, At
<1>3. /\ IInv /\ HostsOk /\ host # <<>> /\ Len(host) \in DOMAIN host /\ Caller.kind = "setGlobal"
  BY <1>2, AtExit DEF NInv
<1>4. Len(host) = 1
  <2>1. "setGlobal" \notin Builtins
    BY BuiltinNames
  <2> QED
    BY <1>3, <2>1 DEF HostsOk, HostOk, FromLoad, FromEmbedder, Caller
<1>5. ASSUME NEW j \in DOMAIN host' PROVE FALSE
  <2>1. j \in DOMAIN host /\ j < 1 /\ DOMAIN host = 1..Len(host)
    BY <1>2, <1>3, <1>4, <1>5, CallEnds, CallNumbers
  <2> QED
    BY <1>4, <2>1
<1> QED
  BY <1>5, NoCallCalm

\* No instruction disturbs the calls.
LEMMA InstructionCalm == ASSUME NInv, IInv', Sound', Instruction PROVE Calm
<1>1. CASE OpCons \/ OpCar \/ OpCdr \/ OpIsNull \/ OpPush \/ OpPushI \/ OpPushLambda
  BY <1>1, ComputeCalm
<1>2. CASE OpLoad \/ OpRebind \/ OpStore \/ OpDiscard \/ OpJump \/ OpJumpIfFalse \/ OpRecur
  BY <1>2, VariableCalm
<1>3. CASE OpEnterLet \/ OpExitLet \/ OpReturn
  BY <1>3, LetCalm, LeaveCalm
<1>4. CASE CallBytecode \/ CallVariadic \/ CallWrapped
  BY <1>4, FunctionCalm, WrappedCalm
<1>5. CASE ExitToExec \/ ExitToSetGlobal \/ ExitToBuiltin
  BY <1>5, ExitCalm, ExitToSetGlobalCalm
<1>6. CASE CallError \/ Undefined
  BY <1>6 DEF CallError, Undefined, Throw, Crash, Sound
<1> QED
  BY <1>1, <1>2, <1>3, <1>4, <1>5, <1>6 DEF Instruction

---------------------------------------------------------------------------------------
(* C++ code *)

\* Compiled code is run for a call, above its arguments.
LEMMA LaunchCalm ==
  ASSUME NInv, IInv', Sound, NEW c, NEW call, Launch(c, call), CallsMove,
         \A j \in DOMAIN host : Bottom(j) <= Len(operandStack),
         Len(call) \in DOMAIN call =>
           call[Len(call)].start + call[Len(call)].argc <= Len(operandStack)
  PROVE  Calm
<1> DEFINE s == Site(c.kind, Len(program) + 1, 0, Len(operandStack), Len(call), TRUE)
<1>1. host' = call /\ UNCHANGED operandStack /\ site' = Append(site, s)
  BY DEF Launch
<1>2. s.act \in DOMAIN host' => host'[s.act].start + host'[s.act].argc <= s.base
  BY <1>1 DEF Site
<1> HIDE DEF s
<1>3. EntriesMove
  BY <1>1, <1>2 DEF EntriesMove
<1> QED
  BY <1>1, <1>3, CalmStep, SameArguments DEF NInv

\* The embedder's calls begin on whatever is on the stack.
LEMMA EmbedderCalm == ASSUME NInv, IInv', Sound', Construct \/ SetGlobal \/ Exec PROVE Calm
<1>1. /\ mode = "idle" /\ IInv /\ Sound /\ host = <<>> /\ DOMAIN host = {}
      /\ Len(operandStack) \in Nat /\ TypeOK
  <2>1. mode = "idle" /\ IInv
    BY DEF Construct, SetGlobal, Exec, NInv
  <2> QED
    BY <2>1, Idle
<1>2. CASE Construct
  BY <1>1, <1>2, NoCallCalm DEF Construct, control
<1>3. ASSUME NEW kind \in {"exec", "setGlobal"}, NEW h,
             h = HostCall(kind, Len(operandStack), 0, 0, Null, NoAddress, TopLevel)
      PROVE  /\ h.start = Len(operandStack) /\ h.argc = 0
             /\ Append(host, h)[Len(Append(host, h))] = h
             /\ h.start + h.argc <= Len(operandStack)
  <2>1. h.start = Len(operandStack) /\ h.argc = 0
    BY <1>1, <1>3, ExecCall
  <2>2. Append(host, h)[Len(Append(host, h))] = h
    BY <1>1
  <2> QED
    BY <1>1, <2>1, <2>2
<1>4. CASE SetGlobal
  <2> DEFINE h == HostCall("setGlobal", Len(operandStack), 0, 0, Null, NoAddress, TopLevel)
             call == Append(host, h)
  <2>1. Launch(Head(todo), call)
    BY <1>4 DEF SetGlobal, CompileError, Crash, Throw, Sound
  <2>2. host' = call
    BY <2>1 DEF Launch
  <2>3. h.start = Len(operandStack) /\ call[Len(call)] = h /\ h.start + h.argc <= Len(operandStack)
    BY <1>3
  <2> HIDE DEF h
  <2>4. CallsMove
    BY <1>1, <2>2 DEF CallsMove
  <2> HIDE DEF call
  <2> QED
    BY <1>1, <2>1, <2>3, <2>4, LaunchCalm
<1>5. CASE Exec
  <2> DEFINE h == HostCall("exec", Len(operandStack), 0, 0, Null, NoAddress, TopLevel)
  <2>1. host' = Append(host, h) /\ UNCHANGED site
    BY <1>5 DEF Exec
  <2> HIDE DEF h
  <2>2. CallsMove
    BY <1>1, <2>1 DEF CallsMove
  <2>3. ArgumentsKept
    BY <1>1 DEF ArgumentsKept
  <2> QED
    BY <1>1, <2>1, <2>2, <2>3, CalmStep DEF EntriesMove
<1> QED
  BY <1>2, <1>4, <1>5

\* exec runs the next statement ...
LEMMA StatementCalm == ASSUME NInv, IInv', Sound', ExecStatement PROVE Calm
<1> DEFINE call == [host EXCEPT ![Len(host)].done = Head(todo).last]
<1>1. mode = "exec" /\ Launch(Head(todo), call) /\ host' = call
  BY DEF ExecStatement, CompileError, Crash, Throw, Sound, Launch
<1>2. /\ IInv /\ Sound /\ Len(host) \in DOMAIN host
      /\ \A j \in DOMAIN host : Bottom(j) <= Len(operandStack)
  <2>1. IInv
    BY DEF NInv
  <2> QED
    BY <1>1, <2>1, InNative, NativeFloor
<1>3. /\ CallsMove /\ Len(host') = Len(host)
      /\ \A j \in DOMAIN host' : j \in DOMAIN host /\ SameCall(host'[j], host[j])
  BY <1>1, <1>2, Updated
<1> HIDE DEF call
<1>4. Len(call) \in DOMAIN call => call[Len(call)].start + call[Len(call)].argc <= Len(operandStack)
  BY <1>1, <1>2, <1>3 DEF SameCall, Bottom
<1> QED
  BY <1>1, <1>2, <1>3, <1>4, LaunchCalm

\* ... or returns; a builtin that only computes returns a value.
LEMMA ReturnsCalm == ASSUME NInv, IInv', Sound', ExecReturn \/ BuiltinValue PROVE Calm
<1>1. /\ mode \in {"exec", "builtin"} /\ UNCHANGED site /\ UNCHANGED operandStack
      /\ UNCHANGED host \/ host' = Front(host)
  <2>1. CASE ExecReturn
    BY <2>1 DEF ExecReturn
  <2>2. CASE BuiltinValue
    BY <2>2 DEF BuiltinValue, InBuiltin, Yield, Throw, Crash, Sound
  <2> QED
    BY <2>1, <2>2
<1>2. IInv /\ Sound /\ host # <<>> /\ \A j \in DOMAIN host : Bottom(j) <= Len(operandStack)
  <2>1. IInv
    BY DEF NInv
  <2> QED
    BY <1>1, <2>1, InNative, NativeFloor
<1>3. CallsMove
  BY <1>1, <1>2, CallEnds, CallsStay
<1> QED
  BY <1>1, <1>2, <1>3, CalmStep, SameArguments DEF EntriesMove

\* A builtin calls exec or, being apply, another builtin, above its own arguments.
LEMMA NativeCallCalm == ASSUME NInv, IInv', Sound', BuiltinLoad \/ ApplyWrapped PROVE Calm
<1>1. mode = "builtin" /\ UNCHANGED site /\ UNCHANGED operandStack
  BY DEF BuiltinLoad, HasText, ApplyWrapped, ApplyReady, InBuiltin
<1>2. /\ IInv /\ Sound /\ TypeOK
      /\ \A j \in DOMAIN host : Bottom(j) <= Len(operandStack)
      /\ \A j \in DOMAIN host : Bottom(j) <= Caller.start + Caller.argc
  <2>1. IInv
    BY DEF NInv
  <2> QED
    BY <1>1, <2>1, InNative, NativeFloor
<1>3. CASE BuiltinLoad
  <2> DEFINE h == HostCall("exec", Len(operandStack), 0, 0, Null, NoAddress, TopLevel)
  <2>1. host' = Append(host, h)
    BY <1>3 DEF BuiltinLoad
  <2>2. h.start = Len(operandStack)
    BY <1>2, ExecCall
  <2> HIDE DEF h
  <2>3. CallsMove
    BY <1>2, <2>1, <2>2 DEF CallsMove
  <2> QED
    BY <1>1, <1>2, <2>3, CalmStep, SameArguments DEF EntriesMove
<1>4. CASE ApplyWrapped
  <2> DEFINE start == Caller.start + Caller.argc
             h == HostCall(Applied.name, start, Caller.params, 0, Cursor(Applied.name, start),
                           NoAddress, TopLevel)
  <2>1. host' = Append(host, h)
    BY <1>4 DEF ApplyWrapped
  <2>2. h.start = start
    BY DEF HostCall
  <2> HIDE DEF h
  <2>3. CallsMove
    BY <1>2, <2>1, <2>2 DEF CallsMove
  <2> QED
    BY <1>1, <1>2, <2>3, CalmStep, SameArguments DEF EntriesMove
<1> QED
  BY <1>3, <1>4

\* apply pushes an argument, and runs a function of bytecode on those it has pushed.
LEMMA ApplyCalm == ASSUME NInv, IInv', Sound', ApplyPush \/ ApplyBytecode PROVE Calm
<1>1. mode = "builtin"
  BY DEF ApplyPush, ApplyBytecode, ApplyReady, InBuiltin
<1>2. /\ IInv /\ Sound /\ TypeOK /\ Len(host) \in DOMAIN host
      /\ Len(operandStack) = Caller.start + Caller.argc + Caller.params
      /\ Caller.start \in Nat /\ Caller.argc \in Nat /\ Caller.params \in Nat
      /\ \A j \in DOMAIN host : Bottom(j) <= Len(operandStack)
  <2>1. IInv
    BY DEF NInv
  <2> QED
    BY <1>1, <2>1, InNative, NativeFloor
<1>3. CASE ApplyPush
  <2>1. /\ UNCHANGED site /\ \E v : operandStack' = Append(operandStack, v)
        /\ host' = [host EXCEPT ![Len(host)].params = @ + 1,
                                ![Len(host)].cursor = heap[Caller.cursor].cdr]
    BY <1>3 DEF ApplyPush, Throw, Sound
  <2>2. \E x, y : host' = [host EXCEPT ![Len(host)].params = x, ![Len(host)].cursor = y]
    BY <2>1
  <2>3. CallsMove
    BY <1>2, <2>2, Updated
  <2> QED
    BY <1>2, <2>1, <2>3, CalmStep, SameArguments DEF EntriesMove
<1>4. CASE ApplyBytecode
  <2> DEFINE s == Site("fn", Applied.addr, 0, Len(operandStack) - Applied.argc, Len(host), TRUE)
  <2>1. /\ UNCHANGED host /\ UNCHANGED operandStack /\ site' = Append(site, s)
        /\ Caller.params = Applied.argc
    BY <1>4 DEF ApplyBytecode
  <2>2. Len(operandStack) - Applied.argc = Caller.start + Caller.argc
    BY <1>2, <2>1
  <2>3. s.act \in DOMAIN host' => host'[s.act].start + host'[s.act].argc <= s.base
    BY <1>2, <2>1, <2>2 DEF Site, Caller
  <2> HIDE DEF s
  <2>4. EntriesMove
    BY <2>1, <2>3 DEF EntriesMove
  <2> QED
    BY <1>2, <2>1, <2>4, CalmStep, CallsStay, SameArguments
<1> QED
  BY <1>3, <1>4

\* A builtin returns, and its arguments go with it if the machine called it.
LEMMA BuiltinEndsCalm == ASSUME NInv, IInv', Sound', ReturnToVM \/ ReturnToBuiltin PROVE Calm
<1>1. mode = "return" /\ UNCHANGED site /\ host' = Front(host)
  BY DEF ReturnToVM, ReturnToBuiltin
<1>2. /\ IInv /\ Sound /\ host # <<>> /\ HostOk(Len(host)) /\ Caller.kind \in Builtins
      /\ Len(operandStack) = Caller.start + Caller.argc + Caller.params
      /\ Caller.start \in Nat /\ Caller.argc \in Nat /\ Caller.params \in Nat
      /\ \A j \in DOMAIN host : j < Len(host) => Bottom(j) <= Caller.start
      /\ \A j \in DOMAIN host : Bottom(j) \in Nat
  <2>1. IInv
    BY DEF NInv
  <2> QED
    BY <1>1, <2>1, InNative, NativeFloor, CallNumbers
<1>3. CallsMove /\ \A j \in DOMAIN host \intersect DOMAIN host' : Bottom(j) <= Caller.start
  BY <1>1, <1>2, CallEnds
<1>4. \E n \in 0..(Caller.argc + Caller.params) : Lower(n)
  <2>1. CASE ReturnToVM
    <3>1. Caller.owned = Caller.argc
      BY <1>2, <2>1 DEF ReturnToVM, HostOk, FromVM, Caller
    <3>2. Lower(Caller.params + Caller.owned)
      BY <2>1 DEF ReturnToVM, Lower
    <3> QED
      BY <1>2, <3>1, <3>2
  <2>2. CASE ReturnToBuiltin
    <3>1. Lower(Caller.params)
      BY <2>2 DEF ReturnToBuiltin, Lower
    <3> QED
      BY <1>2, <3>1
  <2> QED
    BY <2>1, <2>2
<1>5. ArgumentsKept
  <2>1. PICK n \in 0..(Caller.argc + Caller.params) : Lower(n)
    BY <1>4
  <2> HIDE DEF Bottom
  <2>2. /\ n \in Nat /\ n <= Len(operandStack) /\ Caller.start <= Len(operandStack) - n
        /\ Len(operandStack) - n \in Nat
    BY <1>2
  <2>3. \A j \in DOMAIN host \intersect DOMAIN host' : Bottom(j) <= Len(operandStack) - n
    BY <1>2, <1>3, <2>2
  <2> QED
    BY <1>2, <2>1, <2>2, <2>3, LowArguments
<1> QED
  BY <1>1, <1>2, <1>3, <1>5, CalmStep DEF EntriesMove

\* Nothing that C++ code does disturbs the calls that wait for it.
LEMMA NativeCalm == ASSUME NInv, IInv', Sound', Native PROVE Calm
<1>1. CASE Construct \/ SetGlobal \/ Exec \/ ExecStatement \/ ExecReturn
  BY <1>1, EmbedderCalm, StatementCalm, ReturnsCalm
<1>2. CASE BuiltinValue \/ BuiltinLoad \/ ApplyPush \/ ApplyBytecode \/ ApplyWrapped
  BY <1>2, ReturnsCalm, NativeCallCalm, ApplyCalm
<1>3. CASE ReturnToVM \/ ReturnToBuiltin
  BY <1>3, BuiltinEndsCalm
<1>4. CASE BuiltinLoadFails \/ ApplyError \/ Unwind \/ Exited
  BY <1>4 DEF BuiltinLoadFails, ApplyError, Unwind, Exited, Throw, Crash, Sound
<1> QED
  BY <1>1, <1>2, <1>3, <1>4 DEF Native

---------------------------------------------------------------------------------------
(* The theorem *)

\* The call stack changes at its top only, by one entry.
LEMMA TopOnly ==
  ASSUME NInv, Next, Sound', host # <<>>
  PROVE  \/ UNCHANGED callStack
         \/ callStack # <<>> /\ callStack' = Front(callStack)
         \/ \E e : callStack' = Append(callStack, e)
<1> DEFINE P == \/ UNCHANGED callStack
                \/ callStack # <<>> /\ callStack' = Front(callStack)
                \/ \E e : callStack' = Append(callStack, e)
<1>1. \A why : ~Crash(why)
  BY DEF Crash, Sound
<1>2. ~Throw
  BY DEF Throw, Sound
<1>3. mode # "idle"
  BY Idle DEF NInv
<1>4. ASSUME Instruction PROVE P
  <2>1. CASE OpCons \/ OpCar \/ OpCdr \/ OpIsNull \/ OpPush \/ OpPushI \/ OpPushLambda \/ OpLoad
    BY <1>1, <1>2, <2>1
    DEF OpCons, OpCar, OpCdr, OpIsNull, OpPush, OpPushI, OpPushLambda, OpLoad, Replace
  <2>2. CASE OpRebind \/ OpStore \/ OpDiscard \/ OpJump \/ OpJumpIfFalse \/ OpRecur
    BY <1>1, <2>2 DEF OpRebind, OpStore, OpDiscard, OpJump, OpJumpIfFalse, OpRecur
  <2>3. CASE OpEnterLet \/ CallBytecode \/ CallVariadic
    BY <2>3 DEF OpEnterLet, CallBytecode, CallVariadic, Enter
  <2>4. CASE OpExitLet \/ ExitToExec \/ ExitToSetGlobal
    BY <1>1, <2>4 DEF OpExitLet, ExitToExec, ExitToSetGlobal
  <2>5. CASE OpReturn
    <3>1. Len(callStack) >= 2 /\ callStack' = Front(callStack)
      BY <1>1, <2>5 DEF OpReturn
    <3>2. callStack # <<>>
      BY <3>1
    <3> QED
      BY <3>1, <3>2
  <2>6. CASE CallError \/ Undefined
    BY <1>1, <1>2, <2>6 DEF CallError, Undefined, Sound
  <2>7. CASE CallWrapped \/ ExitToBuiltin
    BY <2>7 DEF CallWrapped, ExitToBuiltin
  <2> QED
    BY <1>4, <2>1, <2>2, <2>3, <2>4, <2>5, <2>6, <2>7 DEF Instruction
<1>5. ASSUME Native PROVE P
  <2>1. CASE Construct \/ SetGlobal \/ Exec
    BY <1>3, <2>1 DEF Construct, SetGlobal, Exec
  <2>2. CASE ExecStatement \/ ApplyBytecode
    BY <1>1, <1>2, <2>2 DEF ExecStatement, CompileError, Launch, ApplyBytecode
  <2>3. CASE ExecReturn \/ BuiltinValue \/ BuiltinLoad \/ ApplyPush \/ ApplyWrapped
    BY <1>1, <1>2, <2>3 DEF ExecReturn, BuiltinValue, Yield, BuiltinLoad, ApplyPush, ApplyWrapped
  <2>4. CASE BuiltinLoadFails \/ ApplyError
    BY <1>2, <2>4 DEF BuiltinLoadFails, ApplyError
  <2>5. CASE ReturnToVM \/ ReturnToBuiltin \/ Unwind \/ Exited
    BY <1>1, <2>5 DEF ReturnToVM, ReturnToBuiltin, Unwind, Exited
  <2> QED
    BY <1>5, <2>1, <2>2, <2>3, <2>4, <2>5 DEF Native
<1> QED
  BY <1>4, <1>5 DEF Next

\* Nothing goes on after an exception or undefined behaviour.
LEMMA SoundBefore == ASSUME Next, Sound' PROVE Sound
<1>1. ASSUME Instruction PROVE mode = "run"
  <2>1. CASE \/ OpCons \/ OpCar \/ OpCdr \/ OpIsNull \/ OpPush \/ OpPushI \/ OpPushLambda
             \/ OpLoad \/ OpRebind \/ OpStore \/ OpDiscard \/ OpJump \/ OpJumpIfFalse \/ OpRecur
    BY <2>1
    DEF OpCons, OpCar, OpCdr, OpIsNull, OpPush, OpPushI, OpPushLambda,
        OpLoad, OpRebind, OpStore, OpDiscard, OpJump, OpJumpIfFalse, OpRecur, At
  <2>2. CASE OpEnterLet \/ OpExitLet \/ OpReturn
    BY <2>2 DEF OpEnterLet, OpExitLet, OpReturn, At
  <2>3. CASE CallError \/ CallBytecode \/ CallVariadic \/ CallWrapped
    BY <2>3 DEF CallError, CallBytecode, CallVariadic, CallWrapped, At
  <2>4. CASE ExitToExec \/ ExitToSetGlobal \/ ExitToBuiltin \/ Undefined
    BY <2>4 DEF ExitToExec, ExitToSetGlobal, ExitToBuiltin, Undefined, At
  <2> QED
    BY <1>1, <2>1, <2>2, <2>3, <2>4 DEF Instruction
<1>2. ASSUME Native PROVE mode \in {"idle", "exec", "builtin", "return"}
  <2>1. CASE Construct \/ SetGlobal \/ Exec \/ ExecStatement \/ ExecReturn
    BY <2>1 DEF Construct, SetGlobal, Exec, ExecStatement, ExecReturn
  <2>2. CASE \/ BuiltinValue \/ BuiltinLoad \/ BuiltinLoadFails
             \/ ApplyPush \/ ApplyError \/ ApplyBytecode \/ ApplyWrapped
    BY <2>2 DEF BuiltinValue, BuiltinLoad, HasText, BuiltinLoadFails, InBuiltin,
                ApplyPush, ApplyError, ApplyBytecode, ApplyWrapped, ApplyReady
  <2>3. CASE ReturnToVM \/ ReturnToBuiltin
    BY <2>3 DEF ReturnToVM, ReturnToBuiltin
  <2>4. ~Unwind /\ ~Exited
    BY DEF Unwind, Exited, Crash, Sound
  <2> QED
    BY <1>2, <2>1, <2>2, <2>3, <2>4 DEF Native
<1> QED
  BY <1>1, <1>2 DEF Next, Sound

\* What a call found on the call stack stays: the entries are never fewer.
LEMMA EntriesStay ==
  ASSUME NInv, IInv', Sound', Next, Calm, NEW j \in DOMAIN host \intersect DOMAIN host',
         NEW k \in 1..host[j].level
  PROVE  k \in DOMAIN callStack' /\ callStack'[k] = callStack[k]
<1>1. /\ IInv /\ HostsOk' /\ host[j] \in HostType
      /\ host'[j].level = host[j].level /\ host # <<>> /\ HostsOk
  BY CallTyped, SoundBefore DEF NInv, IInv, Discipline, Calm, SameCall
<1>2. host[j].level \in Nat /\ k \in Nat /\ k > 0 /\ k <= host[j].level
  BY <1>1 DEF HostType
<1>3. host'[j].level <= Len(callStack')
  BY <1>1 DEF HostsOk, HostOk
<1>4. /\ callStack \in Seq(EntryType) /\ Len(callStack) \in Nat
      /\ Len(callStack') \in Nat /\ DOMAIN callStack' = 1..Len(callStack')
  <2>1. callStack' \in Seq(EntryType')
    BY DEF IInv, TypeOK, StackTypes
  <2> QED
    BY <1>1, <2>1, CallNumbers
<1>5. k \in DOMAIN callStack'
  BY <1>1, <1>2, <1>3, <1>4
<1>6. CASE UNCHANGED callStack
  BY <1>5, <1>6
<1>7. CASE callStack # <<>> /\ callStack' = Front(callStack)
  BY <1>4, <1>5, <1>7, FrontElements
<1>8. ASSUME NEW e, callStack' = Append(callStack, e) PROVE callStack'[k] = callStack[k]
  <2>1. k <= Len(callStack)
    BY <1>1, <1>2, <1>4 DEF HostsOk, HostOk
  <2> QED
    BY <1>4, <1>5, <1>8, <2>1, AppendElements
<1> QED
  BY <1>1, <1>5, <1>6, <1>7, <1>8, TopOnly

\* No call lasts at first.
LEMMA InitNested == Init => NInv
<1> SUFFICES ASSUME Init PROVE NInv
  OBVIOUS
<1>1. IInv
  BY InitInv
<1>2. host = <<>>
  BY DEF Init
<1>3. HostsNested /\ SitesNested
  BY <1>2 DEF HostsNested, SitesNested
<1> QED
  BY <1>1, <1>3 DEF NInv, Nested

\* Every step keeps the invariant.
LEMMA NestedStep == NInv /\ Accepted /\ [Next]_vars => NInv'
<1> SUFFICES ASSUME NInv, Accepted, [Next]_vars PROVE NInv'
  OBVIOUS
<1>1. IInv'
  BY StepInv DEF NInv
<1>2. CASE UNCHANGED vars
  BY <1>1, <1>2 DEF NInv, Nested, Sound, HostsNested, SitesNested, Bottom, vars, control
<1>3. ASSUME Next, Sound' PROVE HostsNested' /\ SitesNested'
  BY <1>1, <1>3, InstructionCalm, NativeCalm DEF Next, Calm
<1> QED
  BY <1>1, <1>2, <1>3 DEF NInv, Nested

\* While a C++ call lasts, nothing that runs on its behalf, whatever the sessions,
\* touches its arguments, the operands below them or the entries its caller left on the
\* call stack, unless an exception or undefined behaviour ends it or code breaks the
\* discipline.
THEOREM CallersAreUndisturbed == Spec => CallersUndisturbed
<1>1. ASSUME NInv, NInv', Next, Sound'
      PROVE  \A j \in DOMAIN host \intersect DOMAIN host' :
               /\ \A k \in 1..host[j].start + host[j].argc :
                    k \in DOMAIN operandStack' /\ operandStack'[k] = operandStack[k]
               /\ \A k \in 1..host[j].level :
                    k \in DOMAIN callStack' /\ callStack'[k] = callStack[k]
  <2>1. IInv' /\ Calm
    BY <1>1, InstructionCalm, NativeCalm DEF Next, NInv
  <2>2. \A j \in DOMAIN host \intersect DOMAIN host' : Kept(Bottom(j))
    BY <2>1 DEF Calm, ArgumentsKept
  <2> QED
    BY <1>1, <2>1, <2>2, EntriesStay DEF Kept, Bottom
<1> DEFINE Until == Rest /\ (CodeDisciplined => NInv)
<1>2. Init => Until
  BY InitRest, InitNested
<1>3. Until /\ [Next]_vars => Until'
  BY RestStep, NestedStep
<1>4. Until /\ Until' /\ [Next]_vars =>
        [Sound' /\ CodeDisciplined' => \A j \in DOMAIN host \intersect DOMAIN host' :
               /\ \A k \in 1..host[j].start + host[j].argc :
                    k \in DOMAIN operandStack' /\ operandStack'[k] = operandStack[k]
               /\ \A k \in 1..host[j].level :
                    k \in DOMAIN callStack' /\ callStack'[k] = callStack[k]]_vars
  BY <1>1, RestStep
<1> QED
  BY <1>2, <1>3, <1>4, PTL DEF Spec, CallersUndisturbed
=======================================================================================
