------------------------------ MODULE Objects ------------------------------
(***************************************************************************)
(* What an EBL program is to see of its memory: objects that have an       *)
(* identity and no address, that are there as long as the program can get  *)
(* to them, and contain what was put into them.  That some of the others   *)
(* disappear now and then is all that is to be known of the collector.     *)
(*                                                                         *)
(* A value is the number of an object, or the negated number of a string   *)
(* for a character of it.  In a variable it may also be 0: what was there  *)
(* is lost.                                                                *)
(*                                                                         *)
(* There are two such memories.  In one the program can get to all that    *)
(* its functions can name.  In the other, of a function only the variables *)
(* of the environment count in which it was made, not of those above it.   *)
(***************************************************************************)
EXTENDS Integers, Sequences, SequencesExt

CONSTANT Environments

VARIABLES objects, frames, callStack, immediates, operandStack

objectVars == <<objects, frames, callStack, immediates, operandStack>>

Null == 1
TopLevel == 1

Env == Last(callStack)
Top == Last(operandStack)
Second == operandStack[Len(operandStack) - 1]
Without(n) == SubSeq(operandStack, 1, Len(operandStack) - n)

IsA(v, kinds) == v > 0 /\ objects[v].kind \in kinds

\* An environment and those above it.
Lineage(e) ==
  LET WithParents(S) == /\ e \in S \union {0}
                        /\ \A d \in S : frames[d].parent \in S \union {0}
  IN {d \in DOMAIN frames : \A S \in SUBSET DOMAIN frames : WithParents(S) => d \in S}

\* The environments that the call stack, or a function, can lead to.
Owned(stack, objs) ==
  (UNION {Lineage(stack[i]) : i \in DOMAIN stack}) \union
  (UNION {Lineage(objs[n].env) : n \in DOMAIN objs})

Within(es) == [e \in es |-> frames[e]]

\* The environments by way of an environment whose variables count: those above it,
\* if the outer ones do, or itself alone.
Counted(e, outer) == IF outer THEN Lineage(e) ELSE {e} \ {0}

VariablesOf(es) == UNION {ToSet(frames[e].vars) : e \in es}

\* Objects that a value, which may be a character, leads to.
Beyond(v, outer) ==
  IF v \notin DOMAIN objects THEN {}
  ELSE ToSet(objects[v].refs) \union VariablesOf(Counted(objects[v].env, outer))

AtHand(outer) ==
  {Null} \union ToSet(immediates) \union ToSet(operandStack) \union
  VariablesOf(UNION {Counted(callStack[i], outer) : i \in DOMAIN callStack})

\* Sets that hold all that the program can get to.
Reachable(live, outer) ==
  /\ AtHand(outer) \cap DOMAIN objects \subseteq live
  /\ \A v \in live : Beyond(v, outer) \cap DOMAIN objects \subseteq live

Init ==
  /\ objects = [n \in {Null} |-> [kind |-> "null", refs |-> <<>>, env |-> 0]]
  /\ frames = [e \in {TopLevel} |-> [parent |-> 0, vars |-> <<>>]]
  /\ callStack = <<TopLevel>>
  /\ immediates = <<>> /\ operandStack = <<>>

----------------------------------------------------------------------------
OnStack(new) ==
  /\ operandStack' = new
  /\ UNCHANGED <<objects, frames, callStack, immediates>>

PushConstant ==
  \E v \in {Null} \union ToSet(immediates) : OnStack(Append(operandStack, v))

Load ==
  \E e \in Lineage(Env) : \E v \in ToSet(frames[e].vars) \ {0} :
    OnStack(Append(operandStack, v))

Discard == operandStack # <<>> /\ OnStack(Without(1))

Take ==
  /\ operandStack # <<>> /\ IsA(Top, {"pair", "box"})
  /\ \E v \in ToSet(objects[Top].refs) : OnStack(Append(Without(1), v))

Get ==
  /\ operandStack # <<>> /\ IsA(Top, {"str"})
  /\ OnStack(Append(Without(1), -Top))

Store ==
  /\ operandStack # <<>>
  /\ frames' = [frames EXCEPT ![Env].vars = Append(@, Top)]
  /\ operandStack' = Without(1)
  /\ UNCHANGED <<objects, callStack, immediates>>

Rebind ==
  /\ operandStack # <<>>
  /\ \E e \in Lineage(Env) : \E i \in DOMAIN frames[e].vars :
       frames' = [frames EXCEPT ![e].vars[i] = Top]
  /\ operandStack' = Without(1)
  /\ UNCHANGED <<objects, callStack, immediates>>

Recur ==
  /\ frames' = [frames EXCEPT ![Env].vars = <<>>]
  /\ UNCHANGED <<objects, callStack, immediates, operandStack>>

SetBox ==
  /\ Len(operandStack) >= 2 /\ IsA(Second, {"box"})
  /\ objects' = [objects EXCEPT ![Second].refs = <<Top>>]
  /\ operandStack' = Without(1)
  /\ UNCHANGED <<frames, callStack, immediates>>

Enter(parent) ==
  \E e \in Environments \ DOMAIN frames :
    /\ frames' = [d \in DOMAIN frames \union {e} |->
                    IF d = e THEN [parent |-> parent, vars |-> <<>>] ELSE frames[d]]
    /\ callStack' = Append(callStack, e)

EnterLet ==
  Enter(Env) /\ UNCHANGED <<objects, immediates, operandStack>>

Call ==
  /\ operandStack # <<>> /\ IsA(Top, {"fn"})
  /\ Enter(objects[Top].env)
  /\ operandStack' = Without(1)
  /\ UNCHANGED <<objects, immediates>>

Leave ==
  /\ Len(callStack) > 1
  /\ callStack' = Front(callStack)
  /\ frames' = Within(Owned(Front(callStack), objects))
  /\ UNCHANGED <<objects, immediates, operandStack>>

\* A new object, with a number n that nothing has.
Made(n, kind, refs, env) ==
  /\ n \in Nat \ {0} /\ n \notin DOMAIN objects
  /\ objects' = [m \in DOMAIN objects \union {n} |->
                   IF m = n THEN [kind |-> kind, refs |-> refs, env |-> env]
                   ELSE objects[m]]

Literal ==
  \E n \in DOMAIN objects' :
    /\ \/ Made(n, "int", <<>>, 0)
       \/ Made(n, "str", <<>>, 0)
       \/ \E v \in ToSet(immediates) : Made(n, "sym", <<v>>, 0)
    /\ immediates' = Append(immediates, n)
    /\ UNCHANGED <<frames, callStack, operandStack>>

Pair ==
  \E n \in DOMAIN objects' :
    /\ Len(operandStack) >= 2
    /\ Made(n, "pair", <<Second, Top>>, 0)
    /\ operandStack' = Append(Without(2), n)
    /\ UNCHANGED <<frames, callStack, immediates>>

Box ==
  \E n \in DOMAIN objects' :
    /\ operandStack # <<>>
    /\ Made(n, "box", <<Top>>, 0)
    /\ operandStack' = Append(Without(1), n)
    /\ UNCHANGED <<frames, callStack, immediates>>

String ==
  \E n \in DOMAIN objects' :
    /\ Made(n, "str", <<>>, 0)
    /\ operandStack' = Append(operandStack, n)
    /\ UNCHANGED <<frames, callStack, immediates>>

\* A function, with its docstring or null, closed over the environment.
Lambda ==
  \E n \in DOMAIN objects', kind \in {"fn", "vfn"} :
    \E doc \in {Null} \union ToSet(immediates) :
      /\ Made(n, kind, <<doc>>, Env)
      /\ operandStack' = Append(operandStack, n)
      /\ UNCHANGED <<frames, callStack, immediates>>

\* A value of a variable, when only the objects of a set stay.
Left(v, keep) == IF v > 0 /\ v \notin keep THEN 0 ELSE v

\* Objects disappear, none of which the program could get to, and with them
\* environments.
Forget(outer) ==
  \E live, keep \in SUBSET DOMAIN objects :
    /\ Reachable(live, outer) /\ live \subseteq keep
    /\ objects' = [n \in keep |-> objects[n]]
    /\ frames' = [e \in Owned(callStack, objects') |->
                    [parent |-> frames[e].parent,
                     vars |-> [i \in DOMAIN frames[e].vars |-> Left(frames[e].vars[i], keep)]]]
    /\ UNCHANGED <<callStack, immediates, operandStack>>

Computing ==
  \/ PushConstant \/ Load \/ Discard \/ Take \/ Get
  \/ Store \/ Rebind \/ Recur \/ SetBox
  \/ EnterLet \/ Call \/ Leave
  \/ Literal \/ Pair \/ Box \/ String \/ Lambda

\* Memory as a program is to see it.
Spec == Init /\ [][Computing \/ Forget(TRUE)]_objectVars

\* Memory that may lose what a function has in an environment above its own.
LossySpec == Init /\ [][Computing \/ Forget(FALSE)]_objectVars
=============================================================================
