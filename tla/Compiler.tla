------------------------------ MODULE Compiler ------------------------------
(***************************************************************************)
(* The EBL compiler: the init pass over the syntax tree (runtime/ast.cpp), *)
(* which resolves names to frame distances and offsets and collects the    *)
(* literals, and the visit pass (runtime/bytecode.cpp), which writes the   *)
(* bytes the machine runs, as Environment::exec and setGlobal drive them,  *)
(* one statement at a time.                                                *)
(***************************************************************************)
EXTENDS Bytecode, Syntax, FiniteSetsExt

-----------------------------------------------------------------------------
(* Scopes.  The compiler's state across statements:                         *)
(*   scopes  the chain of Scopes, the root first                            *)
(*   path    the global namespacePath                                       *)
(*   fns     the global currentFunction: the arity of each open lambda      *)
(*   imms    Context::immediates_, as literals                              *)
(*   ok      FALSE once an exception is on its way out                      *)
(*   pastEnd whether memory behind a string happens to hold what a longer   *)
(*           one goes on with                                               *)

Raise(st) == [st EXCEPT !.ok = FALSE]

Names(scope) == {scope[i].name : i \in DOMAIN scope}

\* Scope::insert; it throws when the name is taken.
Insert(st, name, mut) ==
  LET scope == Last(st.scopes) IN
  IF name \in Names(scope) THEN Raise(st)
  ELSE [st EXCEPT !.scopes[Len(st.scopes)] = Append(scope, [name |-> name, mut |-> mut])]

\* makeNsPatterns: the name in each enclosing namespace, and as written.
MakeNsPatterns(st, name) ==
  {Qualified(SubSeq(st.path, 1, i), name) : i \in 0..Len(st.path)}

Visible(st, patterns) == \E k \in DOMAIN st.scopes : Names(st.scopes[k]) \intersect patterns # {}

\* Scope::find: the first variable of the innermost scope that has a name among
\* the patterns.  The order of the patterns plays no part.
Find(st, patterns) ==
  LET k == Max({j \in DOMAIN st.scopes : Names(st.scopes[j]) \intersect patterns # {}})
      i == Min({j \in DOMAIN st.scopes[k] : st.scopes[k][j].name \in patterns})
  IN  [frameDist |-> Len(st.scopes) - k, offset |-> i - 1,
       topLevel |-> k = 1, mut |-> st.scopes[k][i].mut]

\* T::value() == val.  A string compares the glyphs of the new text only, and goes on
\* behind its own end.
Matches(st, stored, value) ==
  /\ stored.kind = value.kind
  /\ IF value.kind = "str"
     THEN \A i \in DOMAIN value.s :
            IF i \in DOMAIN stored.s THEN stored.s[i] = value.s[i] ELSE st.pastEnd
     ELSE stored = value

PushImmediate(st, value) ==
  [id |-> Len(st.imms) % 65536, st |-> [st EXCEPT !.imms = Append(@, value)]]

\* storeI: the first literal that matches, else a new one, as a 16 bit id.
StoreI(st, value) ==
  LET same == {i \in DOMAIN st.imms : Matches(st, st.imms[i], value)} IN
  IF same # {} THEN [id |-> (Min(same) - 1) % 65536, st |-> st] ELSE PushImmediate(st, value)

\* validateIdentifier: a defined name has no scope operator.
ValidIdentifier(name) == \A i \in DOMAIN name : name[i] # "::"

-----------------------------------------------------------------------------
(* The init pass: InitNode(node, st) is the node with what it caches, and the   *)
(* state after it.                                                          *)

RECURSIVE InitNode(_, _)

RECURSIVE InitAll(_, _)
InitAll(nodes, st) ==
  IF nodes = <<>> \/ ~st.ok THEN [node |-> nodes, st |-> st]
  ELSE LET first == InitNode(Head(nodes), st)
           rest  == InitAll(Tail(nodes), first.st)
       IN  [node |-> << first.node >> \o rest.node, st |-> rest.st]

RECURSIVE StoreLiteral(_, _)

\* A symbol is a reference to a string among the literals.  Lists and pairs are new
\* each time, behind their elements.
StoreLiteral(st, v) ==
  CASE v.kind = "sym" ->
         LET str == StoreI(st, [kind |-> "str", s |-> v.s]) IN
         StoreI(str.st, [kind |-> "sym", s |-> str.st.imms[str.id + 1].s])
    [] v.kind \in {"list", "dotted"} ->
         LET Element(ids, item) ==
               LET e == StoreLiteral(ids.st, item) IN [e EXCEPT !.id = Append(ids.id, @)]
             ids == FoldLeft(Element, [id |-> <<>>, st |-> st], v.items)
         IN  PushImmediate(ids.st, [v EXCEPT !.items = ids.id])
    [] OTHER -> StoreI(st, v)

InitLiteral(node, st) ==
  LET s == StoreLiteral(st, node.value) IN
  [node |-> [k |-> "Literal", cachedVal |-> s.id], st |-> s.st]

InitLValue(node, st) ==
  LET patterns == MakeNsPatterns(st, node.name) IN
  IF Visible(st, patterns)
  THEN [node |-> [k |-> "LValue", name |-> node.name, var |-> Find(st, patterns)], st |-> st]
  ELSE [node |-> node, st |-> Raise(st)]

\* Arguments are inserted last first, the order the body's Stores bind them in.
\* currentFunction is popped on the way out of an exception too.
InitLambda(node, st) ==
  LET doc   == IF node.doc = <<>> THEN [id |-> 0, st |-> st]
                                  ELSE StoreI(st, [kind |-> "str", s |-> node.doc])
      open  == [doc.st EXCEPT !.fns = Append(@, Len(node.args)), !.scopes = Append(@, <<>>)]
      Arg(s, x) == IF ~s.ok THEN s
                   ELSE IF ValidIdentifier(x) THEN Insert(s, x, FALSE) ELSE Raise(s)
      body  == InitAll(node.statements, FoldLeft(Arg, open, Reverse(node.args)))
  IN  [node |-> [k |-> "Lambda", argc |-> Len(node.args), variadic |-> IsVariadic(node.args),
                 documented |-> node.doc # <<>>, docLoc |-> doc.id, statements |-> body.node],
       st   |-> [body.st EXCEPT !.fns = Front(@), !.scopes = Front(@)]]

InitApplication(node, st) ==
  LET f    == InitNode(node.toApply, st)
      args == InitAll(node.args, f.st)
  IN  [node |-> [k |-> "Application", toApply |-> f.node, args |-> args.node], st |-> args.st]

RECURSIVE InitBindings(_, _, _)
InitBindings(binds, mut, st) ==
  IF binds = <<>> \/ ~st.ok THEN [node |-> binds, st |-> st]
  ELSE LET ins  == Insert(st, Head(binds).name, mut)
           val  == IF ins.ok THEN InitNode(Head(binds).value, ins) ELSE [node |-> binds, st |-> ins]
           rest == InitBindings(Tail(binds), mut, val.st)
       IN  [node |-> << val.node >> \o rest.node, st |-> rest.st]

\* Let and LetMut: the scope of the bindings' values is the let's own.
InitLet(node, st) ==
  LET binds == InitBindings(node.bindings, node.mut, [st EXCEPT !.scopes = Append(@, <<>>)])
      body  == InitAll(node.statements, binds.st)
  IN  [node |-> [k |-> "Let", values |-> binds.node, statements |-> body.node],
       st   |-> [body.st EXCEPT !.scopes = Front(@)]]

\* Begin, Or and And.
InitBegin(node, st) ==
  LET body == InitAll(node.statements, st) IN
  [node |-> [k |-> node.k, statements |-> body.node], st |-> body.st]

\* An exception leaves the name on the path.
InitNamespace(node, st) ==
  IF st.fns # <<>> THEN [node |-> node, st |-> Raise(st)]
  ELSE LET body == InitAll(node.statements, [st EXCEPT !.path = Append(@, node.name)]) IN
       [node |-> [k |-> "Namespace", statements |-> body.node],
        st   |-> IF body.st.ok THEN [body.st EXCEPT !.path = Front(@)] ELSE body.st]

InitIf(node, st) ==
  LET parts == InitAll(<< node.condition, node.trueBranch, node.falseBranch >>, st) IN
  [node |-> [k |-> "If", condition |-> parts.node[1], trueBranch |-> parts.node[2],
             falseBranch |-> parts.node[3]],
   st   |-> parts.st]

InitRecur(node, st) ==
  IF st.fns = <<>> \/ Len(node.args) # Last(st.fns) THEN [node |-> node, st |-> Raise(st)]
  ELSE LET args == InitAll(node.args, st) IN
       [node |-> [k |-> "Recur", args |-> args.node], st |-> args.st]

\* The name is inserted before the value is looked at.
InitDef(node, st) ==
  LET ins == IF ValidIdentifier(node.name) THEN Insert(st, Qualified(st.path, node.name), node.mut)
                                           ELSE Raise(st)
      val == IF ins.ok THEN InitNode(node.value, ins) ELSE [node |-> node, st |-> ins]
  IN  [node |-> [k |-> "Def", value |-> val.node], st |-> val.st]

InitSet(node, st) ==
  LET patterns == MakeNsPatterns(st, node.name) IN
  IF ~Visible(st, patterns) \/ ~Find(st, patterns).mut
  THEN [node |-> node, st |-> Raise(st)]
  ELSE LET val == InitNode(node.value, st) IN
       [node |-> [k |-> "Set", var |-> Find(st, patterns), value |-> val.node], st |-> val.st]

InitNode(node, st) ==
  CASE node.k = "Literal"     -> InitLiteral(node, st)
    [] node.k = "LValue"      -> InitLValue(node, st)
    [] node.k = "Lambda"      -> InitLambda(node, st)
    [] node.k = "Application" -> InitApplication(node, st)
    [] node.k = "Let"         -> InitLet(node, st)
    [] node.k \in {"Begin", "Or", "And"} -> InitBegin(node, st)
    [] node.k = "Namespace"   -> InitNamespace(node, st)
    [] node.k = "If"          -> InitIf(node, st)
    [] node.k = "Recur"       -> InitRecur(node, st)
    [] node.k = "Def"         -> InitDef(node, st)
    [] node.k = "Set"         -> InitSet(node, st)
    [] OTHER                  -> [node |-> node, st |-> st]

-----------------------------------------------------------------------------
(* The visit pass.  BytecodeBuilder:                                        *)
(*   data      data_, the bytes written so far                              *)
(*   lets      fnContexts: letCount_ of each function being compiled        *)
(*   outcome   "ok", "throws", or "undefined" after a pop_back of nothing   *)

Builder(lets) == [data |-> <<>>, lets |-> lets, outcome |-> "ok"]

Write(b, bytes)  == [b EXCEPT !.data = @ \o bytes]
WriteOp(b, op)   == Write(b, << Encode(op) >>)
WriteOp8(b, op, n)  == Write(b, << Encode(op), n % 256 >>)
WriteOp16(b, op, n) == Write(b, << Encode(op) >> \o Bytes16(n))

\* data_.pop_back(), meant for the Discard after the last statement.
PopBack(b) ==
  IF b.data = <<>> THEN [b EXCEPT !.outcome = "undefined"] ELSE [b EXCEPT !.data = Front(@)]

\* *jumpOffset = n: overwrites the two bytes at index loc, now whatever they are.
Patch(b, loc, n) ==
  IF n > 65535 THEN [b EXCEPT !.outcome = "throws"]
  ELSE [b EXCEPT !.data[loc] = Bytes16(n)[1], !.data[loc + 1] = Bytes16(n)[2]]

RECURSIVE Visit(_, _)

RECURSIVE VisitAll(_, _)
VisitAll(nodes, b) ==
  IF nodes = <<>> \/ b.outcome # "ok" THEN b ELSE VisitAll(Tail(nodes), Visit(Head(nodes), b))

\* Each statement's value is discarded.
RECURSIVE VisitStatements(_, _)
VisitStatements(nodes, b) ==
  IF nodes = <<>> \/ b.outcome # "ok" THEN b
  ELSE VisitStatements(Tail(nodes), WriteOp(Visit(Head(nodes), b), "Discard"))

\* ... but the last one's.
VisitBody(nodes, b) ==
  LET body == VisitStatements(nodes, b) IN
  IF body.outcome = "ok" THEN PopBack(body) ELSE body

VisitLiteral(node, b)   == WriteOp16(b, "PushI", node.cachedVal)
VisitUserValue(node, b) == WriteOp16(b, "PushI", node.id)

VisitLValue(node, b) ==
  LET dist == node.var.frameDist
      off  == node.var.offset
  IN  CASE dist = 0 /\ off < 256  -> WriteOp8(b, "Load0Fast", off)
        [] dist = 0 /\ off >= 256 -> WriteOp16(b, "Load0", off)
        [] dist = 1 /\ off < 256  -> WriteOp8(b, "Load1Fast", off)
        [] dist = 1 /\ off >= 256 -> WriteOp16(b, "Load1", off)
        [] dist = 2 -> WriteOp16(b, "Load2", off)
        [] OTHER    -> Write(WriteOp16(b, "Load", dist), Bytes16(off))

VisitSet(node, b) ==
  LET value == Visit(node.value, b) IN
  WriteOp(Write(WriteOp16(value, "Rebind", node.var.frameDist), Bytes16(node.var.offset)),
          "PushNull")

\* The lambda instruction and a Jump over the body.
VisitLambdaHead(node, b) ==
  LET op   == IF node.variadic THEN "PushVariadicLambda"
              ELSE IF node.documented THEN "PushDocumentedLambda" ELSE "PushLambda"
      head == WriteOp8(b, op, node.argc)
  IN  WriteOp16(IF node.documented THEN Write(head, Bytes16(node.docLoc)) ELSE head, "Jump", 0)

\* Both kinds of lambda.  A documented variadic one throws.
VisitLambda(node, b) ==
  IF node.variadic /\ node.documented
  THEN [b EXCEPT !.outcome = "throws", !.lets = Append(@, 0)]
  ELSE LET head    == VisitLambdaHead(node, [b EXCEPT !.lets = Append(@, 0)])
           jumpLoc == Len(head.data) - 1
           stores  == Write(head, [i \in 1..node.argc |-> Encode("Store")])
           body    == VisitBody(node.statements, stores)
       IN  IF body.outcome # "ok" THEN body
           ELSE LET ret == WriteOp(body, "Return") IN
                [Patch(ret, jumpLoc, Len(ret.data) - 2 - (jumpLoc - 1))
                   EXCEPT !.lets = Front(@)]

\* Calls of the four functions the machine has instructions for, recognised by the
\* name written, when the name is one of the top level.
Inlined == [n \in {"cons", "car", "cdr", "null?"} |->
              CASE n = "cons" -> [op |-> "Cons", argc |-> 2]
                [] n = "car"  -> [op |-> "Car", argc |-> 1]
                [] n = "cdr"  -> [op |-> "Cdr", argc |-> 1]
                [] n = "null?" -> [op |-> "IsNull", argc |-> 1]]

IsInlined(f) ==
  /\ f.k = "LValue" /\ f.var.topLevel
  /\ Len(f.name) = 1 /\ f.name[1] \in DOMAIN Inlined

VisitApplication(node, b) ==
  IF IsInlined(node.toApply)
  THEN LET fn == Inlined[node.toApply.name[1]] IN
       IF Len(node.args) # fn.argc THEN [b EXCEPT !.outcome = "throws"]
       ELSE WriteOp(VisitAll(node.args, b), fn.op)
  ELSE WriteOp8(Visit(node.toApply, VisitAll(node.args, b)), "Call", Len(node.args))

\* The count of lets only matters in a function.
CountLet(b, n) ==
  IF b.lets = <<>> THEN b ELSE [b EXCEPT !.lets[Len(b.lets)] = @ + n]

RECURSIVE VisitBindings(_, _)
VisitBindings(values, b) ==
  IF values = <<>> \/ b.outcome # "ok" THEN b
  ELSE VisitBindings(Tail(values), WriteOp(Visit(Head(values), b), "Store"))

VisitLet(node, b) ==
  LET binds == VisitBindings(node.values, WriteOp(CountLet(b, 1), "EnterLet"))
      body  == VisitBody(node.statements, binds)
  IN  CountLet(WriteOp(body, "ExitLet"), -1)

VisitNamespace(node, b) == VisitBody(node.statements, b)

VisitBegin(node, b) == VisitBody(node.statements, b)

VisitIf(node, b) ==
  LET cond == WriteOp16(Visit(node.condition, b), "JumpIfFalse", 0)
      loc1 == Len(cond.data) - 1
      true == WriteOp16(Visit(node.trueBranch, cond), "Jump", 0)
      loc2 == Len(true.data) - 1
      both == Visit(node.falseBranch, true)
  IN  IF both.outcome # "ok" THEN both
      ELSE LET first == Patch(both, loc1, loc2 - loc1) IN
           IF first.outcome # "ok" THEN first
           ELSE Patch(first, loc2, Len(both.data) - 2 - (loc2 - 1))

VisitDef(node, b) == WriteOp(WriteOp(Visit(node.value, b), "Store"), "PushNull")

\* Mutant: the lets around the recur stay open.
RecurInLet(node, b) == WriteOp(VisitAll(node.args, b), "Recur")

\* The lets between the recur and its function are closed first.
VisitRecur(node, b) ==
  LET args == VisitAll(node.args, b) IN
  WriteOp(Write(args, [i \in 1..Last(b.lets) |-> Encode("ExitLet")]), "Recur")

Visit(node, b) ==
  IF b.outcome # "ok" THEN b ELSE
  CASE node.k = "Literal"     -> VisitLiteral(node, b)
    [] node.k = "UserValue"   -> VisitUserValue(node, b)
    [] node.k = "Null"        -> WriteOp(b, "PushNull")
    [] node.k = "True"        -> WriteOp(b, "PushTrue")
    [] node.k = "False"       -> WriteOp(b, "PushFalse")
    [] node.k = "LValue"      -> VisitLValue(node, b)
    [] node.k = "Set"         -> VisitSet(node, b)
    [] node.k = "Lambda"      -> VisitLambda(node, b)
    [] node.k = "Application" -> VisitApplication(node, b)
    [] node.k = "Let"         -> VisitLet(node, b)
    [] node.k = "Namespace"   -> VisitNamespace(node, b)
    [] node.k = "Begin"       -> VisitBegin(node, b)
    [] node.k = "If"          -> VisitIf(node, b)
    [] node.k = "Def"         -> VisitDef(node, b)
    [] node.k = "Recur"       -> VisitRecur(node, b)
    [] node.k \in {"Or", "And"} -> [b EXCEPT !.outcome = "throws"]

-----------------------------------------------------------------------------
(* Statements and sessions *)

\* The annotation of code, by one pass in address order (all jumps but Recur's go
\* forward): reached holds the instructions known to be reachable.
RECURSIVE ShapeFrom(_, _, _)
ShapeFrom(code, a, reached) ==
  IF a > Len(code) THEN <<>>
  ELSE LET here == {t \in reached : t.to = a}
           x    == IF here = {} THEN NoShape ELSE (CHOOSE t \in here : TRUE).shape
           fits == /\ here # {} /\ Decode(code[a]) \in Opcodes
                   /\ a + Width(Decode(code[a])) - 1 <= Len(code)
       IN  << x >> \o ShapeFrom(code, a + 1,
                         (reached \ here) \union (IF fits THEN Successors(code, a, x) ELSE {}))

ShapeOf(code, body) ==
  ShapeFrom(code, 1,
    {[to |-> 1, shape |-> [body |-> body, at |-> 0, depth |-> 0, height |-> 0]]})

\* The compiler before the first statement, its globals empty.  lets is the global
\* fnContexts, which an exception in visit leaves as it is.
NewCompiler(pastEnd) ==
  [scopes |-> << <<>> >>, path |-> <<>>, fns |-> <<>>, imms |-> <<>>, ok |-> TRUE,
   pastEnd |-> pastEnd]

\* What a host asks for: a statement of a source text, or a value to bind to a
\* name, in a namespace unless that is empty.
Statement(ast, last) == [kind |-> "exec", ast |-> ast, last |-> last]
Global(ns, name, value) == [kind |-> "setGlobal", ns |-> ns, name |-> name, value |-> value]

\* makeUoDef: the value becomes an immediate without a look for an equal one.
MakeUoDef(st, item) ==
  LET def == Def(item.name, UserValue(Len(st.imms))) IN
  [node |-> IF item.ns = <<>> THEN def ELSE Namespace(item.ns, << def >>),
   st   |-> [st EXCEPT !.imms = Append(@, item.value)]]

\* result(), which appends Exit.  Only setGlobal without a namespace discards the
\* value first.
Finish(item, built) ==
  WriteOp(IF item.kind = "setGlobal" /\ item.ns = <<>> THEN WriteOp(built, "Discard") ELSE built,
          "Exit").data

MakeChunk(item, outcome, code, lits) ==
  [kind |-> item.kind, outcome |-> outcome, last |-> item.kind = "exec" => item.last,
   code |-> code, shape |-> ShapeOf(code, item.kind), lits |-> lits]

\* The chunk of a statement whose tree the init pass leaves as tree; no code if it
\* does not compile.
Build(item, old, tree, built) ==
  LET outcome == IF tree.st.ok THEN built.outcome ELSE "throws" IN
  [st    |-> tree.st,
   chunk |-> MakeChunk(item, outcome, IF outcome = "ok" THEN Finish(item, built) ELSE <<>>,
                       SubSeq(tree.st.imms, Len(old.imms) + 1, Len(tree.st.imms)))]

VisitTree(tree) == IF tree.st.ok THEN Visit(tree.node, Builder(<<>>)) ELSE Builder(<<>>)

InitItem(item, src) == InitNode(src.node, src.st)

WithTree(item, st, tree) == Build(item, st, tree, VisitTree(tree))

\* One statement: init, visit, result.
CompileItem(item, st) ==
  WithTree(item, st, InitItem(item,
    IF item.kind = "exec" THEN [node |-> item.ast, st |-> st] ELSE MakeUoDef(st, item)))

\* A session's chunks, up to the first statement that does not compile.
RECURSIVE Compile(_, _)
Compile(items, st) ==
  IF items = <<>> THEN <<>>
  ELSE LET r == CompileItem(Head(items), st) IN
       << r.chunk >> \o (IF r.chunk.outcome = "ok" THEN Compile(Tail(items), r.st) ELSE <<>>)
=============================================================================
