# A specification of the EBL runtime

EBL (`src/README.md`) is a small Lisp: a parser, a two-pass compiler to
bytecode, a stack machine, a mark-compact collector, and a C++ embedding
interface through which builtins and DLLs call back into the machine.  This
directory models it in TLA+: what TLC checks is listed under *Runs*, what TLAPS
proves under *Proofs*.  Paths are relative to the repository; `file.cpp:N` is
below `src/runtime/` when nothing else is said.

## 1. The system

| component | state | operations | what makes it correct |
|---|---|---|---|
| Lexer, parser (`lexer.*`, `parser.*`) | position in the text, `inputBuffer_`, the flag for strings; the C++ stack of parse functions | `lex`; a function for each form; `ThrowClosing` and `ThrowEOF`, which end lists of statements and the text | the tree the text says, an exception for anything else; no form is dropped; it comes to an end |
| Compiler, first pass (`ast.*`) | chain of `Scope`s, `namespacePath`, `currentFunction`, `Context::immediates_` | `init` of each node class, `Scope::insert` and `find`, `storeI` | a name is resolved to the frame distance and offset at which the machine will have its value |
| Compiler, second pass (`bytecode.*`) | `BytecodeBuilder::data_`, `fnContexts` | `visit` of each node class, `result` | the code leaves each stack as the machine, which checks nothing, relies on; it computes what the source means |
| Virtual machine (`vm.cpp`) | `program_`, `operandStack_`, `callStack_`, locals `ip` and `env` | one handler per opcode | it stays within its stacks; the environment that runs is one the collector knows |
| Native calls (`types.*`, `environment.cpp`) | `Arguments` (an index and a count into the operand stack) | `Function::call` in its variants, `directCall`, `exec`, `setGlobal` | a C++ caller finds the stacks as it left them, whatever ran in between |
| Builtins (`builtins.cpp`) | none of their own | 40 functions; `apply`, `load`, `eval`… enter the machine again | as above; arithmetic within 32 bits |
| Environments, context (`environment.*`, `pool.hpp`) | frames `vars_` and `parent_`, top level, literals | `push`, `store`, `load`, `derive`, `create` | a frame has the variables its scope says it has |
| Collector, heap (`gc.*`, `memory.*`) | the heap's bytes, mark bits, break list, `frameSet` | `alloc`, `mark`, `compact` | every value the program can still reach survives, unchanged up to its address, and every reference follows it |
| Persistent handles, list builders (`persistent.*`, `listBuilder.*`) | a doubly-linked list of roots; head and tail of a list | construct, copy, destroy; push, pop | every live handle is on the list the collector walks |
| Bytecode files (`environment.cpp:164`) | a file | `writeToFile`, `loadFromFile` | a file that was written loads as the program it was |
| DLLs, host programs (`dll.*`, `src/dll/*`, `src/tools/*`) | handles of loaded libraries | `setGlobal` of their functions; `main` | as any other host |

**How they interact.**  Everything happens on one thread.  A host calls
`Environment::exec` with a text; `exec` parses it and, statement by statement,
runs the first pass (which grows the scopes and the literals), the second
(which appends bytes to the one `program_` of the context) and `VM::execute`.
The machine calls builtins as C++ functions, and some builtins call
`Function::call` or `exec`, which call `VM::execute` again: the activations of
C++ and of bytecode are interleaved on the same operand stack and call stack,
each C++ call knowing its part only by an index.  Every allocation may run the
collector, whose roots are the environments in the call stack, the literals, the
operand stack and the persistent handles, and nothing that a C++ local holds.
An exception unwinds C++ calls to `main` but neither of the two stacks, except
for what `~Arguments` takes off.

**What is hard.**  Nothing checks the stacks while the machine runs, so one
operand too many or a let left open shows up far away.  Re-entrance puts
several machines on one pair of stacks.  Code is compiled and appended while
code is running.  Exceptions stop half way.  The collector moves values that
C++ code may hold.  `PROJECT.json` lists these hazards line by line.

## 2. The modules

| module | what it is | code |
|---|---|---|
| `Syntax` | syntax trees, which the parser makes and the compiler takes | `ast.hpp` |
| `Lexer` | `Lexer::lex`, one glyph a step | `lexer.*` |
| `Parser` | the parser, one token a step, from any tokens | `parser.cpp` |
| `Reader` | the parser with its lexer: `parse(code)` | `parser.cpp:572` |
| `Grammar` | what a text says: words, then data, then trees | the reference for `Reader` |
| `Bytecode` | the instruction set: encoding, widths, effect of each instruction on the stacks; the *discipline* of code | `bytecode.hpp`, the operand counts of `vm.cpp` |
| `Values` | the objects of the heap, and what each builtin that only computes makes of its arguments: one of them or a part of one, a new object, an exception, undefined behaviour | `builtins.cpp`, `types.cpp` |
| `VM` | the machine and the C++ code around it, one action per handler, per path through `Function::call`, per step of `exec`, per builtin that enters the machine | `vm.cpp`, `types.cpp`, `environment.cpp`, `builtins.cpp` |
| `StackDiscipline` | the properties of `VM` and the invariant that shows them | |
| `Compiler` | both passes, from syntax tree to bytes, as operators | `ast.cpp`, `bytecode.cpp`, `exec` and `setGlobal` |
| `Semantics` | what a program means: an evaluator by names, without addresses, offsets or stacks | the reference for `Compiler` and `VM` |
| `SourcePrograms`, `SourceSessions` | sessions given as syntax trees; the comparison of machine and meaning | |
| `SmallPrograms` | every program of a small grammar | |
| `MCReader`, `MCVM`, `MCHoles` | the texts and programs TLC runs | |
| `MarkCompact` | the heap, all that the collector reads, and the collector, one step per value marked, object slid, object remapped | `gc.cpp`, `memory.hpp`, `persistent.*` |
| `Mutator` | the program that uses the heap: allocation, and the ways in which the machine, the builtins and the compiler's literals create, read, write and drop references; list builders, also one within another | `environment.*`, `vm.cpp`, `builtins.cpp`, `listBuilder.*`, `ast.cpp` |
| `Objects` | the abstract specification: memory without addresses, where unreachable objects may disappear at any time | the reference |
| `Collection` | the properties of the collector; that `Mutator` implements `Objects` | |
| `MCCollector` | heaps and programs for TLC | |
| `CollectorProofs`, `ReferenceProofs`, `RefinementProofs` | the inductive invariant of heap, references and collector; the proofs about the heap, the references, and the refinement | |
| `InstructionProofs`, `VMProofs`, `CallerProofs` | the proofs about the machine | |
| `ParserProofs` | the proofs about the parser and its reader | |
| `DataLemmas` | lemmas about sequences, sets and natural numbers for the proofs | |

**The machine.**  Code is a sequence of bytes and values are indices of a heap of records, so
that `VM` is the machine to the byte: an operand that is off by one, a jump
that is patched two bytes early or a name resolved one frame too far is
visible.  Addresses of the C++ program are one less than the indices here.
`host` stands for the C++ stack: one record per active `exec`, `setGlobal` or
builtin, with the `Arguments` it owns, the `Arguments` it builds, and the
locals of the `VM::execute` that waits for it.  `mode` says what the thread is
doing.  Undefined behaviour (a pop of an empty vector, a variable that a frame
does not have, a byte that is no opcode) stops the model with a `fault` that
names it; an exception is `mode = "unwind"`, which runs the destructors of one
C++ call per step and ends in `main`, as `tools/dofile.cpp` does.

Two variables have no counterpart in the code.  `site` says for each entry of
the call stack to which activation it belongs: its body, the number of open
lets, the operands below it, the C++ call that started it.  `shape` annotates
the program: for the first byte of each reachable instruction the body it
belongs to, the distance from the body's start, the open lets and the operands
on the stack.  `Bytecode!Disciplined` says that the annotation is consistent,
instruction by instruction.  It is what the compiler must achieve and all that
the machine needs; the code states it nowhere.

The compiler enters `VM` as the constant `Sessions`: sequences of compiled
statements, each with its bytes, literals and annotation, or with the failure
of its compilation.  That makes the machine's theorems independent of the
compiler: they are about any session, and say what is true of it for as long as
the statements it has compiled so far are disciplined (`CodeDisciplined`).  That
`Compiler` produces such statements is checked program by program, by the runs.

`Values!Computed` is a function of the heap and the arguments, so that the
machine and the evaluator of `Semantics` share it: it is not what `MeansSource`
is about, except that the machine gives it the right arguments in the right
order and stores, throws or stops as it says.  Its integers end at `MaxInteger`;
what leaves them, and a division by zero, is the fault `arithmetic`.  Floats are
digits: they are read, stored and compared, and arithmetic of theirs is left
out.  A quoted list or pair is one object of the machine, with the literals it
was made of; no session takes one apart.  `storeI` shares a literal with an earlier one that is
equal, and `String::operator==` (`types.cpp:146`) compares the glyphs of the new text
only: an earlier `"ab"` becomes the value of a later `"a"`, and for a later `"abc"` the
comparison goes on behind the end of `"ab"`, with either outcome (`pastEnd`).
`Compiler!Matches` does the same.  Of the strings in one session none begins another, so that
`MeansSource` is not about this.

**The parser.**  Its state is the C++ stack: `stack` has a frame for each form that is being
read, with the tree built so far and the function that builds it.  Two
exceptions steer it.  `ThrowClosing`, for a parenthesis where a statement
should be, ends a list of statements; which one depends on the `try` blocks in
the functions above, for it passes through those of fixed arity, whose form is dropped
on the way.  `ThrowEOF` ends `parse`, and is the normal end of a text.
`read` and `cut` are no part of the code: the tokens so far, and the forms dropped by a
parenthesis.  `Parser` takes any tokens, which is what its theorems are
about; `Reader` takes them from `Lexer` (`ReadsTokens`: `Reader` implements
`Parser`), so that they are about texts as well.  A text is a sequence of glyphs, some of which stand for whole
words: the lexer looks at one character at a time and tells apart only
parentheses, blanks, quotes, backslash, semicolon, dot, digits and the letters
of an escape; a special form's name is one glyph, because nothing cuts it.
`Grammar` says the same text's trees in three passes, none of which needs
an exception: words, data by matching parentheses, trees.

**The collector.**  `VM` has a heap that only grows, and `Mutator` a machine
without code: it takes any operation at any time, so that a collection
meets every heap the operations can build, and what an operation does to the
stacks is reduced to where its references are.  That is what matters to
a collector that moves: the machine's `Cons` gives `create` references *into*
the operand stack and takes the operands off afterwards; a builtin gives copies
of its arguments; a list builder has a handle for the front of its list and a
plain pointer to its back; the loop of a variadic call tests `fn`, a plain
pointer, after each element.  `native` holds what C++ code has in its hands while
the collector runs, and `native.outer` the builders that wait for it: a quoted
list in a quoted list is built by a builder of its own (`QuoteWithin`, `ast.cpp:182`),
with a handle above that of the outer list, which stays the head of the list of
handles when it is destroyed (`Destroyed`, `persistent.cpp:20`).  From then on no
collection follows the outer list.

Memory is a function from start addresses to objects.  A reference is an
address with a ghost, the number of the object it was made for: `Valid` says
that this object lies there.  The program never looks at the ghost; the
model stops with a fault (`dangling`, `stale`, `handle`) where the C++ program
would go on with whatever lies at the address, and with `shifted` where the collector
makes a good reference a bad one (below).  So every property is about the
program up to its first fault, and `FaultsTraced` says which faults there are.  Three normalisations keep the
state space finite and change nothing the program can see: numbers of objects
that are gone are used again; a reference to an object that is gone has the
address `Nowhere` from then on; and an environment that nothing leads to is
`Free` and can be derived again, which is when its `shared_ptr` would free it (the
destructor of a collected function does not run, so in C++ some are leaked).

A character lies in the storage of its string, a buffer of its own
(`types.cpp:130`), which `malloc` may put below the heap or above it.  References
to characters have the address `Below` or `Above`; each reading of a character
chooses (`Get`), which is more than a program can meet: the buffer of one string is on one
side.  `remapValueAddress` does not ask whether an address is in the heap.  Of one that is
below no gap is subtracted; of one that is above, all of them, and the reference
leads into the middle of something.  This is the fault `shifted` (`LoseCharacter`),
at which the collection stops.  `Storage` says on which sides buffers may be: both
in every run, `{Below}` in the one theorem that needs it.

`Objects` says what a program may rely on.  A value is the number of an
object; each operation has the effect its documentation gives it; and there is
`Forget`, by which objects disappear that cannot be reached from literals,
operands and the environments of the call stack; a variable with such an object
is empty then, and cannot be loaded.  There are two such memories.  In `Spec` an
environment, of the call stack or of a function, counts *with its parents*
(`Forget(TRUE)`), as the language has it.  In `LossySpec` it counts alone
(`Forget(FALSE)`): an object may disappear that only a variable above has.
The refinement `Unnoticed` is of the first, `OnlyOuterLost` of the second.
Both read off each reference the number of the object
that lies at its address; off a variable, what it was stored for, if that is
there, since `Load` compares.  So they fail when the collector drops what is
reachable, when it moves an object and not all references with it, when it
overwrites one object with another, and when an operation uses an address from
before a collection; all of it over sequences of collections.

## 3. Runs

| run | question | bounds | states |
|---|---|---|---|
| `sessions` | Do whole sessions stay within their stacks, leave native callers alone, come to an end, and compute what their source means? | *every* program `(def-mut a 1) e`, `e` two nested forms out of eight over `false` and the variables in scope, and all loops with `recur` under two forms; written sessions: closures, variadic and documented functions, loops under lets, `apply` of closures, of builtins and of itself, `load` in the middle of an expression and inside `apply`, namespaces, globals of a DLL, every kind of literal, and every way an exception can start; the computing builtins on values of every type and integers of either sign | 31507 |
| `texts` | Is what the parser makes of a text what its parentheses say, is nothing lost, does it end? | every text of at most 4 glyphs of 11; the beginning of each form, alone or in a `begin`, with 6 words out of `(`, `)`, `n`; 4 words behind a quoted list; bodies with strings, characters and floats, floats that `stod` does not take (`MaxDigits`) | 519188 |
| `holes` | Is a broken discipline the only way to undefined behaviour on a stack, and which programs break it? | programs for which the compiler fails to keep it, arithmetic that overflows, and all the small programs | 23508 |
| `offsets` | A statement of a comment that the code does not bear out | part of the programs of `holes` | – |
| `lists` | Is the heap in order, and memory what `Objects` says, through any sequence of collections? | 7 words, pairs of 2 words, one variable, two operands | 26725 |
| `functions` | The same for functions made at the top level, calls, `recur`, lets, `set`, docstrings | 5 words, 3 environments, two operands, one literal | 73483 |
| `closures` | For functions made anywhere, with `set` and `recur`: is all that is marked also remapped, what becomes of what is not marked, is that all the program can notice, does each step of a collection leave less to do? | 5 words, 3 environments, one operand | 203355 |
| `natives` | The same for builtins, boxes (cycles), characters on both sides of the heap; does each collection end, and where may the program stop? | 3 words, two operands, one variable | 61981 |
| `builders` | What do the handles of list builders keep, lists within lists included, and where may the program stop? | 6 words, three operands, three literals, which also bounds how deep lists are and how long | 2764898 |
| `closure_variables`, `older_handles`, `native_arguments` | Three statements of the documentation and of comments that the collector does not bear out | those of `closures`, `builders`, `natives` | – |

For the machine the bounds are programs, not numbers: it is deterministic, so a
session is one behaviour, and what matters is which situations the programs
bring about.  Of the written sessions of `sessions` there is one per mechanism and several per pair of
mechanisms that share state.  Two nested forms are enough for the small programs:
each form occurs as each part of each other form, where the compiler's
state (offsets, jumps, counts of lets) is passed from one to the other; loops
need three, so they have a grammar of their own.  Frames stay below 256
variables and literals below 65536: the wide forms of loads are in the model
but their bounds are beyond a run.  `MaxInteger` is 100: the products of the sessions stay
below it, those of `holes` do not.

For `texts`, four glyphs are enough for each glyph in each state of the
lexer and for a token behind it.  Six words behind the beginning of a form close it, leave it
open, or close more than it, with a form or an empty one inside, at every place at which
its functions expect something; the second beginning puts it where a parenthesis
that is too many ends another list.  `MaxTokens` (100) is never reached;
`MaxInteger` is 10, so that `11` throws, and `MaxDigits` is 1, so that `10.0` and
`0.01` stand for floats beyond the range of a double.

For the collector the bounds are sizes.  A run of the program is endless: room,
numbers and environments are used again, and each run goes through any number
of collections.  Seven words hold three pairs and the null value: enough for
two gaps next to each other, two gaps apart with a survivor in between, and
a survivor behind both, which are the cases of the break list.  Objects of one
and of two words give gaps of different sizes in `functions`, `closures`,
`natives` and `builders`.  Three literals are what a list takes that has a list for
an element and something behind it.  Three environments are what a closure needs that outlives its maker
and has a parent other than the top level.  `Ops`, the operations of a
program, is split between the runs by where their references are during a
collection.

Every run has `CHECK_DEADLOCK FALSE`, because a text and a session end: with the host
idle, with the process gone, or in undefined behaviour (`Finishes` says that it
does end), and a program on a heap ends when the heap is full of what can be
reached, or in undefined behaviour.

**What the properties say.**
`Discipline` relates the four things the code keeps apart: each entry of the
call stack belongs to a let, a call, or the start of a `VM::execute`, and the
activation below it can go on at its return address with exactly the operands
its code expects.  `StacksHold`, `EnvironmentsRooted`: no stack is popped
empty, no byte that is no opcode is run, and the environment in each `env` local
of a `VM::execute` is in the call stack, the only place where the collector
looks.  `CallersUndisturbed`: while a C++ call lasts, its arguments, the operands
below and the entries of its caller are not touched.  `MeansSource`: the result of
a session is the meaning of its source, and it ends in an exception exactly when
the meaning is an error.  `ProgramDisciplined`: what was appended to the program
so far is disciplined, except in the sessions of `Holes`.  `FaultsForetold`: when the machine runs off a stack or
into a byte that is none, a statement had been appended whose annotation is
inconsistent.  (The whole program's is consistent when those of its statements
are: `ConcatDisciplined`.)

`Nesting`: as many parentheses are open in the text as there are frames, and forms cut
short.  `NothingLost`: `parse` returns at the end of the text only, with no form
open, unless a parenthesis without a partner was read or a form was incomplete;
the code takes the exception of any closing parenthesis for the end of the innermost
list of statements, at the top level the end of the text, so that it might
well return early and drop the rest.  `FollowsGrammar`: a text that
`Grammar` takes for a program gives the same trees, and the parser takes
nothing else for one, where neither of these has misled it.

`HeapTiled`: from `begin_` to `end_` the heap is objects without gap or
overlap, and in the middle of sliding it is so up to the gap and from
the gap on.  `Reclaimed`: after a collection there is nothing but what the
collector's own roots reach and strings kept for a character, and no mark
is left over.  An object is reached if it is in every set of objects that has
those of the roots and, with an object, those it leads to (`Closed`).
`RefsValid`: whatever the collector keeps, it keeps up: outside of `compact` no
reference on the operand stack, among the literals, in the environments of the
call stack, in an object or in the environment of a function is bad.  It holds
for closures as well, whose defect (finding 2) is in what is *not* kept; and for
list builders, because a list that a lost handle had stops the model before it gets
to any of these places.
`Unfaulted`: a program without closures (`FlatProgram`), in which moreover no
C++ code holds references of its own while it creates something, and whose
characters, if it reads any, are below the heap (`PlainProgram`), never meets a
reference that was lost.  `FrontKept`: the newest handle, while it lives, has its
value whatever is allocated.  That is the list of a variadic call, and that of a
quoted list until an element of it is a list; of the handles before the newest it says nothing,
and `HandlesKeep`, which does, is false (finding 3).
`FaultsTraced`: a program of *any* operations of the model stops in no other way than
these, and each of them needs what it says.
`dangling`: a variable that is lost is in an environment that is neither on the
call stack nor that of any function (`OutOfSight`); or a quoted list that had a list for an
element, and lost it, becomes a literal.  The second does not come up in the runs: the
push of the inner list, which comes before, meets the lost back pointer first.
`stale`: a creation after a collection, by code that copies references (`Copies`); a
push behind a back pointer, or the test of a variadic call by way of `fn`, that a
collection has not followed.
`handle`: the head of the list of handles is destroyed, which needs a list that was built.
`shifted`: a character is above the heap, and something in the heap went.
`CollectionEnds`: a collection ends, on cyclic values too, or at `shifted`.  `EachStepAdvances` says why: a step
of a collection goes to a later phase, or leaves fewer objects or words ahead, or
fewer values to visit.  `Unnoticed`, `OnlyOuterLost`: the refinements of section 2.
`OnlyOuterLost` says how far finding 2 goes: whatever a program with closures
computes without a variable above the environment of a function, it computes
right, and an environment that is on the call stack loses nothing even there.

**What was found.**  Four statements of the documentation are not true of the
code; each is a run that TLC must find violated.
1. `environment.cpp:86`: the compiler does not validate offsets: a definition in
   a branch not taken, or a `let` that reads the name it binds, loads past the
   end of the frame (`offsets`).
2. `gc.cpp:43`: of a function, the variables of its own environment are marked
   and not those of the environments above, although the function can name
   them; in a closure two levels deep they are collected
   (`closure_variables`; `README.md:9`).
3. `gc.cpp:64`: the handles are walked from the newest along `next_`, which is
   null: the older ones are neither marked nor remapped (`older_handles`;
   `persistent.hpp:5`).  A variadic call has two.  `dolist` (`builtins.cpp:14`)
   also has two and is not modelled.
4. `builtins.cpp:145`: arguments are copied before `create` collects
   (`native_arguments`; `persistent.hpp:9`).

The models show more, which have no run of their own:
`parser.cpp`, a form of fixed arity that is incomplete, as in
`(begin (if a) b)`, ends not only itself but the list it is in, and the
parenthesis of that list then ends the next one out (`cut`);
`types.cpp:146`, a string literal is shared with an earlier one that begins with it, and
for a longer one the comparison reads past the end of the earlier;
`builtins.cpp:600` and `606`, `get-attr` and `set-attr` require one argument and read
two and three;
`builtins.cpp:252`, `arity` counts the `...` of a variadic function, which requires one
less;
`bytecode.cpp:254`, a `begin`, `let` or `lambda` without statements makes `visit`
remove a byte that is no `Discard` (programs `EmptyBodies` of `holes`);
`types.cpp:52`, when a function called by `Function::call` throws, the count of its
`Arguments` is not cleared and they are taken off twice (`Thrown`);
`bytecode.hpp:57` says that `EnterLet` does not push on the call stack, which it
does, and the collector depends on it;
`persistent.cpp:20`, the head of the list of handles is never moved back and
outlives its handle (the fault `handle` of `builders`);
`vm.cpp:181`, a variadic call goes on reading `fn` after the collections of its own
list (`FnLost`);
`ast.cpp:182`, a quoted list with a list in it loses its own list to a collection
during or after the inner one (`QuoteWithin`, and `older_handles`);
`gc.cpp:76`, every address is remapped as if it were in the heap, so that a reference to a
character above it is moved whenever something in the heap goes, although `gc.cpp:162` keeps the
string for it (the fault `shifted` of `natives`);
`gc.cpp:164`, the mark of a character is never cleared, so its string is never
collected (`charMarks` only grows).

Because of 2 to 4 and of `shifted`, both refinements are about programs that stop where the fault
occurs, `Unnoticed` only about those without closures, and neither about
`builders`: a list whose older handle was lost is no longer what either memory promises.

**Fairness.**  `VM!Spec` has `WF_vars(Next)`: the program is one thread and never
waits for anything, so as long as it can take a step it takes one.  Only
`Finishes` uses it.  `Mutator!Spec` has `WF_vars(Collecting)`, for the same
reason: the collector runs to its end without waiting, while the program may
stop whenever it likes.  Only `CollectionEnds` uses it.  `ReaderSpec` has weak fairness of its next step,
again for one thread that waits for nothing; only `ReadingEnds` uses it.

**Mutants.**  Definitions whose comment begins with *Mutant:* are the code with
a plausible mistake, which a property of a run detects (there is one for each
property); nothing else refers to them.

## 4. Proofs

For all sessions, disciplined or not, of any length, with any number of nested
calls, lets, builtins and texts loaded (`ASSUME SessionsTyped`: they are sequences of
chunks, with any annotation):

| theorem (`VMProofs`, `CallerProofs`) | |
|---|---|
| `TypesHold` | `Spec => [](CodeDisciplined => TypeOK)`: no reference in a value, frame, stack entry or local is dangling |
| `DisciplineHolds` | `Spec => [](CodeDisciplined => Discipline)`: stacks, C++ calls and code agree |
| `EnvironmentsAreRooted` | `Spec => [](CodeDisciplined => EnvironmentsRooted)` |
| `FaultsAreForetold` | `Spec => []FaultsForetold`: nothing but code that breaks the discipline leads to a fault on a stack or a byte |
| `StacksNeverFail` | `Spec => [](CodeDisciplined => StacksHold)`: `VM::execute` needs none of the checks it does not make |
| `CallersAreUndisturbed` | `Spec => CallersUndisturbed`: what runs on behalf of a C++ call leaves its arguments and its caller's entries alone |

The inductive invariant is `IInv == TypeOK /\ Discipline`.  The theorems
are about single instructions at the top of the stacks, but `Return` uses what
`Call` left below, `ExitLet` what `EnterLet` did, and the end of a
`VM::execute` what a builtin had on the operand stack when it called
`Function::call`; so the invariant has to describe every suspended
activation: `SitesOk` for those waiting in bytecode, `HostsOk` for those in C++,
`HereOk` for the one that runs.  `Sound` limits it to states before an
exception: `~Arguments` of a call that threw makes it false afterwards, and nothing runs
bytecode then.  `TypeOK` has no such limit.

The step that appends a statement keeps `IInv` if the statement is
disciplined (`Accepted`).  `todo` is always the rest of the session (`Rest`), so that
a step after which all that was taken is disciplined has taken a disciplined
statement, in a state of which the same is true (`RestStep`).  Hence
`Spec => [](CodeDisciplined => IInv)`: once false, `CodeDisciplined` stays so.
Nothing is assumed of a session, and the theorems hold of it up to its first bad
statement.

`InstructionProofs` has three parts.  The first shows that the discipline is
closed under appending chunks (`ConcatDisciplined`), which is what running
`load` while code is running needs, and derives from it what each kind of
instruction finds.  The second has the lemmas on steps that let code and memory
grow and leave the stacks' lower parts alone (`TypesGrow`, `SitesStay`,
`HostsStay`, `GoesOnInPlace`).  The third has one lemma per instruction.
`VMProofs` has one per action of the C++ code and of calls into it, and
`StepInv` puts them together.

`CallersUndisturbed` does not follow from `IInv`, which relates each activation
to the one it returns to but says nothing of two C++ calls with others between
them.  `CallerProofs` adds `Nested`: the arguments of a call end below where
every later call begins (`HostsNested`) and below the operands of every entry
that runs for it (`SitesNested`).  Then every action is one of few moves: calls
end or one begins above all others (`CallsMove`), an entry leaves or one is
pushed (`EntriesMove`), and the operands that are taken off are above the
arguments of the calls that go on (`LowArguments`), by what the discipline says
an instruction consumes (`RunFloor`) or what `~Arguments` counts
(`NativeFloor`).  `CalmStep` concludes from these; that entries of the call stack
stay follows from `HostsOk` after the step, since only its top moves (`TopOnly`).

About the parser, for every sequence of tokens (`Parser!Spec`), and from there for
every text (`ReaderSpec`):

| theorem (`ParserProofs`) | |
|---|---|
| `ParenthesesNest` | `Spec => []Nesting` |
| `NothingIsLost` | `Spec => NothingLost` |
| `ReaderImplementsParser` | `ReaderSpec => ReadsTokens`: parse with its lexer is parse with some tokens |
| `TextsNest` | `ReaderSpec => []Nesting` |
| `TextsAreReadWhole` | `ReaderSpec => NothingLost` |

A closing parenthesis that comes too early may end several frames at once, down
to the innermost `try`, and the two exceptions leave by different ways; the
invariant `Inv` says of each frame that it is in a stage its form has, that the
first and only the first is `parse` itself (`Framed`), and counts parentheses in `read` against
frames and `cut` (`Counted`, `Nesting`), so that the step that ends `parse` can be seen to have
only its own frame left.

The theorems about texts assume that texts are sequences and that `MaxTokens`
does not cut them off (`TextsAssumption`), and that the parser is given for its
tokens at least what `lex` can return (`AnyToken \subseteq Tokens`, which `texts`
makes an equality): nothing about which texts there are.  What has to be shown
is that `lex` returns nothing else, and that the bound of `Parser` never stops
`Reader`: `LexInv` says that
the lexer has passed a glyph for each token that was returned, except for
`NONE`, at which `parse` ends.  The lemmas `MarkLexed`, `WordsLexed`, ... say so of
each case of `lex`, of which `WordIs`, that a word is not empty, is the one that
might fail.

About the collector, for all sizes of objects, all capacities, any number of
environments, any set of operations and any bounds (`ASSUME SizeAssumption`:
every object takes room):

| theorem | |
|---|---|
| `HeapIsTiled` (`CollectorProofs`) | `Spec => []HeapTiled`: the heap is a row of objects, within its capacity, in every state of every collection |
| `HeapIsTyped` (`ReferenceProofs`) | `Spec => []TypeOK` |
| `ReferencesAreValid` (`ReferenceProofs`) | `Spec => []RefsValid`: what is kept is kept up, until the program stops at a fault |
| `FrontIsKept` (`ReferenceProofs`) | `Spec => []FrontKept`: the newest handle keeps its value |
| `GarbageIsReclaimed` (`ReferenceProofs`) | `Spec => []Reclaimed`: what is not reached is gone, cycles included |
| `CollectionsAdvance` (`ReferenceProofs`) | `Spec => EachStepAdvances`: collections cannot go on for ever |
| `FaultsAreTraced` (`ReferenceProofs`) | `Spec => []FaultsTraced`: findings 2 to 4, `shifted`, and the defects of list builders and variadic calls are all there is, of the operations of the model |
| `PlainProgramsAreUnfaulted` (`ReferenceProofs`) | `ASSUME PlainProgram PROVE Spec => []Unfaulted` |
| `FlatProgramsDoNotNotice` (`RefinementProofs`) | `ASSUME FlatProgram PROVE Spec => Unnoticed`: `Mutator` implements `Objects` |
| `ClosuresLoseOnlyOuterVariables` (`RefinementProofs`) | `ASSUME NoListsBuilt PROVE Spec => OnlyOuterLost`: with closures it implements `Objects!LossySpec` |

*The heap.*  `compact` finds an object only by the size of the one before it, and writes
below the place where it reads.  The inductive invariant `HeapInv` therefore
adds to `HeapTiled` what the locals of `compact` mean: the gap ends at
`index`, where an object or the end of the heap is, and is `gone` wide
(`Sliding`).  `Moved` and `Dropped` are the two cases of an object that is passed:
one extends the row below the gap, the other the gap; `AboveTiled` is
the row that remains above.  Everything the program does is one of two lemmas:
objects change in nothing but their fields (`ContentsChange`), or one is
added at the end (`ObjectAdded`).

*References.*  `RefsValid` is not inductive, since it says nothing during a
collection.  `CollectorInv` is `HeapInv` and `RefInv` of module
`CollectorProofs`, which has a part for each phase.  It speaks of objects by
their numbers, which a collection does not change, and of addresses only where
the collector computes with them.

- `MarkInv`: what the roots and marked objects lead to is marked, or in `grey`
  (the calls of `markValue` that are still to be made); and what is marked or in
  `grey` is in every set that the roots are in and that is closed under what
  *marked* objects lead to.  So when `grey` is empty, what is marked is exactly
  what can be reached.
- `SlidingInv`: a reference that was in order is either to an object that was
  dropped, or to one that has not been slid, whose address is still right, or
  to one that was, which the break list leads to (`Follows`).  For this the
  break list must add up to `gone` above everything that was passed
  (`BreaksInv`), and the entry at its end, which still grows while objects are
  dropped one behind the other (`collapse`), must lie above all that was
  slid.  What the roots and kept objects lead to was kept (`Stays`).
- `InternalInv`: an object below `index` has new references, one above has old
  ones that the break list leads to their objects (`Found`).  The environment of a function
  is remapped once, with the parents above it (`frameSet`), although many
  functions share it.
- `ReachedInv` carries from `mark` to the end that nothing else was kept.
- `NativeInv`, `HandlesInv`: what a creation reads after the collection it
  started is there, and the head of the list of handles is the newest of them, or one
  that is destroyed, at which no collection begins.

The fold `Shift`, by which an address is remapped, is reached by what one more
entry of the break list, or a larger last one, does to it.

*The end of a collection.*  `Advances` is a measure: `Ahead` counts the objects that are
not marked, or the words that `index` has not passed, and among steps that change
neither, `grey` gets shorter.  Marking an object may push any number of values on
`grey`, but takes one from the first count, which only finite sets have (`UnmarkedFinite`).

*Programs.*  `Linked` is what is true when functions are made at the top level
only: the parents of what is on the call stack are on it, further down, so that each
environment that `Load` can look into is a root.  `HoldInv` is what is true when no C++ code builds lists:
what it holds while it waits is what the operand stack or the literals have (`Holds`): the same
objects, not the same addresses.  That is why `box`, `symbol` and the builtin
`cons` are not in `PlainProgram`, for they do fault (finding 4), and characters only
below the heap; the refinements hold of them, since a program that meets such a
reference, or a collection that makes one, stops.
`FlatInv` is both.

*Faults.*  `TraceInv` adds to `FaultsTraced`, which it implies, which operations may be waiting for a
collection and what they hold: with it each place where the model stops is one of
the ways listed.  That a reference is in order where it is *not* listed is `RefInv`:
on the stack, among literals and in each environment of the call stack or of
a function.  What is left of `Load` is an environment that is neither; when functions are made at
the top level there is none, by `Linked` (`SeenOnStack`).  `PlainProgramsAreUnfaulted` is a corollary.

*The refinements.*  Both read numbers off addresses.  `Views` shows that in
every state this comes to what references are *for* (`View`), so that no proof
about a step needs an address.  Then each step of the program is the step of
`Objects` that has its effect; a step of `mark`, of remapping or into a fault is no step, and
one of `compact` that drops an object is `Forget`, for which the object must not
be reachable in `Objects` (`StayingIsReachable`).  Nearly all of it is about both memories at once:
`MemoryStep` has the parameter `outer`, whether environments count with their parents,
and needs `Linked` only if they do; this is what fails for closures (finding 2).
Of the environments there are in `Objects` those that the call stack and the
functions lead to (`Live`), the smallest set with these and the parents of its members
(`LiveLeast`), which is how `Enter` adds one and `Leave` drops those that nothing
leads to any more.

`DataLemmas` has the principle of induction over natural numbers for a *set*
of numbers, from which facts about the elements of sequences of any length
follow (`ToSetFlatten`).

**Only checked by TLC.**
`ProgramDisciplined` and the `ASSUME SessionsDisciplined` of `MCVM`, by which
`CodeDisciplined` is true in the sessions of the runs, and `MeansSource`:
compiler and evaluator are recursive operators, about which the prover can show
nothing by induction.
`FollowsGrammar`, whose reference is recursive.
`Finishes`, `ReadingEnds`, `CollectionEnds`: liveness.
Of `CollectionEnds` the part without fairness is proved (`CollectionsAdvance`).
Nothing is claimed, by a run or a theorem, of `Unfaulted` for programs that are not
plain and of `Unnoticed` for those that are not flat: they are false (findings 2 to 4, and `shifted`);
what is true instead is `FaultsTraced`, and `OnlyOuterLost` where no C++ code builds lists.

## 5. Not modelled, and the plan

Of the builtins: arithmetic on floats and complex numbers (TLC has no floating
point numbers); `box`, `unbox`, `set-box` in `VM` (they are in `Mutator`, where cycles matter);
`symbol`, `identical?`, `string`, `print`, `clone`, `help`, `eval` and the conversions, whose
results are texts or copies; objects; and `open-dll`, which calls `setGlobal` inside a
builtin (`builtins.cpp:597`): the null that a global in a namespace leaves on the operand
stack (`environment.cpp:52`) is then what `~Arguments` takes off.  `PushDocumentedLambda`
gives its function no docstring (`vm.cpp:369`), which nothing in `VM` reads; `Mutator` has
it.  Of the parser: `jumpPosition` and the messages of exceptions.  That a string that is not
closed takes the rest of the text with it (`lexer.cpp:103`) is in the model, but no
property calls it a loss, for what it drops are no tokens; and a token has its text with
it, so that no function of the model could read the buffer too late.  `PoolAllocator`; bytecode files
(`writeToFile` prints the literals it reads back as text, and `loadFromFile` skips a fixed number of them,
so that what is written loads only by luck; no program can call either).
The vendored containers, a third of the lines, the DLLs, and what only prints.
The machine stops after an exception because the hosts in the repository do.

Of the collector: values of class `Object`, whose members are not traced at all
(the code says so, `types.hpp:393`); `RawPointer`; quoted pairs (`ast.cpp:191`), and among the
elements of quoted lists all but numbers and lists (a symbol or a string is made by the same
`storeI`); the builders in `dolist`, `eval` and the DLLs; what remains after `OOM`.  Booleans and numbers
are told apart only as the null value (always there) and `int` (a literal that
is created).  `Mutator` and `VM` are not one module: that the environment of the
running code is in the call stack, on which the collector's roots depend, is
`EnvironmentsRooted`, proved of `VM` and by construction in `Mutator`.

Plan, in order:
1. A discipline of variables, as for stacks: each frame has at least the
   variables the code below it loads, so that `Load` and `Rebind` never
   fault for the small programs; its theorem.
2. Which part of `OnlyOuterLost` list builders do keep: a third memory, in which
   the function of a variadic call may disappear while its list is built.
3. `BytecodeFile`; `eval` of what `print` writes, on `Reader`; `Pool`.
