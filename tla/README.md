# A TLA+ development for znoc

znoc is a compiler for the language ZnO, written in C++ on top of LLVM. It has one
thread. It reads a main file and the files this includes with a hand-written lexer and a
recursive-descent and operator-precedence parser, builds an AST, and turns the functions
in its namespaces into an LLVM module and an object file. The compiler is not concurrent and
persists nothing; what is hard about the code is that its mutually recursive
functions communicate through global variables (the current token, the scopes, the jump
targets, the types' template lists), and that one construct can be read or generated in
the middle of any other.

This directory holds TLA+ modules of the parts with state of their own, TLC
configurations for them, and TLAPS proofs. Paths below are relative to the repository's
`src/` unless they begin with `src/`.

## 1. Inventory

| Component | Code | State | Operations | Modelled in |
|---|---|---|---|---|
| Driver | `main.cpp`, `llvm_module.cpp` | the LLVM module | set up, parse, generate, write | not modelled: straight-line |
| Files and includes | `parsing.cpp:166-261` | `searchedIncludes`, `currentToken`, the calls of `parse_file()` and their `attributes` | `parse_file`, `has_searched_path` | `Includes` |
| Lexer | `parsing.cpp:35-164` | `lastChars`, `LexLoc`, the file position | `get_token`, `peek_next_token`, `advance`, `parse_operator`, `advance_op` | `Lexer` |
| Pratt parser | `constructions/pratt_parser.cpp:11-325` | the calls in progress with their `min_bp`, the tree | `parse_pratt_expression` | `PrattParser` |
| Scopes | `memory/memory_location.cpp`, `memory/variable.cpp` and the `parse_*` functions | `stack_allocations` | push, pop, declare, look up | `Scopes` |
| Control-flow code generation | `constructions/{if,while,switch,break_continue,fallthrough,return,codeblock,function_def}.cpp` | basic blocks, insertion points, the globals `mergeBB` and `condBB`, `allocaV` of functions | every `codegen()` | `ControlFlow`, `LazyFunctions` |
| Namespaces, names | `constructions/namespace.*`, `reference.cpp` | maps from names to namespaces, types, functions | `operator<<`, `get_*_by_name`, `::` | partly: `Includes`, `Scopes`, `ControlFlow` |
| Types | `types/*` | `generic_types`, `fields_by_index`, `generated` | `parse_type`, `get_pointer_to`, `add_generic_instance`, `codegen`, ... | `GenericTypes` |
| Numeric literals | `constructions/numeric_literal.*`, `parsing.cpp:118-134` | value and type of a node | parse, generate | `Operands` |
| Operands, calls, varargs | `pratt_parser.cpp:388-502`, `reference.hpp`, `memory/gep.cpp` | the code generated so far | `codegen`, `codegen_to_ptr`, hidden argument | `Operands` |
| Strings, struct literals, typedefs, attributes | `string.cpp`, `struct_init.cpp`, `typedef.cpp`, `attributes.cpp` | AST nodes and flags | parse | the flags in `Includes`, typedefs in `GenericTypes` |
| Exception runtime | `src/exception.c` | `exceptionBuffer`, the unwinder's context | `__zno_raise`, personality function | `Unwinder` |

How they interact. `main()` pushes the root scope, creates the global namespace and
calls `parse_file()`, which calls itself for each `uses` and a `parse_*` function for
each other construct; these call the lexer for the next token, the scopes for variables,
the namespaces for functions, and `parse_type()` and the types' operations for types.
After parsing, `GlobalNamespace->codegen()` visits namespaces and functions; a
`codegen()` of an expression generates the functions and types it mentions on the spot.

The hard behaviours, and what makes each component right:

* *Files.* Files may include each other in a cycle. The token, a global, belongs to one
  file at a time. Each file must be read once and to its end, attributes must stay with
  their function, and a name must not change its meaning on the way.
* *Expressions.* Whether a call of the parser takes an operator depends on all calls in
  progress. The tree must keep the source's order and give each operand to the tighter
  operator.
* *Scopes.* One global deque for all constructs being read. Constructs must leave the
  scopes they found and a name must mean its most recent visible declaration.
* *Control flow.* Two globals for the targets of break and continue, for all loops of all
  functions half generated. Jumps must reach the innermost loop of their own function;
  every block must be attached once, ended once, and stay in its function; the phi of an
  `if` must match its predecessors; a function must be generated once.
* *Types.* Types refer to their template arguments by position in lists that grow. Equal
  types must have equal positions, positions must stay valid, and no type may contain
  itself.
* *Characters.* One character has been read ahead of every token, the parser looks
  further ahead and goes back by hand, and files interrupt each other. Each character must
  be used once, and value, line and operator must be those of what has been used.
* *Operands.* A node generates its operands for their values, for their addresses, or for
  both. Calls must run in the order of the source, once where the program has no reason to
  expect otherwise, and a variadic function must be told the number of its arguments.
* *Exceptions.* The runtime runs inside another program's stack: between two of its steps
  frames vanish, clean-ups run, and these may raise again, all with one buffer. The
  innermost handler must be entered, after every clean-up on the way to it.

`PROJECT.json` lists these as hazards at the lines where they bite.

## 2. Modules

All recursive C++ is modelled in one way: the calls in progress are a stack of records,
and a step is what one call does between two calls it makes. The program to be compiled
is not an input that is fixed in advance: it is chosen while it is read, or generated, so
that one run covers every program within the bounds. A call that throws ends in a status
that is not "running"; so does one that has no defined meaning in C++.

* **`ControlFlow`** models each `codegen()` that creates, attaches or ends a basic block.
  `code` has the instructions of all blocks, an instruction being its opcode and the
  blocks it names; `layout` the block list of each LLVM function; `insert` the insertion
  point of each function's builder; `mergeBB` and `condBB` are the globals. An action is
  named after the node and the point in its `codegen()` (`BeginWhile`, `WhileCondDone`,
  `WhileBodyDone`). Types and operand values are abstracted; whether a value is null is
  not, since break, while and an if without an else return null. All jumps of a `switch`
  are recorded when its instruction is made, where the code adds one case per arm. The
  fields `cond` and `merge` of a loop's record are its local variables, kept to the end.
* **`LazyFunctions`** is the abstract specification of function generation: a function is
  untouched, open or generated, each step works on one function, and what is generated
  stays as it is. `ControlFlow` implements it under the refinement mapping `Lazy`.
* **`Scopes`** models every `parse_*` function that pushes or pops a scope or declares a
  variable. `outer` in a call's record is history: the scopes it found. `id` in a
  variable tells declarations apart.
* **`PrattParser`** models `parse_pratt_expression()` with the binding-power tables.
  `first`, `last` and `paren` of a node are history, used to say what the tree should be.
* **`GenericTypes`** models every operation that makes a type (`parse_type`, typedef,
  struct definition, unary `&` and `*`, subscript, call, field), the interning of
  template arguments, and the recursion of `codegen()` over types. Positions count from
  1 and 0 is `nullopt`. Field names, constants and LLVM types are left out; the operands
  that an operator rejects are one action. A struct of a name that is taken is not made.
* **`Includes`** models `parse_file()`. A construct is its first token with the names in
  it; the lexer chooses it when it reaches it and gives the same one if the file were
  read again. The maps of a namespace are those of its file; a file's own namespace has
  number 0. What a function's body calls is chosen when it is read. `_fundamentals`,
  typedefs and paths to types are left out.
* **`Lexer`** models `advance()`, `get_token()`, `peek_next_token()` and those callers
  whose order of calls matters: `parse_operator()`, which looks ahead, `advance_op()`,
  which counts tokens, the path of a `uses`, and `parse_file()`, which goes on with a
  file in the middle. `text` is what a file turns out to contain, `at` its position,
  `lastChars` the character read ahead. `tokens` is history: where each token read begins
  and ends. Letters, digits and symbols are sets; which construct a token belongs to is
  the other modules' business, so any token may be taken by an `EXPECT`.
* **`Operands`** builds an expression from its operands up, as the parser does, and then
  generates it. `Gen` is `codegen()` and `codegen_to_ptr()` of all the nodes, one recursive
  function that returns a piece of code with its values; `ValueCode` and `PtrCode` say what
  the two make of a node of each kind, from what they make of its operands (`V` and `P`),
  and `CallCode`, `Assign`, `Element`, `GEP` and `FieldRef` are the longer cases of them.
  Types are abstracted to what an operator asks for; overflow in the count of variadic
  arguments is the status "undefined". A literal is read as `strtod()` reads it: `written`
  becomes one of the doubles nearest to it (`ToDouble`; of two that are equally near, either
  one), which has `Precision` bits for its digits, 53 in C++, and that an `uint64_t`
  (`ToUnsigned`, any one if the double is too large) or stays a double. The lengths of
  integers are constants, too. All numbers written are whole, with a decimal point or not.
* **`Unwinder`** models `__zno_raise()` and the personality function with its loops over
  call sites and action records, one step per iteration, on tables laid out in bytes as
  the declarations and the comment in `src/exception.c:12-53` have them. The unwinder of
  the system and the program that is unwound are external: modelled as the two phases, the
  answers and the landing pads that the code relies on. A call site has the records of its
  handlers and, with the type index 0, of its clean-up; one without records has a clean-up
  only. `nested` and `cleaned` are history. The buffer keeps the handler's frame, which is the unwinder's own knowledge.
* **`ControlFlowProofs`**, **`PrattParserProofs`**, **`GenericTypesProofs`**,
  **`IncludesProofs`**, **`LexerProofs`**, **`OperandsProofs`**, **`ScopesProofs`**,
  **`UnwinderProofs`**: theorems.
  **`MC*`**: for TLC.

The modules are separate because the components meet in few places: a parser's steps
never depend on the blocks of code generation, and the scopes do not depend on the tree.
Where two meet the module that owns the state has the operation: functions generated
inside one another are in `ControlFlow`, types made by expressions in `GenericTypes`.

## 3. Runs

Times are for two workers.

| Run | Question | Bounds | States |
|---|---|---|---|
| `jumps` | Without nested loops, do returns, blocks and phis come out right, whatever jumps? | one function and its callee, 4 nodes, switches of one arm | 2.7 M, 90 s |
| `nested` | Nested loops and functions generated inside one another: do the globals still name one loop, does a break or continue reach the innermost one, and do functions not disturb one another? | four functions (one extern, one variadic, one its initialiser), 2 nodes besides references | 0.70 M, 105 s |
| `outer_loop` | *violation*: the globals name the loop that is being generated | 2 loops | |
| `single_arm` | Are scopes kept and names resolved to the right declaration, if each switch has one arm? | 2 names, 2 functions, 4 nodes | 0.28 M, 15 s |
| `two_arms` | *violation*: outer scopes survive a switch with two arms | same | |
| `powers` | Is the tree the right one, and does parsing end? | 7 tokens, 8 operators | 0.38 M, 20 s |
| `parentheses` | *violation*: operators in parentheses do not matter outside | same | |
| `interned` | Do positions of template arguments stay valid and unique, and does code generation of types end? | 5 types, one struct of up to 2 parameters and 2 fields, one array length | 1.3 M, 90 s |
| `included` | Is each file read once and whole, with its own attributes, and do names keep their meaning? | 3 files and a missing one, 5 constructs in all | 0.95 M, 35 s |
| `tokens` | Is every character used once, whatever the parser looks ahead at, and does reading end? | 2 files, 5 characters in both, a letter, a digit, two symbols and the special characters | 0.96 M, 60 s |
| `operands` | Which calls run, how often and in which order; what is stored, counted and kept? | 6 nodes, 3 functions, numbers of 1, 2 and 5 bits, doubles of 2 | 3.1 M, 95 s |
| `unwinding` | Does each exception reach its innermost handler, past every clean-up, whatever is raised in between? | 2 functions with any of 4 tables, 4 frames, 2 exceptions | 0.29 M, 105 s |

Why the bounds are enough. *Control flow*: 4 nodes are a loop with a switch or an if in
it and a jump in each clause, or a break whose value is an `if`; `nested` needs only two,
since its loops and calls nest in functions, too: it has a loop in a loop, a loop in the value
of a break, and a loop of a function that is generated while another one's loop is. *Scopes*: 4 constructs give every
nesting of two with declarations before, in and after; two functions show what is left
over. *Tokens*: seven tokens are three infix operators with all their operands, and the
eight operators have one of each binding-power class that behaves differently (left,
right and not associative, prefix, postfix); every pair of them meets on both sides.
*Types*: five types are the two fundamental ones, a struct and two more, so that an
instance of the struct has a pointer for its argument, or a pointer leads to an instance.
Function types appear with a return type, variadic or not, and no declared arguments
(`MaxArgs = 0`). *Files*: five constructs allow a cycle over three files, a collision of
two namespaces and a call into one of them, and attributes before a skipped `uses`.
*Characters*: five make every token after another, an operator of three tokens with a
token on each side, or a `uses` with one character in either file behind it.
*Operands*: six nodes are a call with two arguments that are calls, an assignment whose
two sides have a call each, or a subscript of a field of a call; the literals' lengths 1, 2
and 5 stand for 1, 32 and 64. The numbers are one that i32 has, the first it has not, 5, which is
half-way between two doubles, and 15, which becomes 16, a number that the long type has only
without a sign. No double of the run is too large for an `uint64_t`; the proof covers those.
*Exceptions*: four frames put a clean-up between a raise and its handler, twice in one function or
in two, with a call in the clean-up that raises the second exception; this can be raised before, in
or after one. The tables have a site for a clean-up, one with two handlers, one with a handler
and a clean-up, a site without a landing pad, one that belongs to a landing pad, and a landing
pad that no site covers.

Where a run restricts programs, a constant says so: `NestedLoops = FALSE` in `jumps`,
because of the bug that `outer_loop` shows; `Constructs` in `jumps` and `nested`, for size;
`Arms = {1}` in `single_arm`, because of `two_arms`. Only `operands` switches deadlock
checking off: an expression that has been generated, or that the bound leaves unfinished,
has nothing more to do. All others stop only in a status that says why.

*Fairness.* `PrattParser` and `Lexer` state `WF_vars(Next)`: the compiler is one thread
that waits for nothing, so a step that is possible is taken. `Terminates` and `ReadingEnds`
rely on it. `Unwinder` states weak fairness of the unwinder's steps, of the end of a
clean-up and of the return of a function: the unwinder waits for nothing, and a clean-up
that never ended would be the program's doing, not the runtime's. That a function is called
or an exception raised is never required. `RaiseEnds` relies on it. Its ends are a handler,
the end of the program, or the restart of a function whose call site is to clean up and has
no landing pad (§4): an exception may be lost in no other way.

## 4. What the code does otherwise than its documents say

* `outer_loop` (`while.cpp:38`): a loop that ends clears the globals of the loop around it.
* `two_arms` (`switch.cpp:72`): one scope is pushed per switch and one popped per arm.
* `parentheses` (`pratt_parser.cpp:302`): `1 < (2 < 3)` is rejected as a chain.

Known deviations that no run states, because the model shows them as actions or statuses
and no document says otherwise, or because their component is not modelled yet:

* The phi of an `if` with an `else` also lists a clause that has returned or jumped and does
  not branch to the merge block (`if.cpp:47`), which `verifyFunction()` rejects.
  `PhiMatchesPredecessors` allows for exactly this.
* `else if` is always rejected, since the keyword is skipped twice (`if.cpp:70` and `:59`),
  although the grammar has it (`src/lang.ebnf:16`): the action `RejectElseIf`.
* `fallthrough` jumps to the block after the one it is in. That is the next arm only if the
  arm has made no block of its own; in the last block of a function it is that block itself
  (`fallthrough.cpp:17-24`). The clean-up of a variadic function follows its `ret`
  (`function_def.cpp:67-74`).
* A switch without arms leaves its scope open; an empty block has no defined meaning
  (`codeblock.hpp:18`).
* A subscript as the right operand of an operator throws `bad_optional_access`
  (`pratt_parser.cpp:308`).
* A file that is used twice gets no namespace under its second name
  (`parsing.cpp:216-219`); attributes before such a `uses` go to the next function;
  a namespace or function of a name that is taken is dropped with all that is in it
  (`namespace.cpp:60-67`). A function cannot call itself, since its name is added after
  its body has been read.
* `uses '...';` and top-level variables are in the grammar (`src/lang.ebnf:41`), and
  `parse_file()` knows neither `;` nor `let` there.
* A member function of a templated struct cannot be generated: the type of its `self`
  "must be templated before use" (`function_def.cpp:126`, `types/type.cpp:358`).
* A string or the path of a `uses` without a closing quote is read for ever
  (`parsing.cpp:57` and `:201`): the status "endless" of `Lexer`. Lines are counted through
  all files (`LinesCounted` says so).
* A field of a call result, `f().x`, generates the call five times; an index, an object
  followed by a dot, the operand of `&` and the left side of an assignment are generated at
  least twice, doubling with each nesting (`pratt_parser.cpp:389-403`, `:448`, `:464`,
  `reference.hpp:56-58`). `CallsOnce` holds outside of these.
* The address of any other binary expression is that of its right operand
  (`pratt_parser.hpp:148`), so that `(a + b) = c` stores to `b`. An assignment has no value,
  and `a = b = c` stores that.
* The number of arguments of a call is checked nowhere, default values of parameters are
  read and never used (`function_def.cpp:140-145`), and a variadic function that is given too
  few arguments has an iterator behind its end (`pratt_parser.cpp:496`). A callee that is no
  function name is cast to one (`:483`, `:493`); `Operands` calls functions by name.
* A literal becomes a double (`parsing.cpp:128`) and then an integer (`numeric_literal.hpp:73`):
  above 2^53 it is rounded, so that 9007199254740993 is read as 9007199254740992, and
  9223372036854775807 as 2^63, which is a negative i64. `LiteralKept` says where this begins.
* A literal with a suffix is not checked against its width (`300u8`); a case value no `int`
  can hold is undefined (`switch.cpp:89`).
* The message about an operator that cannot be a prefix reads before the start of
  `operator_to_string` if the token is no operator at all (`pratt_parser.cpp:180`).
* `lastCleanedFn` does not tell two activations of a function apart, or an earlier exception
  from this one: the clean-up of a second activation is skipped (`src/exception.c:117`).
  `CleanedBeforeLeft` allows for this. A clean-up that is a record of a call site, behind its
  handlers, is only printed (`:143-145`), and its frame is left without it; that property allows
  for this, too, and for nothing else.
* An exception raised in a clean-up overwrites the buffer of the one on its way (`:172-176`).
  `InnermostHandler` says so with `nested`; clean-ups and the end of both are as without it.
* An address of no call site reads the bytes behind the last one (`:132-135`). A call site
  without a landing pad that is to clean up restarts the function at its first statement, and
  the exception is lost (`:122`): the statement has none, or is a call in a clean-up that
  has raised another exception (`Restarted`).

## 5. Proofs

| Theorem | States | Assumptions |
|---|---|---|
| `ControlFlowProofs!TypeCorrect` | `Spec => []TypeOK` | `FunctionAssumption`, `BoundAssumption` |
| `ControlFlowProofs!TargetsOfInnermostLoop` | `Spec => []LoopTargets` | the same |
| `ControlFlowProofs!NestedFunctionsApart` | `Spec => []FunctionsApart` | the same |
| `ControlFlowProofs!LazyGeneration` | `Spec => GeneratesLazily` | the same |
| `ControlFlowProofs!FunctionsSealed` | `Spec => []SealedFunctions` | the two, `LexicalBreaks` |
| `ControlFlowProofs!NothingFollows` | `Spec => []NothingAfterBranch` | the two |
| `ControlFlowProofs!BreaksLeaveInnermost` | `Spec => BreakLeavesInnermostLoop` | the two |
| `ControlFlowProofs!PhisMatch` | `Spec => []PhiMatchesPredecessors` | the two, `"fallthrough" \notin Constructs` |
| `PrattParserProofs!TypeCorrect` | `Spec => []TypeOK` | `PrattAssumption` |
| `PrattParserProofs!TokensInOrder` | `Spec => []SourceOrder` | the same |
| `PrattParserProofs!TighterBinds` | `Spec => []TighterOperator` | the same |
| `GenericTypesProofs!TypeCorrect` | `Spec => []TypeOK` | `TypesAssumption` |
| `GenericTypesProofs!Interned` | `Spec => []InstancesUnique` | the same |
| `GenericTypesProofs!PositionsFit` | `Spec => []TemplatesFit` | the same |
| `GenericTypesProofs!TypesKept` | `Spec => MeaningKept` | the same |
| `GenericTypesProofs!GeneratedInTurn` | `Spec => []CodegenOnce` | the same |
| `IncludesProofs!TypeCorrect` | `Spec => []TypeOK` | `IncludesAssumption` |
| `IncludesProofs!ReadOnce` | `Spec => []ReadOnceToEnd` | the same |
| `IncludesProofs!MeaningKept` | `Spec => NamesKept` | the same |
| `IncludesProofs!OwnAttributes` | `Spec => []AttributesLocal` | the same |
| `LexerProofs!TypeCorrect` | `Spec => []TypeOK` | `LexerAssumption` |
| `LexerProofs!EachCharOnce` | `Spec => []EveryCharOnce` | the same |
| `LexerProofs!LookAheadLeavesNoTrace` | `Spec => []LookAheadUndone` | the same |
| `LexerProofs!OperatorsSpelled` | `Spec => []OperatorSpelled` | the same |
| `OperandsProofs!TypeCorrect` | `Spec => []TypeOK` | `OperandsAssumption` |
| `OperandsProofs!CallsInTheirTurn` | `Spec => []CallsAsWritten` | the same |
| `OperandsProofs!AddressFoundLast` | `Spec => []AddressAfterValue` | the same |
| `OperandsProofs!ArgumentsCounted` | `Spec => []VariadicCount` | the same |
| `OperandsProofs!NumbersKept` | `Spec => []LiteralKept` | the same |
| `ScopesProofs!TypeCorrect` | `Spec => []TypeOK` | `ScopesAssumption` |
| `ScopesProofs!OuterKept` | `Spec => []OuterScopesKept` | the same, `Arms \subseteq {1}` |
| `ScopesProofs!Restored` | `Spec => ScopesRestored` | the same |
| `ScopesProofs!NamesMean` | `Spec => []NamesResolved` | the same |
| `UnwinderProofs!TypeCorrect` | `Spec => []TypeOK` | `UnwinderAssumption` |
| `UnwinderProofs!CleanedUp` | `Spec => CleanedBeforeLeft` | the same, `SitesDisjoint` |
| `UnwinderProofs!CaughtInnermost` | `Spec => []InnermostHandler` | the same, `SitesDisjoint`, `ResumeUncaught` |
| `UnwinderProofs!WithinTables` | `Spec => []StaysInTables` | the same |

They hold for every value of the constants that meets the assumptions, which TLC evaluates
on each run. Most only say what the constants are: `LexerAssumption`, that letters, digits
and symbols are different characters, no symbol is called like a kind of token, and the
files are finitely many, so that their line feeds can be counted. `OperandsAssumption` adds
that a power of two is a number, and that some are in their order, which the provers do not
know; and that a double has more digits than i32 and less than i64. `SitesDisjoint` says that the call sites
of a table share no address, as LLVM writes them: consecutive ranges. `ResumeUncaught` says
that the call of `_Unwind_Resume()` a clean-up ends with has no landing pad that catches, as
LLVM gives its `resume` none; otherwise a handler could be entered from a clean-up that the
unwinder does not know to be over. `Arms \subseteq {1}`
is a hypothesis of three theorems and not an assumption of the module: every switch of the
program has one arm. Without it they are false, as `two_arms` shows. In the same way
`LexicalBreaks` says of the program that every break and continue stands in a loop of its own
function; the parser checks no such thing, and in a function generated in the middle of
another one's loop such a statement would jump there. `BreaksLeaveInnermost` needs it not, as it
is about those statements that do stand in a loop. `PhisMatch` leaves out programs with a
fallthrough, which jumps to whatever block comes next, and that may be one with a phi.

*Control flow.* `TypeOK` is inductive by itself; its proof has one lemma per group of
actions and one about each helper (`Emit`, `Branch`, `Attach`). `LoopTargets` is
inductive together with it: an action either keeps the loops on the stack, in which case
the lemmas named `...KeepsLoops` show that the innermost one stays the innermost, or is
one of the three of a loop that write the globals. It is the property the code
does keep with nested loops, where `CurrentLoop` fails.

*Functions inside one another.* `FunctionsApart` is about attached blocks, but what a
construct attaches later it has created before, and what it goes on in it attached long
ago. So the invariant `Apart` adds what the calls on the stack still have in hand: blocks
created and not attached are of one call each and of no function yet (`PendingApart`),
those it moves the insertion point to are of its own function (`Held`), every function has
no blocks but those there are (`LaidOut`), and below every call is that of its function,
whose body has been begun (`Enclosed`, `Begun`). All steps that work on the innermost
call's function have one shape, `Works`: that call is replaced by some frames, some
blocks are attached and the insertion point moves. One lemma shows that the shape keeps
`Apart`, one lemma for each construct that its steps have it. Beginning a function and
ending one are the other two shapes. `LazyGeneration` is the refinement of
`LazyFunctions`, step by step with the same shapes: a step that works is an `Extend`
of the innermost function or a stutter, since the code of no other one changes (`WritesOwn`).

*Finished functions.* `SealedFunctions` and `NothingAfterBranch` are about functions without
calls in progress. While one is generated its open blocks must be accounted for, and `Sealing`
does that on top of `Apart`: an attached block is closed, or the insertion point of a
function in progress, or waits for a construct on the stack that will move there (`Ends`,
`Unfilled`); it leads to blocks of its function or to some not attached yet (`Leads`); those
that wait are empty, and two calls never wait for one (`Blank`, `UnfilledApart`); and where a call
goes on the block is open (`Ready`), except between two arms of a switch. A step that `Works`
also `Seals`: it closes the block it leaves or keeps it open. `Sealing` holds while the
compiler runs, and `AllComplete`, about finished functions, for ever: a step at which
LLVM stops finishes none.

`BreakLeavesInnermostLoop` is about steps. `Adds` says which instructions a step may append;
of all steps three append a break or continue. They take the target from the globals, which
are those of the innermost loop of all (`LoopTargets`); that it is in the function of the
statement, if there is a loop in this, is `Contiguous`: the frames of a function are not
interrupted by another one's, and its youngest frames are on top.

*Phis.* `PhiMatchesPredecessors` needs to know that a merge block has no predecessors besides
those its phi will name, from the time it is created (`FramesRight`): none in the first clause
of an `if`, and in the second one at most the end of the first. With it, no block is a branch's
target before it exists (`AimsKnown`), and the block that a loop repeats from has no phi. All
other steps are `Neutral`: the blocks they branch to have no phi, and no `if` on
the stack is going to merge in them. A step of an `if` is neutral for the calls below it
(`PendingNeutral`, by `PendingApart`), and adds one predecessor to its own merge block.

*Operators.* Neither `SourceOrder` nor `TighterOperator` says anything about calls that
have not returned, so the invariant adds where each call stands: which token it began at,
that its left-hand side ends just before the operator it has read, that the call above it
begins just after, and has the power of this operator (`CallShape`, `CallPlace`, `InTurn`);
that a node that begins where a call does is part of its left-hand side (`CallNodes`), and
that each left-hand side belongs to no other node (`Roots`, `NodeShape`). Whether an
operand went to the right operator is decided twice: when the loop goes on, since the
operator is not too weak for the call, and when it ends. `PowersKept` keeps both
decisions until the node is made: what a call has parsed begins with no operator too weak
for it (`AtLeastMin`), and what it ends with has lost its right operand to the operator
read (`LeftKept`) or is about to (`LeftNext`); a comparison as weak as the call allows is all
of it (`OnlyRoot`). The steps have two shapes: a call reads a token and waits for one above
(`Opens`), or makes a node of what it has (`Makes`). Although trees have any depth no
induction over them is needed: a node's span never changes once it is made.

*Types.* `TypeOK` is not inductive: `Arguments(t)[1]` is a type only if `t` holds a valid
position and the list at it is not empty. The invariant `IInv` adds `InstancesUnique` and
`TemplatesFit`, and to these: named types are types of the program; a type of a struct
occurs only when the struct has been defined (`AllRooted`), and before that its arity and
its list are empty (`Undefined`); fundamental types have the arity the code gives them
(`Arities`); the calls on the stack are of types that may be generated (`StackOK`); while
parsing, the stack is empty (`Idle`). Parsing steps reduce to two lemmas, `MakingInstance`
and `MakingPart`; a step of code generation only touches the stack. `TypesKept` follows
from the same case analysis: lists are only appended to.

`CodegenOnce` says that types are well founded. Instead of an induction over types, `IInv` says
that a ranking of them exists (`Ranked`), in which a list of arguments is above all that is in it
and an instance of a struct above the types its fields are declared with. A new list gets a
rank above all others (`RankInstance`): since every type fits, none that exists can hold the new
position. So does a struct when it is defined, since no type can be of it before. On the stack of
code generation the types descend in *every* ranking (`Descending`), which is inductive since
no type is made any more (`PartsLower`), and a struct on the stack has not been generated yet
(`NotYet`): what is generated in between is lower.

*Files.* What the program reads is not chosen beforehand, so the invariant `Reading` says how
far each call is: at the last construct reached of its file, which is then on the list
(`Placed`); with the token found there, in the global variable for the innermost call and
in `old_current_token` for the others (`Tokens`); in a file no other call reads (`Apart`);
and a file on the list that no call reads has `eof` as its last construct (`Finished`).
`Placed` is what makes the check of the list before a call suffice: only the innermost call
may be missing from it, and a call puts its file there before it reads a `uses`. The lemmas
named `...Reads` show the four ways in which a step changes the calls; `MapsOK`, the part of
`TypeOK` about the tables of names, is independent of them. `AttributesLocal` is about constructs
that are behind the calls; `AttributesInv` adds what holds of those before them: a call's flag says
whether attributes reach its construct (`Flags`), the functions marked so far are in the texts
read (`Marked`), nothing has been read of a file that is not on the list (`Unread`), and a call
that waits for another one has a `uses` right behind it (`Includers`), so that the flag it
loses when the other one returns costs no function the attributes right before it. `NamesKept` rests on `Grown`: no
table loses or changes an entry (`InsertExtends`).

*Characters.* All parts of the invariant are about one quantity, `Taken`: how many characters
of a file its tokens account for. While something is read ahead that is what had been used when
`peek_next_token()` was called, in the middle of a token what comes before it, and otherwise
what has been read but for the last character. `Covered` says that the tokens cover exactly
those, `Sources` that the last character is the one before the position and that the lines are
counted, `Saved` that what was saved is a state in which the same file has been, and `Values`
that a value is the characters of the last token. Since the end of a file is where its text
ends, and TLC chooses a text as it is read, a look ahead only extends the text (`Extends`):
what was true before position `at` stays so, and `EndPeek` leads back to `Covered` of the text as
it is now. For `OperatorSpelled` the invariant must know the future: `Ahead` says which
characters are next in the text, spaces aside. `LookingAhead` follows a peek to the
character it finds (`LooksAt`), `OperatorShape` the sequence of questions, `Foreseen` puts them
together, that the operator found is what follows the token, and `Advanced` uses it up as
`advance_op()` reads on. That an operator's token is one character, and a character of an operator
never part of a longer token, is `OperatorToken`.

*Operands.* The properties are about code that one step generates, by recursion over the
whole tree. A node comes after its operands, so the nodes under node `n` are an interval,
`L[n]..n`. The invariant says that some such `L` exists (`Shape`), that the roots' intervals
lie side by side (`Chain`), so that a new node can take the youngest of them, and what the
code generated is like (`Made`). `Runs(p, L, lo, hi, k, a, b)` says this of a piece: it is
well formed, has `k` values, its instructions are of the nodes from `lo` to `hi`, use only older
ones, and are `Fine` one by one, as to counts and as to what a store takes; its calls are
*whole* from `a` to `b`, which is said of the sequence of their nodes (`Marks`): every call
node occurs, for the first time after those before it, and if it is not exposed, once.
Whole sequences can be joined if their intervals meet, and code that only repeats exposed
nodes can follow anywhere (`Repeats`). `Good(G, L, n)` says that both pieces of a node run,
and one lemma for each kind of node shows it, given the same of the nodes before; `AllGood` is
then true since there is no least node for which it fails. That a recursive function has the
values its definition says needs an argument of its own, as no induction theorem of the library
can be used: there are functions that solve the equation up to `k` (`Solved`), they agree,
and so there is no least `k` for which there is none (`GenMeans`; in the same way
`SubtreeMeans`, and `NeedsMeans` for `Needs`, which descends since code only uses
older code). `AddressAfterValue` comes from `Cuts`, which an instruction keeps when its
piece becomes a part of another one: there is a position that separates
the value of a store from everything its address is computed with. `CallsAsWritten` is `Whole`,
from the first to the last node, turned into a statement about positions; `VariadicCount` is `Fine`,
with `Missing` for the pieces whose count is undefined. `LiteralKept` is independent of code:
what has few enough bits is a double, so that no other one is nearest (`DoublesAre`), a double that
i64 has is stored as it is (`StoredIs`), and the default length has room for it
(`DefaultKeeps`).

*Scopes.* `outer` in a call's record is what the call found, so the properties compare the
deque with the stack of calls. `OuterScopesKept` is not inductive: a construct may pop only
because the scope on top is its own. The invariant `IInv` adds `Balanced`: a call has found
the scopes of the one that made it and, if this one has a scope open at its stage (`Owned`),
one more; the innermost accounts for all there are; and whoever reads an expression has its
scope below, so that a declaration never writes to what a construct found. A switch with one
arm owns the scope it has pushed until that arm pops it (`OneArm`). A step does one of six
things to a balanced stack (`Drop`, `Swap`, `Renew`, `Push`, `Open`, `Close`) or writes to
the top scope (`Write`), one lemma each; the lemmas named `...Kept` reduce every action to
these. `NamesResolved` needs `Named`, too: variables are of the function being read, and of
two with one name the inner is younger. Between functions it is `Balanced` that leaves only
the empty root scope.

*Exceptions.* `TypeOK` needs that the walk over the frames stands on a frame that exists and,
in it, on a call site and a record of its table (`Places`: `AtCallSite`, `AtInnermost`), and
that a handler has an address to go on at (`HandlerKnown`). That the search by addresses
finds the call site of the call, `InSiteMeans`, is a fact about multiples of the instruction
length. `CleanedBeforeLeft` follows with `OnceEach`: for one exception no activation is cleaned twice,
even if a clean-up raises another one, since a clean-up that goes on is that of
`lastCleanedFn` or has been begun for an earlier exception. A frame is passed on the way for want of
a table, after its action records, or since its function has been cleaned; in the second
case `SitesDisjoint` leaves no clean-up that is owed, but for one among the records.

`InnermostHandler` needs a second invariant, `WayInv`, on top of these. Frames are in calls of
their function, and a clean-up ends with one (`AtCalls`); the search has passed no frame
(`Searched`), and in a frame no action record (`ReadSoFar`), that catches the exception; and
while nothing is raised in a clean-up, the handler in the buffer is the innermost one of all
frames on the way or, while the program is in a clean-up, of those outside of it (`OnTheWay`).
`StaysInTables` does not have that condition. It needs `HandlerPad`: however many exceptions
clean-ups have raised in between, a walk that comes to the frame in the buffer finds a landing
pad for it. Both properties depend on how records are laid out, since a table's bytes lead
from one record to the one before: `RecordsUpTo` is a recursive function over call sites, and
`RecordsGrow` and `OwnerMeans` are shown of the least call site for which they would fail.

*Only model-checked:* liveness (`Terminates`, `ReadingEnds`, `RaiseEnds`), which is beyond
the prover, since it knows no `ENABLED`, and what the runs show of programs that the
hypotheses above leave out. Of these some properties do not even hold: `OuterScopesKept` of
switches with two arms, `PhiMatchesPredecessors` with a fallthrough. Induction over data
has only two forms, a least counterexample among numbers and, for types, a ranking in the
invariant.

## 6. Not modelled, and the plan

Not modelled: the set-up of LLVM and the output of the object file (`llvm_module.cpp`,
straight-line calls of a library); the text of strings, the printing of the AST, messages
and columns, which no property is about; single LLVM instructions and their types, which
LLVM's verifier checks. Strings and struct literals make one node from values that
`Operands` and `GenericTypes` model for other nodes; typedefs are a type name in
`GenericTypes`, attributes a flag in `Includes`.

Next, in this order:

1. `Linkage`: names of types in other files, typedefs, and LLVM functions that share a
   name, on top of `Includes`.
2. Where `fallthrough` leads from an arm that has blocks of its own.
