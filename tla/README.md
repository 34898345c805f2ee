# A TLA+ development of KanLang

KanLang is a small interpreted language in C++. One line of input is cut into
tokens, the tokens are nested into bracket trees, the trees are compiled to a
byte stream, and a stack machine executes the stream. Everything runs in one
thread; nothing is persisted. What is hard about it is not concurrency but
bookkeeping: objects are counted by hand in half a dozen places, code is
addressed by offsets into buffers, and an expression is compiled by rewriting a
list without a grammar. These are the parts modelled here.

## The system

| part | source | state | operations | what makes it correct |
|---|---|---|---|---|
| Tokenizer, bracket tree | `kan/parser.hpp`, `kan/parser.cpp` | position in the text, tokens, tree under construction | `parse_tokens` and the parsers of characters, `parse_tree` | no character is lost or taken twice, every token ends up in the tree once, trees nest as the brackets do |
| Statement compiler | `kan/executor/stmt_parser.hpp`, `compile` in `compiler.cpp` | position in a block, byte stream per block | `check_condition`, `compile`, `compile_function_signature` | every block is a scope, jump distances match the block behind them, bodies end in a return |
| Expression compiler | `compile_expression`, `get_operation` in `compiler.cpp` | the list that is being reduced, the code so far, the recursion over trees | one case of the switch each | no operand lost or compiled twice, placeholders agree with the stack, the expression's meaning, termination |
| Byte stream | `kan/executor/statements_class.hpp`, `kan/bytebuffer.hpp` | bytes, offset | a writer and a reader per instruction | what is written is what is read |
| Virtual machine | `kan/vm/vm.cpp` | per activation: position, value stack, scopes, arguments | one case of `runcode`'s switch each, `execfunc` | no undefined behaviour on what the compiler writes, calls run the body they name, lines end |
| Scopes | `kan/vm/scope.cpp` | name to object, parent | `set_name`, `decref_names`, `lookup_name` | one reference per binding |
| Objects | `kan/vm/type.cpp`, `kan/vm/std/*.hpp` | kind, reference count, number or text | create, incref, decref, free, call, the operators of `int.hpp` | freed exactly when the last reference goes; operators compute what they are called |
| Type allocator | `kan/vm/smart_allocator.hpp` | one map per translation unit | `allocate_or_get`, `deallocate_all` | no object outlives its type |
| Prompt | `main.cpp`, `kan/easy.hpp` | `vm_meta_t` per line | `main`, `run`, `print` | nothing of one line reaches the next |

Calls go down this table only from the prompt: `run` parses, compiles and then
executes one line. The machine calls itself through `execfunc` for every call of
a function, and comes back into `easy.hpp` for `print`. The parts share the
object graph (stacks, scopes, argument lists and `vm_meta_t` all hold pointers
and counts) and, between compiler and machine, the layout of the stream.

Two facts shape the models. The machine has no working jump: `JMP_IF_FALSE` and
`JMP_IF_TRUE` fall into the default of the switch (`vm.cpp:325`), so control does
not depend on values, and the operand bytes of a jump are executed as opcodes.
And `main.cpp` and `vm.cpp` each have a type allocator of their own, because
`allocator.hpp` declares it `static`.

## Modules

| module | models | notes |
|---|---|---|
| `KanTokens` | `parse_tokens` and the parsers of `default_all_incl` | one action per kind of parser, on real characters |
| `KanTree` | `parse_tree` | the C++ recursion is the stack `open` |
| `KanParse`, `KanParseMC` | the first half of `run`: both of the above on one line | `INSTANCE`s of both; texts, and how tokens are spelled |
| `KanExpr` | `compile_expression`, `get_operation` and their helpers | the C++ recursion is the stack `calls` |
| `KanExprMC` | token lists for it, and what an expression means | reference reading, and the values a piece of code leaves on a stack |
| `KanCompile` | `check_condition`, `compile`, `compile_function_signature`, the writers of `CompileStream` | steps the expressions of a statement with `KanExpr` (`INSTANCE`) |
| `KanCompileMC` | lines for it, their translation, and a reader of streams | jumps are read as `kanvm_doc/ru.md` documents them |
| `KanStream`, `KanStreamMC` | `CompileStream`, `VectorCompileStream`, `bytebuffer.hpp`, and the order in which streams are written, copied and read | every byte |
| `KanLog` | what a stream promises | abstract; `KanStream` implements it |
| `KanNumbers` | `int.hpp`, and the text of a number | operators only |
| `KanVM` | `runcode`, `execfunc`, scopes, reference counts, `print`, `run`, `main` | one action per case of the switch; programs are sequences of blocks of decoded instructions |
| `KanVMMC` | programs for it | statements and bodies put together the way `compile` writes them, sizes of blocks in bytes included |
| `KanVMProofs`, `KanVMCounts`, `KanVMRefs` | theorems about `KanVM` | types, lines, and what the code of a block says of stacks; lemmas about counting; references, arguments, the nesting of calls, heights of stacks and leaks |
| `KanParseProofs`, `KanExprProofs`, `KanCompileProofs`, `KanStreamProofs` | theorems about `KanParse`, `KanExpr`, `KanCompile` and `KanStream` | |
| `KanInduction` | least and greatest elements, induction over sets of numbers, recursive functions | lemmas only |
| `KanRun`, `KanRunMC` | the whole program | composes `KanParse`, `KanCompile`, `KanVM` and `KanNumbers`; lines and their meaning |
| `KanSession` | what the prompt promises | abstract; `KanRun` implements it |

### KanVM

`heap` is every object ever created; a pointer is an index, never reused, so a
dangling pointer stays visible. `frames` are the activations of `runcode`: block,
position, value stack, scopes, arguments, and (`held`) the argument list and the
callable a running call holds in C++ locals. `meta` is `vm_meta_t`; `typeGen`
counts `deallocate_all`. An object has a kind, a count, and for functions the
block it was defined in (`home`: the buffer its address belongs to) and its body.
`lost` is a ghost: references nobody will give back, such as values a body leaves
on its stack or the second count that `CALLB` adds to a `none` that `RET_NULL` has
already counted (`vm.cpp:293`).

A value is only its kind. Nothing the machine does depends on more, since it has
no jump; `KanRun` adds the numbers and the texts, which only `print` shows. Undefined behaviour is explicit: each condition the code does not check
(`StackUnderflow`, `NullDereference`, `NullCall`, `TypeConfusion`, `UseAfterFree`,
`EmptyStringPop`, `SignatureOverrun`, `NoScope`, `StrayCode`) leads to the status
`faulted` and nothing is claimed beyond it. `StrayCode` stands for "the bytes executed
from here are not the ones the compiler wrote for this place", which happens when the
operand byte of a jump swallows other bytes or closes the line's scope early, and when
a function is called through another buffer than the one it was defined in. `NoScope`
is an activation that works on `scopes.back()` and has opened no scope. In the body of a
function that is the global scope: an `else` as its first statement writes a jump over
its `START_SCOPE` (`compiler.cpp:633`), and its `END_SCOPE` then deletes the global scope,
which the top level deletes once more (`vm.cpp:233`).

### KanExpr

`source` is the expression, `calls` the running calls of `compile_expression`
with the list each is reducing, `code` the instructions written. `get_operation`
is a pure operator, `Operation`: the set of offers made by the windows the loop
visits, and the first of the highest priority among them. Every case of the switch
is an action. `rejected` is an abort or an uncaught exception (an operator in the
wrong place, a number `stoi` does not take), `undefined` a null dereference or an
erase past the end. `max_pos` is a `priority_t`, a `uint8_t` (`compiler.hpp:75`): in a
list of more than 256 objects the position an operation was found at wraps, and
another place is compiled. `Positions` is 256 in the code. Things happen there that
no other list shows: the operator's place may hold a bracket tree, an operand or an
operand that was compiled already (`CompileOperand`, `CompileOperator`).

Two readings of the code that are easily missed: `~1+2` is compiled as `~(1+2)`, since
`~` ranks below `+`; and brackets as a right operand are compiled before a left
operand that is a name or a number, so that `1-(2*3)` has its sides exchanged.

### KanCompile

`line` is what `parse_tree` returned, `blocks` the running calls of `compile`: what
is left of the block (`rest`), the stream written so far, the flags the call was
given, and the statement that waits for an expression or for an inner block (`doing`,
`parts`). A statement takes several steps. Its expression is compiled by the actions
of `KanExpr` on `source`, `calls`, `code` and `status`; an inner block is a call of its
own, whose stream is copied behind the instruction that holds its size when it ends.
`StatementParsers` is the list of `compiler.cpp:484` in its order: the first parser
that accepts, or that reads past the last object and throws, decides.

A stream has one cell per byte, so sizes and distances are those of the code. A name
or a string has its real length, a number four bytes that all carry its text. `else`
overwrites the last byte of the stream whatever it is (`ElseBlock`). `rejected` is an
uncaught exception or an abort, `undefined` a write before the first byte or what
`KanExpr` calls undefined, `hanging` the loop that goes round for ever because no
parser accepts and none throws: `else { }` without `if` compiles, `1` without a
semicolon hangs, and a function that is the last statement of a block throws unless a
semicolon follows it, because the parser tried first asks for one.

### KanTokens, KanTree, KanParse

`KanTokens` scans the characters of `text`; `SymbolLength`, `NumberLength`,
`StringFrom` and `NameLength` say how much each parser takes at a place, in the order
of `default_all_incl` (`parser.hpp:415`). A line that ends in a name is rejected:
`parse_id` looks behind it and nobody catches the exception (`parser.hpp:393`).
`KanTree` is `parse_tree`; the end of the tokens closes whatever is open, and a closing
bracket without an open one is a token. `KanParse` runs one after the other.

### KanStream, KanLog

`streams` are the buffers of the running calls of `compile`, with their offsets;
`copies` those that are being copied behind the command that holds their size, some
bytes at a time. Beside its bytes a stream has a `log`: the commands a reader in step
finds in them. `KanLog` says that the reader sees the log from its beginning up to a
command whose parts do not fit their fields: a name of 256 bytes in
`define_function`, 256 arguments of a call (`kanvm_doc/ru.md:30` gives this count 32
bits, `statements_class.hpp:138` eight), a text of 2^16 bytes
(`kanvm_doc/ru.md:22` names 2^16 as the longest).
Behind these the reader takes names for code and may pass the end of the buffer
(`Overread`). Numbers, sizes of blocks and bodies are below 2^31 here (`Huge`), those of
the code below 2^32; `StreamAssumption` says so of numbers, `Fits` of bodies.

### KanNumbers

An `IntObject` holds a float. `KanNumbers` keeps integers up to 2^24, where floats are
exact; every other float (fractions, minus zero, infinities, rounded integers, results
of undefined shifts) is the single value `Other`. `NumberOf` is the float
`compile_literal` gets from `stoi` or `stof`; `stoi` throws above 2^31-1.

### KanRun, KanSession

`stage` says how far `run` is; the other variables are those of the composed modules.
What `KanRun` adds is what passes between them: characters are joined to names
(`Joined`), the tree becomes the objects `compile` is given (`Objects`), and the cells
of the stream become the instructions `runcode` finds when it reads them from the
front (`Fetch`, `Decoded`), operand bytes of jumps included. `values` holds the number
or the text of every object, `printed` what `print` has written.

`KanSession` is the abstract prompt: a line is read; if it makes sense (`Sound`) it
prints its answer in order, leaves as many objects behind as there were, and the prompt
returns; of other lines nothing is promised. `KanRunMC` gives ten lines a meaning,
evaluated from their statements without tokens, trees, instructions or counts. A line
makes sense only if no right operand is an operation (see `MeaningKept`), and if the
size of an `if`'s block is no opcode: its four bytes are executed
(`vm.cpp:325`), and a block of 42 bytes negates the value on the stack. Beside them
there are seven lines with mistakes and six with an `else` (`ElseLines`), behind every
kind of byte it may overwrite: the `START_SCOPE` of a line and of a body, the last letter
of a name, a `RET`, a `POP_OBJECT`. Such a byte becomes an operand or the end of a name
(`Overwritten`), and what is left is still a program to the machine. No property says what
such lines do, but that they have types, run and end.

## Runs

All deadlock checks are off: a prompt that has read its last line, a faulted
machine, a parsed line and a compilation that has ended really stop.

| run | question | instance |
|---|---|---|
| `session` | does a line that makes sense print what it means, free what it made and give the prompt back, after any other line? does the code written for it add up? does every line lead back to the prompt or lose the process? | two lines out of twenty-three, ten of them with a meaning, six with an `else` |
| `vm_any` | are counts exact, up to recorded leaks, and does nothing point to a freed object, at every step of any program until its first undefined behaviour? do the heights of stacks follow from the code? does a program whose code adds up keep to its stacks and free everything? where does a program without a wrong use of a value meet undefined behaviour? do lines go forward and end? | 4 x 26 statements, 14 bodies of `f`; without a wrong use: three statements of 16 kinds, 6 bodies, nested functions |
| `vm_repl` | can a second line reach anything of the first? | two lines, leaking statements |
| `vm_doc_jump`, `vm_doc_call`, `vm_doc_scope`, `vm_doc_uplus` | disagreements with `kanvm_doc/ru.md` | one short program each |
| `expr_any` | is every token list compiled or rejected, no operand twice, even when positions wrap? which sentences does the compiler take, and are they compiled as they are read? | up to four objects of nine kinds; sentences of up to three operands (numbers, nested brackets, calls) or five numbers, three priorities, optional sign; of up to two operands that may be brackets alone in brackets or as an argument, or too large an integer; lists up to five objects beyond `Positions` |
| `expr_doc_calculator` | is KanLang the calculator its README says? | `1-2*3` |
| `compile_any` | is every line compiled or rejected, except those the loop of `compile` never gets past? do the parsers, which overlap, find the statement that was meant; do sizes, jumps, scopes and the byte that `else` overwrites fit together? | up to four pieces of 12 kinds, in any order, blocks included; two statements, blocks of up to two simple ones, nested in functions, classes and `if`/`else` |
| `parse_any` | is every text cut into tokens and nested, or rejected, without losing a character? are sentences read as the tokens they were written from? | texts of up to four characters of twelve kinds; up to five brackets and names; three tokens of twelve and a semicolon, with and without blanks |
| `stream_log` | does the machine read what the compiler wrote, and when does it lose its place? | three commands or blocks, two levels deep, operands at the limits of their fields, blocks copied 100 bytes at a time |

**Bounds.** `MaxRuns` bounds the lines read; two are enough for anything one line
could leave to the next, since `LinesIsolated` is inductive (and proved). Two or
three statements after the definition of a function reach every kind of object on
every kind of holder, a rebinding of a bound name to itself, to another object and
to a result, and calls three deep. Four objects fill a window of `get_operation`
and leave one over, which is where windows that overlap go wrong; three operands
give every pair of priorities and five numbers longer chains. `Positions = 10` puts the
wrap of positions within reach: what happens behind it depends on what stands at the
first places and at the last, not on how many lie between, and all kinds of operands
are tried at both. The longest condition of a statement parser is
five objects, of which a piece such as `func f` is two; the second statement of a
sentence shows that the first ended where it should, and an outer block needs an
inner one of any size for sizes to nest. In sentences an `else` stands behind an `if`.
No parser of characters looks further ahead than it takes, plus one, so four
characters show every pair of neighbours between two others. `CopySize` is 100 instead
of 4096, so that a body of a few commands with long names takes several pieces and one
may end exactly at a boundary; sizes of 255 and 256 bytes are those of the code.

**Fairness.** `FairSpec` of `KanVM` assumes weak fairness of `Execute` only: the
interpreter never waits, but the prompt may wait for ever for a line. `FairSpec` of
`KanExpr`, `KanCompile` and `KanParse` assumes weak fairness of `Next`: parsers and
compiler are loops in one thread and wait for nothing. `KanRun` assumes it of everything
`run` does and not of `ReadLine` and `Exit`; the step from compiler to machine is named
by its guard (`HandOver`), which is all its fairness needs.

**Properties.** In `KanVM`: `RefsExact` (the increments and decrements in
`vm.cpp`, `scope.cpp` and `list.hpp` agree), `ArgumentsLive` (an activation's
arguments are owned by its caller's list), `FramesNest` (calls nest like
definitions, hence no recursion), `TypesValid`, `LinesIsolated` and `LinesEnd`;
`StacksFollowCode` (the values and scopes an activation has depend on the place in the
code alone), `RunsForward` (no step goes back), and, for programs that are `Balanced`,
`NeverShort` (no stack and no list of scopes runs out) and `AllFreed` (a line leaves no
object behind). `Balanced` is a condition on code, read from the front as `runcode` reads
it: each instruction finds what it takes, and a block leaves nothing but what a body
returns. That programs without a wrong use of a value satisfy it is an assumption TLC
evaluates (`CleanProgramsBalanced`), but for those that are not `Sound`: the size of a
block does something as an instruction, or an `else` took the `START_SCOPE` of a body.
That the code `compile` writes for lines that make
sense does is the invariant `SentencesBalanced` of `KanRunMC`. In
`KanVMMC`: `CleanFaults`. Assignments, calls, nested functions, `if` and `else` do meet
undefined behaviour, an ordinary `if` with a block of ten bytes among them; the property
says that this has four causes and no other, each of them to be read off the code: a
block's size that is an opcode with an effect (`vm.cpp:325`), an `else` first in a body
(`compiler.cpp:633`), more arguments than names (`function.hpp:94`), and `print()`
(`easy.hpp:29`). In `KanExpr` and `KanExprMC`: `NoOperandTwice`,
`Compiled`, `SentencesAccepted` (the compiler takes all sentences but those in which a
pair of brackets stands alone, in the line, in brackets or as an argument, where it
erases an object that is not there, and those with an integer above 2^31-1; and it takes
none of these), `PendingValues` (empty tokens in the lists correspond
one to one with values on the machine's stack, at every moment) and `MeaningKept`.

In `KanCompile`: `LinesCompile` and `HangsUnfinished` (what never ends is a block with
no semicolon left in its rest). In `KanCompileMC`: `SentencesTranslated` (a sentence has
the code of its statements), `InstructionsWhole` (at every moment each stream divides
into instructions), `PathsAgree` (whichever documented jumps are taken, a place is
reached with one height of stack and scopes) and `BlocksFit`. `PathsAgree` is about
the stream, not about `KanVM`, which has no jumps: it says that the compiler has kept its
side of `kanvm_doc/ru.md`.

In `KanParse` and `KanParseMC`: `EveryCharacter` (the tokens, written out again, are the
text, strings with their escapes included), `TokensReturn` (what was written from tokens is read as these tokens),
`DigitNames` (a name begins with a digit only where a number gave up, and then ends in front of a dot),
`TreeSpellsTokens`, `BalanceVisible` (brackets without a partner, which nobody reports,
can be told from the tree) and `LinesParsed`. In `KanStream`: `ImplementsLog`,
`AllRead` and `OverreadsOnlyMisfits`. In `KanRun` and `KanRunMC`: `ImplementsSession`,
`SentencesBalanced` and `LinesAnswered`; `TypeOK` of `KanRun` includes that every program handed to the machine
satisfies `WellFormed`, which the theorems below assume of programs, and that its names
are those of the line or `Overwritten` and its results in `Numbers`.

`MeaningKept` and the sentences of `KanRunMC` have a precondition, and it is the point
of them: as long as no right operand is an operation of its own, priorities and grouping
come out as read. Without it the property is false, as `expr_doc_calculator` shows.

## Proofs

| theorem | says, for every value of the constants |
|---|---|
| `KanVMProofs!TypeCorrect` | `Spec => []TypeOK`: no stack, scope, argument list or field of `meta` holds an index that is no object |
| `KanVMProofs!LinesAreIsolated` | `Spec => []LinesIsolated` |
| `KanVMRefs!ReferencesExact` | `Spec => []RefsExact`: counts are the numbers of holders, up to recorded leaks, and nothing holds a freed object |
| `KanVMRefs!ArgumentsStayLive` | `Spec => []ArgumentsLive` |
| `KanVMRefs!FunctionsNest` | `Spec => []FramesNest` |
| `KanVMRefs!TypesStayValid` | `Spec => []TypesValid` |
| `KanVMRefs!CallsAreBounded` | there are never more activations than blocks in the program |
| `KanVMRefs!StacksAreSettled` | `Spec => []StacksFollowCode` |
| `KanVMRefs!BalancedNeverShort` | `Spec => []NeverShort`: if the code of a program adds up, no stack and no list of scopes runs out |
| `KanVMRefs!LinesLeaveNothing` | `Spec => AllFreed`: if the code of a program adds up, its objects are freed when the line ends |
| `KanVMRefs!RunsGoForward` | `Spec => RunsForward`: no step goes back |
| `KanParseProofs!TypeCorrect` | `Spec => []TypeOK`: no parser passes the end of the line, and the tree of the line returns only at the end of the tokens |
| `KanParseProofs!DigitsBeforeDots` | `Spec => []DigitNames` |
| `KanParseProofs!EveryCharacterKept` | `Spec => []EveryCharacter`: the tokens, written out again with blanks between them, are the line |
| `KanParseProofs!CallsNestAsBrackets` | the calls of `parse_tree` that run belong to opening brackets of their kind, one behind the other |
| `KanExprProofs!TypeCorrect` | `Spec => []TypeOK` of the expression compiler, whatever the width of a position |
| `KanExprProofs!OperandsCompiledOnce` | if the operands of the expressions differ, `Spec => []NoOperandTwice` |
| `KanCompileProofs!TypeCorrect` | `Spec => []TypeOK` of the statement compiler, its streams cell by cell |
| `KanCompileProofs!HangsOnlyUnfinished` | `Spec => []HangsUnfinished` |
| `KanStreamProofs!TypeCorrect` | `Spec => []TypeOK` of the stream: bytes are bytes, and while `compile` writes every stream is at its end |
| `KanStreamProofs!DecodedPiece` | `runcode` reads back every command that fits, with all its operands, and goes on right behind it |
| `KanStreamProofs!EverythingRead` | `Spec => []AllRead` |
| `KanStreamProofs!OverreadOnlyBehindMisfits` | `Spec => []OverreadsOnlyMisfits` |
| `KanStreamProofs!Implements` | `Spec => ImplementsLog`: the bytes refine `KanLog` |

**KanVM: types and lines.** The inductive invariant is `IInv`: `TypeOK`,
`LinesIsolated`, `Running` (a machine that runs has a program, a frame and the three
objects of `meta`; one at the prompt has none) and `GlobalScopeOpen`. `TypeOK` alone is
not inductive: that a callee's frame exists follows from `Running`, and that a lookup in a
function may use the global scope from `GlobalScopeOpen`. A function can be called only
when the top level has bound one, which takes an open scope (`NoScope`), and the top level
closes its first scope at its last instruction or stops there (`ClosesEarly`); as long as
it has no scope before that, the line has made no function. An `else` that took the
`START_SCOPE` of the line is a program that never opens any.
There is one lemma per action; the temporal theorems are the last steps.

`ProgramsAssumption` requires `WellFormed` of programs: the top level ends with
`END_SCOPE`, no block is empty, and a body lies behind the block that defines it. `compile`
writes that `END_SCOPE` after all statements, so no `else` can take it; that a block begins
with `START_SCOPE` is not assumed, since an `else` may. The run `session` checks `WellFormed`
(`TypeOK` of `KanRun`) on what the model of the compiler writes for its lines, those with an
`else` included.

**KanVM: references.** `JInv` adds to `IInv`: `RefsExact`; `Activations`, which says that
nothing is held at the prompt, that a caller's list holds what its callee was given
(`ArgumentsHeld`, of which `ArgumentsLive` is a consequence), `FramesNest`, and that calls
lead to blocks further behind (`Descending`, which bounds their depth); and `StoppedTypes`.
The argument does not look at the heap and at the holders together. `KanVMCounts` says
what one push, pop, binding, frame or lost reference does to the number of holders of
*every* object (a function `h` of the objects), and what `Incref`, `Decref` and a new
object do to a heap that is `Exact` for such a function; the lemma of an action is then the
sum of its parts, in the order of the code. Where the code decrements and goes on using an
object - in `CALLB`, in `set_name` on a bound name - the order is what the proof is about.

**KanVM: heights, leaks, and the end of a line.** `Heights` and `Depths` add up what the
instructions of a block take, leave and open. That the sums exist and grow by one
instruction at a time is proved by induction (`TotalsExist`, `TotalsAddUp`). No jump works,
so every instruction is executed once, in its order; and a call leaves one value where the
callable and the arguments were, also when the body had more on its stack, because
`execfunc` returns the top and drops the rest. `StacksFollowCode` is therefore inductive
beside `IInv`, for all programs, those that underflow included: they fault where the sum
does. `RunsForward` follows from the same case analysis; together with `CallsAreBounded`
it is the reason for `LinesEnd`, whose last step (fairness) stays with TLC.
`BInv` adds to `JInv` and `StacksFollowCode`: `LeaksNone`, in a balanced program no
object but `none` has lost a reference; and `FaultCause`, what a machine that stopped for an
underflow says of its program. References are lost only where an activation ends with
values on its stack (`EndHeight` says that a balanced one has none) and where `CALLB` counts
`none` once more. When the line ends, nothing holds any object (`NothingHeld`), hence by
`RefsExact` counts are what was lost, which is nothing; `none` itself is freed by `run`
whatever its count is (`easy.hpp:67`). `Balanced` is the whole of what is assumed of the
program; without it both are false, and `vm_any` has programs of either kind.

**KanParse.** The types rest on what the parsers return. `Runs` shows that the longest run
of characters there is exists; `StringEnds` that `parse_string`, a recursion from the end of
the line to its place that an escape takes two characters at a time, has a value and ends
inside the line. `TokenStep` puts together what all parsers that make a token have in common:
they consume something, not more than there is; what begins with a dot is a dot; and a name
that begins with a digit (`NameStep`) ends in front of one, since the digits and dots
`parse_number` has given back end in a dot and no name goes past the first of them. From
this `DigitNames` follows step by step. That the tree of the line does not return early is
due to the types of tokens: its call waits for a token no parser makes. `CallsNest` says
which brackets the open calls belong to; a call that returns takes the last one away.
`EveryCharacter` speaks of sets of places (`Reached`), which TLC computes; the inductive
invariant is `Retold`: there is a place for the end of each token such that it is what is
written between that place and the one before. A step that makes a token appends a place
(`RetoldToken`), a blank moves none (`RetoldSkip`). The work is in strings: `StringFrom`
reads a string from its end to its beginning, `Unescaped` from its beginning, and
`StringRead` shows that they agree at every place behind an escape or an ordinary character.

**KanExpr.** `PInv` is `TypeOK`, `Placed` (a chosen operation lies inside the list, also
when its position has wrapped), and that every call but the innermost waits.
`NoOperandTwice` is not inductive. `OInv` is: there are sets of texts, one for each object,
such that a text still to be compiled is at one place of one call, and is not yet in the
code (`Once`). A step either keeps what a call has still to compile (`Inherits`), hands
places of its list to a new call (`GivesUp`), or writes code that spells texts it has just
given up (`Spells`). That the list is rewritten by position is why `Placed` is needed:
an operation that removed other objects than it compiled would compile one of them later.

**KanCompile.** An expression is compiled by `KanExpr` under an `INSTANCE`; `SameExpression`
shows that it is the instance `KanExprProofs` is about, whose `PInv` becomes a part of the
invariant `CInv` (`Expressing`). The other parts are the types, `Kept` (a block that waits
has kept objects that begin as its statement does: the block of an `if` is a bracket tree
when the condition has been compiled, the signature of a function is still valid when its
body ends), and that an expression is compiled only for a statement that waits for it.
`NoSemicolon` is the reason for `HangsUnfinished`: the last parser takes whatever stands
before a semicolon. `LinesAssumption` says that trees hold objects and that texts have
lengths, which is what `parse_tree` returns.

**KanStream.** `AllRead` says nothing about the bytes, so the invariant has to. A sequence
of bytes is `Divided` by a log when there are places (`Divides`) between which the bytes
spell the commands of the log (`Spells`). `IInv` says of the writer that every stream is
divided by its log, the innermost one together with what is still to be copied behind it
(`Pending`): `CloseIf` and its likes log a block at once and copy it later, piece by piece.
`else` replaces a byte, which is why a stream an `else` is open in must end in `POP_OBJECT`
(`EndsPopped`). Of the reader it says that, as long as what it has read fits
(`Trusted`), it has read the beginning of the log and stands at the place behind it
(`InStep`). The two meet in `DecodedPiece`: what `Encode` and `define_function` write at a
place is what `Decoded` finds there, which rests on integers of one, two and four bytes
coming back (`SmallByte`, `TwoBytes`, `FourBytes`) and on the names of a signature being
found one behind the other (`SignatureRead`, by induction). The log and the flag `closed`
of `KanLog` are the refinement mapping; a turn of copying is a step of its writer that
changes nothing, the end of reading and an overread are stutters.

**Induction.** The library's induction theorems take an operator as a parameter and cannot
be used here. `KanInduction` derives the same from the least element of a set of numbers,
stated for sets: `Induction`, `UpwardInduction` and `DownwardInduction`, and `Recursion`,
the existence of recursively defined functions. With it the definitions `Visited`,
`ExpressionBytes`, `SignatureBytes`, `SignatureStream`, `NamesFrom`, `StringFrom`, `Unescaped` and `Reached` could be
reasoned about for lists of every length.

**Only model-checked.** Liveness (`LinesEnd`, `Compiled`, `LinesCompile`, `LinesParsed`,
`LinesAnswered`): TLAPS does not reach fairness. The properties of the MC modules (`CleanFaults`,
`SentencesBalanced`, `SentencesAccepted`, `PendingValues`, `MeaningKept`,
`SentencesTranslated`, `InstructionsWhole`, `PathsAgree`, `BlocksFit`,
`TokensReturn`, `TreeSpellsTokens`, `BalanceVisible`): they compare the
model with reference definitions that are recursive, and `KanRun`, `KanRunMC`,
`KanCompileMC`, `KanExprMC` and `KanParseMC` use RECURSIVE operators; that a tree holds
every token in its place (`TreeSpellsTokens`), for instance, is about all trees in trees.
The types of `KanRun`, and that `KanRun` implements `KanSession`.

## Plan

1. Model: done, from the characters of a line to what it prints.
2. Proofs: done for every component whose module is free of RECURSIVE operators. Left is
   the rest of what the machine may rely on in programs the compiler has written: that
   operators meet numbers, calls callables and names objects (a part of `CleanFaults`). `NeverShort` is the
   part of it that does not depend on kinds of values. And that what the compiler writes is
   `Balanced` for every line and not only for those of `session`.

## Not modelled

What the program does behind undefined behaviour; and behind `NoScope`, where a function
goes on in the global scope and the top level ends in a second deletion of it.
Formatting of output and the addresses `print` shows for functions. Floats other than
the exact integers, of which `KanNumbers` makes one value: the conversion of operands to
`int32_t` in every operation (`int.hpp:61`) is undefined beyond 2^31, and so are shifts
by negative counts or by 32 and more. `stof` also throws, for numbers beyond the range of
a float. Hashes, lengths and truth values of objects, which nothing asks for; the map of
the type allocator, of which only the generation of a type is kept. `semantic.hpp`,
`kan_semantic.hpp` and `std/bytebuffer.hpp` (not reached from `main`), and
`jmp_to_address` and `get_from_stack_and_assign`, which nobody calls. `main` does not
test for the end of its input and then repeats the last line, or an empty one, for ever;
in `KanRun` that is a line that is typed again.
