------------------------------- MODULE KanRun -------------------------------
(***************************************************************************)
(* The whole program: main reads a line, and run (easy.hpp) hands it to    *)
(* the parsers, the tree to compile, and the stream to runcode.  Each part *)
(* is the module that describes it; this one adds what passes between      *)
(* them: characters become names, the tree becomes a list of objects, and  *)
(* the bytes of the stream become the instructions runcode finds in them.  *)
(* It also adds what KanVM leaves out: the numbers and the texts objects   *)
(* hold, which print shows.                                                *)
(***************************************************************************)
EXTENDS Integers, Sequences, FiniteSets

CONSTANTS
  Names,  \* the identifiers of the lines, and Overwritten
  Lines,  \* the lines that may be typed, as sequences of characters
  MaxRuns \* bound on the lines that are run

VARIABLES
  stage,                                                    \* how far run is
  text, pos, tokens, scan, taken, open, result,             \* KanParse
  line, blocks, phase, source, calls, code, status,         \* KanCompile
  heap, frames, program, meta, typeGen, runs, machine, fault, \* KanVM
  values,                                                   \* of the objects in heap
  printed                                                   \* what print has written

parser   == <<text, pos, tokens, scan, taken, open, result>>
compiler == <<line, blocks, phase, source, calls, code, status>>
vm       == <<heap, frames, program, meta, typeGen, runs, machine, fault>>
vars     == <<stage, parser, compiler, vm, values, printed>>

P == INSTANCE KanParse WITH Texts <- Lines

C == INSTANCE KanCompile WITH Objects <- {}, Lines <- {}

M == INSTANCE KanVM WITH PrintName <- "print", Programs <- {}, status <- machine

Num == INSTANCE KanNumbers

-----------------------------------------------------------------------------
(* From the tree of the line to the objects compile is given.               *)

\* A text, put together from its characters.
Joined(chars) ==
  LET joined[i \in 0..Len(chars)] == IF i = 0 THEN "" ELSE joined[i - 1] \o chars[i]
  IN joined[Len(chars)]

RECURSIVE Objects(_)
Objects(tree) ==
  [i \in DOMAIN tree |->
     IF "objects" \in DOMAIN tree[i]
     THEN [type |-> tree[i].type, objects |-> Objects(tree[i].objects)]
     ELSE [type |-> tree[i].type, text |-> Joined(tree[i].text)]]

-----------------------------------------------------------------------------
(* From the stream to the instructions runcode finds in it.                 *)

\* A number in some bytes from p on, the last first.
Operand(s, p, bytes) ==
  LET from[i \in 1..bytes] ==
        s[p + i - 1].n + (IF i = bytes THEN 0 ELSE 256 * from[i + 1])
  IN from[1]

\* An else puts its jump in place of the last byte before it, which may be the
\* last letter of a name.  One name stands for all that end in that byte.
Overwritten == "?"

\* The name with its length at p and its letters behind.
NameFrom(s, p) ==
  LET last == p + 1 + Operand(s, p, 2)
  IN IF s[last].op = "TEXT" THEN s[last].text ELSE Overwritten

\* Where the length of the i-th name of a signature stands.
NameAt(s, p, i) ==
  LET at[k \in 1..i] == IF k = 1 THEN p ELSE at[k - 1] + 1 + s[at[k - 1]].n
  IN at[i]

\* One turn of runcode at p: the instruction, the bytes of the function it
\* defines, and where the next turn begins.
Found(instruction, body, next) ==
  [instruction |-> instruction, body |-> body, next |-> next]

FetchFunction(s, p) ==
  LET start == p + 7 + s[p + 5].n
      count == s[p + 6].n
      body  == NameAt(s, start, count + 1)
      end   == body + Operand(s, p + 1, 4)
  IN Found([op |-> "DEFINE_FUNCTION", name |-> s[p + 7].text,
            signature |-> [i \in 1..count |-> s[NameAt(s, start, i) + 1].text],
            body |-> 0],
           SubSeq(s, body, end - 1), end)

RECURSIVE Fetch(_, _), Passed(_, _, _)

\* How many turns take runcode from p to q.
Passed(s, p, q) == IF p >= q THEN 0 ELSE 1 + Passed(s, Fetch(s, p).next, q)

\* An instruction without a case is passed without its operands, which are
\* then fetched themselves; those of a jump over the last byte of a body are
\* not in the body.  The letters of a name are no instructions.
Fetch(s, p) ==
  LET op == s[p].op
  IN CASE op = "BYTE" -> Found(M!OperandByte(s[p].n), <<>>, p + 1)
       [] op \in {"TEXT", "GET_ATTRIBUTESB", "CREATE_TYPE"} ->
            Found([op |-> "NOP"], <<>>, p + 1)
       [] op = "PUSH_INTEGRAL" ->
            Found([op |-> op, number |-> Num!NumberOf(s[p + 2].text)], <<>>, p + 6)
       [] op = "PUSH_STRING" ->
            LET size == Operand(s, p + 1, 2)
            IN Found([op |-> op, text |-> IF size = 0 THEN "" ELSE s[p + 3].text],
                     <<>>, p + 3 + size)
       [] op \in {"LOAD_ID", "SET_NAME"} ->
            Found([op |-> op, name |-> NameFrom(s, p + 1)], <<>>, p + 3 + Operand(s, p + 1, 2))
       [] op = "CALLB" -> Found([op |-> op, argscount |-> s[p + 1].n], <<>>, p + 2)
       [] op \in M!JumpOps ->
            Found([op |-> op,
                   count |-> IF p + 4 > Len(s) THEN 0
                             ELSE Passed(s, p + 1, p + 5 + Operand(s, p + 1, 4))],
                  <<>>, p + 1)
       [] op = "DEFINE_FUNCTION" -> FetchFunction(s, p)
       [] OTHER -> Found([op |-> op], <<>>, p + 1)

\* The stream s as block n of a program, and the bodies of its functions.
RECURSIVE Decoded(_, _)
Decoded(s, n) ==
  LET RECURSIVE From(_, _, _)
      From(p, block, bodies) ==
        IF p > Len(s) THEN <<block>> \o bodies
        ELSE LET f == Fetch(s, p)
                 first == n + 1 + Len(bodies)
             IN IF f.instruction.op = "DEFINE_FUNCTION"
                THEN From(f.next, Append(block, [f.instruction EXCEPT !.body = first]),
                          bodies \o Decoded(f.body, first))
                ELSE From(f.next, Append(block, f.instruction), bodies)
  IN From(1, <<>>, <<>>)

-----------------------------------------------------------------------------
(* The values of objects.                                                   *)

\* IntObject has a number, StringObject a text, the others have no value.
Value(n, chars) == [number |-> n, text |-> chars]

NoValue == Value(0, "")

\* What the object the instruction makes is given.
Given ==
  LET op == M!Instr.op
      number(i) == values[M!Operand(i)].number
  IN CASE op = "PUSH_INTEGRAL" -> Value(M!Instr.number, "")
       [] op = "PUSH_STRING"   -> Value(0, M!Instr.text)
       [] op \in M!BinaryOps   -> Value(Num!Performed(op, number(2), number(1)), "")
       [] op \in M!NegatingOps \cup {"UPLUS"} -> Value(Num!Applied(op, number(1)), "")
       [] OTHER -> NoValue

\* The text print shows for an object depends on nothing but these.
Shown(o) == [kind |-> M!KindOf(o), value |-> values[o]]

-----------------------------------------------------------------------------
(* run and main.                                                            *)

Init ==
  /\ stage = "prompt"
  /\ text = <<>> /\ pos = 0 /\ tokens = <<>> /\ scan = "done"
  /\ taken = 0 /\ open = <<>> /\ result = P!T!NoTree
  /\ line = <<>> /\ blocks = <<>> /\ phase = "done"
  /\ source = <<>> /\ calls = <<>> /\ code = <<>> /\ status = "done"
  /\ M!Init
  /\ values = <<>>
  /\ printed = <<>>

\* A line that is not ".q".
ReadLine(t) ==
  /\ stage = "prompt"
  /\ machine = "prompt"
  /\ runs < MaxRuns
  /\ stage' = "parsing"
  /\ text' = t /\ pos' = 0 /\ tokens' = <<>> /\ scan' = "scanning"
  /\ taken' = 0 /\ open' = <<>> /\ result' = P!T!NoTree
  /\ printed' = <<>>
  /\ UNCHANGED <<compiler, vm, values>>

Parse ==
  /\ stage = "parsing"
  /\ P!Next
  /\ UNCHANGED <<stage, compiler, vm, values, printed>>

StartCompiler ==
  /\ stage = "parsing"
  /\ P!Parsed
  /\ stage' = "compiling"
  /\ line' = Objects(result.objects)
  /\ blocks' = <<C!CompileCall(line', TRUE, FALSE, FALSE)>>
  /\ phase' = "compiling"
  /\ source' = <<>> /\ calls' = <<>> /\ code' = <<>> /\ status' = "done"
  /\ UNCHANGED <<parser, vm, values, printed>>

Compile ==
  /\ stage = "compiling"
  /\ C!Next
  /\ UNCHANGED <<stage, parser, vm, values, printed>>

\* From compile to runcode, whatever the program is.
HandOver == stage = "compiling" /\ phase = "done" /\ stage' = "running"

\* The objects of meta are made here; run has made them before it parsed.
StartMachine ==
  /\ HandOver
  /\ M!Run(Decoded(C!Top.stream, 1))
  /\ values' = values \o [i \in 1..(Len(heap') - Len(heap)) |-> NoValue]
  /\ UNCHANGED <<parser, compiler, printed>>

\* The instruction calls print.
Printing == M!Executing({"CALLB"}) /\ M!KindOf(M!Callable) = "print"

Execute ==
  /\ stage = "running"
  /\ M!Execute
  /\ stage' = IF machine' = "prompt" THEN "prompt" ELSE stage
  /\ values' = IF Len(heap') > Len(heap) THEN Append(values, Given) ELSE values
  /\ printed' = IF Printing
                THEN LET args == M!Arguments(M!Instr.argscount)
                     IN Append(printed, [i \in DOMAIN args |-> Shown(args[i])])
                ELSE printed
  /\ UNCHANGED <<parser, compiler>>

\* The line ".q".
Exit ==
  /\ stage = "prompt"
  /\ M!Exit
  /\ UNCHANGED <<stage, parser, compiler, values, printed>>

Work == Parse \/ StartCompiler \/ Compile \/ StartMachine \/ Execute

Next == (\E t \in Lines : ReadLine(t)) \/ Work \/ Exit

\* main waits for a line as long as it likes; run waits for nothing.
Spec ==
  /\ Init /\ [][Next]_vars
  /\ WF_vars(Parse \/ StartCompiler \/ Compile \/ Execute)
  /\ WF_stage(HandOver)

-----------------------------------------------------------------------------
(* Properties.                                                              *)

\* The process is gone, or it loops: an exception nobody catches, undefined
\* behaviour, or a block the compiler does not get past.
Lost ==
  \/ scan = "rejected"
  \/ phase \in {"rejected", "undefined", "hanging"}
  \/ machine = "faulted"

\* Each part has the state it promises, whatever the part before hands over;
\* what compile wrote, an else in any place included, is a program as KanVM
\* assumes its programs to be (its theorems rest on that).
TypeOK ==
  /\ stage \in {"prompt", "parsing", "compiling", "running"}
  /\ P!TypeOK
  /\ M!TypeOK
  /\ values \in Seq([number : Num!Numbers, text : STRING]) /\ Len(values) = Len(heap)
  /\ machine \in {"running", "faulted"} => stage = "running"

\* Every line that is read, whatever its text, leads back to the prompt or loses
\* the process: no part keeps the next one waiting (run, easy.hpp:42).
LinesAnswered == (stage # "prompt") ~> (stage = "prompt" \/ Lost)

=============================================================================
