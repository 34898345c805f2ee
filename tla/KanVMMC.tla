------------------------------ MODULE KanVMMC ------------------------------
(***************************************************************************)
(* Programs for KanVM, put together as compile (compiler.cpp) does it: a   *)
(* top level that defines one function f and runs a few statements, where  *)
(* the body of f may define a function g.                                  *)
(***************************************************************************)
EXTENDS KanVM, SequencesExt

CONSTANTS
  MCFirst,       \* the statements the top level begins with
  MCRest,        \* the statements it goes on with
  MCLength,      \* how many of them
  MCBodies,      \* the bodies of f
  MCClean,       \* statements that use values as what they are
  MCCleanLength, \* how many of them
  MCCleanBodies  \* the bodies they are used with

-----------------------------------------------------------------------------
(* Expressions and statements.                                              *)

MCNames == {"print", "x", "f", "a", "g"}

Plain(op) == [op |-> op]
Do(op) == <<Plain(op)>>
Load(n) == <<[op |-> "LOAD_ID", name |-> n]>>
Call(f, args) ==
  Load(f) \o FlattenSeq(args) \o <<[op |-> "CALLB", argscount |-> Len(args)]>>
Bin(op, left, right) == left \o right \o Do(op)
Un(op, operand) == operand \o Do(op)

Eval(e) == e \o Do("POP_OBJECT")
Assign(n, e) == e \o <<[op |-> "SET_NAME", name |-> n]>>
Give(e) == e \o Do("RET")

NameLength(n) == IF n = "print" THEN 5 ELSE 1

\* Bytes of an instruction; strings are one character long.
Bytes(i) ==
  CASE i.op = "PUSH_INTEGRAL" -> 6
    [] i.op = "PUSH_STRING" -> 4
    [] i.op \in {"LOAD_ID", "SET_NAME"} -> 3 + NameLength(i.name)
    [] i.op = "CALLB" -> 2
    [] OTHER -> 1

Size(code) == FoldLeft(LAMBDA sum, i : sum + Bytes(i), 0, code)

\* uint32_t, little endian, below 256.
Operand32(n) ==
  <<OperandByte(n), OperandByte(0), OperandByte(0), OperandByte(0)>>

Block(stmts) == Do("START_SCOPE") \o stmts \o Do("END_SCOPE")

Jump(op, block) ==
  <<[op |-> op, count |-> 4 + Len(block)]>> \o Operand32(Size(block)) \o block

If(cond, stmts) ==
  cond \o Jump("JMP_IF_FALSE", Block(stmts)) \o Do("POP_OBJECT")

\* The last byte of the if statement is replaced; the block has no scope.
IfElse(cond, stmts, other) ==
  cond \o Jump("JMP_IF_FALSE", Block(stmts))
       \o Jump("JMP_IF_TRUE", other) \o Do("POP_OBJECT")

\* An else that is the first statement of a block: its jump replaces the
\* START_SCOPE of that block.
ElseFirst(other) == Jump("JMP_IF_TRUE", other) \o Do("POP_OBJECT")

Define(n, signature, body) ==
  <<[op |-> "DEFINE_FUNCTION", name |-> n, signature |-> signature,
     body |-> body]>>

Body(stmts, end) == Block(stmts) \o Do(end)

-----------------------------------------------------------------------------
(* The pieces.                                                              *)

One == Do("PUSH_INTEGRAL")
Str == Do("PUSH_STRING")

Statements ==
  [assign_one    |-> Assign("x", One),
   assign_str    |-> Assign("x", Str),
   assign_none   |-> Assign("x", Do("PUSH_NONE")),
   assign_self   |-> Assign("x", Load("x")),
   assign_sum    |-> Assign("x", Bin("PLUSB", Load("x"), Load("x"))),
   assign_call   |-> Assign("x", Call("f", <<Load("x")>>)),
   result_a      |-> Assign("a", Call("f", <<Load("x")>>)),
   assign_f      |-> Assign("x", Load("f")),
   call_one      |-> Eval(Call("f", <<One>>)),
   call_x        |-> Eval(Call("f", <<Load("x")>>)),
   call_f        |-> Eval(Call("f", <<Load("f")>>)),
   call_str      |-> Eval(Call("f", <<Str>>)),
   call_nested   |-> Eval(Call("print", <<Call("f", <<Load("x")>>), One>>)),
   call_short    |-> Eval(Call("f", <<>>)),
   call_long     |-> Eval(Call("f", <<One, Load("x")>>)),
   call_value    |-> Eval(Call("x", <<One>>)),
   print_x       |-> Eval(Call("print", <<Load("x"), Load("x")>>)),
   print_nothing |-> Eval(Call("print", <<>>)),
   negate        |-> Eval(Un("UMINUS", Load("x"))),
   plus          |-> Eval(Un("UPLUS", Load("x"))),
   plus_str      |-> Assign("x", Un("UPLUS", Str)),
   equal         |-> Eval(Bin("EQUALB", Load("x"), One)),
   empty         |-> Eval(<<>>),
   unknown       |-> Eval(Load("g")),
   mixed         |-> Eval(Bin("PLUSB", Load("x"), Str)),
   give          |-> Give(Load("x")),
   if_true       |-> If(Do("PUSH_TRUE"), Assign("x", Str) \o Assign("x", Load("x"))),
   if_else       |-> IfElse(Do("PUSH_FALSE"), Assign("x", One) \o Assign("x", Str),
                            Assign("x", Load("x")) \o Assign("x", Load("x"))),
   if_small      |-> If(Do("PUSH_FALSE"), <<>>),
   if_fifteen    |-> If(Do("PUSH_FALSE"), Assign("x", Str) \o Eval(Str)),
   if_ten        |-> If(Do("PUSH_FALSE"), Assign("x", Str))]

\* f(a): its blocks, the first is its own body.
Bodies ==
  [null        |-> <<Body(<<>>, "RET_NULL")>>,
   give_a      |-> <<Body(Give(Load("a")), "RET")>>,
   give_none   |-> <<Body(Give(Do("PUSH_NONE")), "RET")>>,
   give_sum    |-> <<Body(Assign("a", Bin("MULB", Load("a"), One))
                            \o Give(Load("a")), "RET")>>,
   give_twice  |-> <<Body(Give(Load("a")) \o Give(One), "RET")>>,
   give_void   |-> <<Body(Give(<<>>), "RET")>>,
   rebind      |-> <<Body(Assign("a", Str)
                            \o If(Load("a"), Assign("x", Load("a")) \o Assign("x", Load("a")))
                            \o Give(Load("a")), "RET")>>,
   give_in_if  |-> <<Body(If(Load("a"), Give(Load("a")) \o Eval(Call("print", <<Load("a")>>))),
                          "RET_NULL")>>,
   else_first  |-> <<Tail(Body(ElseFirst(Give(Str)) \o Give(One), "RET"))>>,
   again       |-> <<Body(Eval(Call("f", <<Load("a")>>)), "RET_NULL")>>,
   call_a      |-> <<Body(Give(Call("a", <<One>>)), "RET")>>,
   inner       |-> <<Body(Define("g", <<"x">>, 3)
                            \o Assign("a", Call("g", <<Load("a")>>))
                            \o Give(Load("a")), "RET"),
                     Body(Give(Load("x")), "RET")>>,
   give_g      |-> <<Body(Define("g", <<"a">>, 3) \o Give(Load("g")), "RET"),
                     Body(<<>>, "RET_NULL")>>,
   inner_again |-> <<Body(Define("g", <<"a">>, 3)
                            \o Give(Call("g", <<Load("g")>>)), "RET"),
                     Body(Give(Call("a", <<Load("a")>>)), "RET")>>]

Program(f, stmts) ==
  <<Block(Define("f", <<"a">>, 2) \o FlattenSeq(stmts))>> \o Bodies[f]

ProgramsOf(bodies, first, rest, length) ==
  {Program(f, <<Statements[s]>> \o [i \in 1..length |-> Statements[l[i]]]) :
     f \in bodies, s \in first, l \in [1..length -> rest]}

CleanPrograms == ProgramsOf(MCCleanBodies, {"assign_one"}, MCClean, MCCleanLength)

MCPrograms == ProgramsOf(MCBodies, MCFirst, MCRest, MCLength) \cup CleanPrograms

-----------------------------------------------------------------------------
(* Properties of programs without mistakes of their own.                    *)

\* The operand bytes of every jump do nothing when they are executed.
Harmless(code) ==
  \A i \in DOMAIN code :
    code[i].op \in JumpOps => \A j \in i + 1..i + 4 : code[j].op = "NOP"

\* The instruction that put the callable of the call i on the stack: the last
\* one that began at the height the call comes back to.
CallableAt(code, i) ==
  code[Max({j \in 1..i : Heights(code)[j - 1] = Heights(code)[i] - 1})]

CallsWithTooMany(p, code) ==
  \E i \in DOMAIN code, b \in DOMAIN p : \E d \in DOMAIN p[b] :
    /\ code[i].op = "CALLB"
    /\ p[b][d].op = "DEFINE_FUNCTION"
    /\ CallableAt(code, i) = [op |-> "LOAD_ID", name |-> p[b][d].name]
    /\ code[i].argscount > Len(p[b][d].signature)

PrintsNothing(code) ==
  \E i \in DOMAIN code :
    /\ code[i].op = "CALLB"
    /\ code[i].argscount = 0
    /\ CallableAt(code, i) = Load(PrintName)[1]

\* All code is harmless, and every block opens its scope.
Sound(p) ==
  \A b \in DOMAIN p : Harmless(p[b]) /\ p[b][1].op = "START_SCOPE"

\* Sound code adds up, which is what AllFreed and NeverShort ask of a program.
ASSUME CleanProgramsBalanced ==
  \A p \in CleanPrograms : Sound(p) => Balanced(p)

\* Assignments, calls, nested functions, if and else meet undefined behaviour
\* in four ways only: the size of a block, executed as four instructions, does
\* something (vm.cpp:325); an else wrote over the START_SCOPE of a body
\* (compiler.cpp:633); a call has more arguments than the function has names
\* (function.hpp:94); print has none (easy.hpp:29).  And a line with such a
\* call never comes to its end.
CleanFaults ==
  program \in CleanPrograms =>
    /\ status = "faulted" =>
         \/ \E b \in DOMAIN program : ~Harmless(program[b])
         \/ fault = "no_scope" /\ ~Sound(program)
         \/ /\ fault = "signature_overrun"
            /\ \E b \in DOMAIN program : CallsWithTooMany(program, program[b])
         \/ /\ fault = "empty_string_pop"
            /\ \E b \in DOMAIN program : PrintsNothing(program[b])
    /\ status = "running" /\ Len(frames) = 1 /\ AtEnd /\ Harmless(program[1]) =>
         /\ ~CallsWithTooMany(program, program[1])
         /\ ~PrintsNothing(program[1])

=============================================================================
