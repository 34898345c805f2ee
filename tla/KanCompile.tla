----------------------------- MODULE KanCompile -----------------------------
(***************************************************************************)
(* How the statements of a line become one stream of bytes: check_condition*)
(* (executor/stmt_parser.hpp) and compile (executor/compiler.cpp).         *)
(*                                                                         *)
(* A list of statement parsers is tried on what is left of a block; the    *)
(* first one that accepts decides.  The code of an inner block is written  *)
(* to a stream of its own and copied behind an instruction that holds its  *)
(* size.  Expressions are compiled by KanExpr, step by step.               *)
(*                                                                         *)
(* A stream is a sequence of cells, one for each byte.  The cell of a      *)
(* character holds the whole name or string, and a number of the program   *)
(* is four cells that hold its text.                                       *)
(***************************************************************************)
EXTENDS Integers, Sequences, FiniteSetsExt

CONSTANTS
  Objects, \* the tokens and trees that occur
  Lines    \* the lists of objects parse_tree may return

VARIABLES
  line,   \* the objects of the line
  blocks, \* the running calls of compile, the outermost first
  phase,  \* "compiling", "done", "rejected", "undefined" or "hanging"
  source, \* compile_expression, as in KanExpr
  calls,
  code,
  status

own == <<line, blocks, phase>>
expression == <<source, calls, code, status>>
vars == <<line, blocks, phase, source, calls, code, status>>

E == INSTANCE KanExpr WITH Expressions <- {}, Positions <- 256

ASSUME LinesAssumption ==
  /\ E!EmptyToken \in Objects
  /\ {x.objects : x \in {y \in Objects : E!IsTree(y)}} \subseteq Seq(Objects)
  /\ \A x \in Objects : ~E!IsTree(x) => x.text \in STRING /\ Len(x.text) \in Nat
  /\ Lines \subseteq Seq(Objects)

-----------------------------------------------------------------------------
(* The statement parsers.                                                   *)

Kind(type) == [type |-> type, text |-> ""]
Keyword(text) == [type |-> "ID", text |-> text]

\* open: the statement goes on to the next semicolon, whatever is before it.
Parser(name, conditions, open) ==
  [name |-> name, conditions |-> conditions, open |-> open]

FunctionParts ==
  <<Keyword("func"), Kind("ID"), Kind("BRACKETS"), Kind("BRACES")>>

\* Variant: a function always needs its semicolon.
StatementParsers_OneFunction ==
  << Parser("FUNCTION", Append(FunctionParts, Kind("SEMICOLON")), FALSE),
     Parser("VARIABLE_ASSIGN", <<Kind("ID"), Kind("EQUAL")>>, TRUE),
     Parser("IF", <<Keyword("if"), Kind("BRACKETS"), Kind("BRACES")>>, FALSE),
     Parser("ELSE", <<Keyword("else"), Kind("BRACES")>>, FALSE),
     Parser("RETURN", <<Keyword("return")>>, TRUE),
     Parser("CLASS", <<Keyword("class"), Kind("ID"), Kind("BRACES")>>, FALSE),
     Parser("EXPRESSION", <<>>, TRUE) >>

StatementParsers ==
  << Parser("FUNCTION", Append(FunctionParts, Kind("SEMICOLON")), FALSE),
     Parser("VARIABLE_ASSIGN", <<Kind("ID"), Kind("EQUAL")>>, TRUE),
     Parser("IF", <<Keyword("if"), Kind("BRACKETS"), Kind("BRACES")>>, FALSE),
     Parser("ELSEIF", <<Keyword("else"), Keyword("if"), Kind("BRACES")>>, FALSE),
     Parser("ELSE", <<Keyword("else"), Kind("BRACES")>>, FALSE),
     Parser("RETURN", <<Keyword("return")>>, TRUE),
     Parser("FUNCTION", FunctionParts, FALSE),
     Parser("CLASS", <<Keyword("class"), Kind("ID"), Kind("BRACES")>>, FALSE),
     Parser("EXPRESSION", <<>>, TRUE) >>

\* The first n conditions of p hold of the list.
Met(p, l, n) ==
  /\ n <= Len(l)
  /\ \A i \in 1..n :
       /\ l[i].type = p.conditions[i].type
       /\ p.conditions[i].text # "" => l[i].text = p.conditions[i].text

\* Variant: the object behind the conditions is not looked at.
Ends_Late(p, l) ==
  {i \in (Len(p.conditions) + 2)..Len(l) : l[i].type = "SEMICOLON"}

\* The semicolons p may go on to.
Ends(p, l) ==
  {i \in (Len(p.conditions) + 1)..Len(l) : l[i].type = "SEMICOLON"}

Accepts(p, l) ==
  Met(p, l, Len(p.conditions)) /\ (p.open => Ends(p, l) # {})

\* p asks for the object behind the last one: nobody catches the exception.
Throws(p, l) ==
  /\ Len(l) < Len(p.conditions) + (IF p.open THEN 1 ELSE 0)
  /\ Met(p, l, Len(l))

Deciding(l) ==
  {i \in DOMAIN StatementParsers :
     Accepts(StatementParsers[i], l) \/ Throws(StatementParsers[i], l)}

\* The parser that decides.
Parsed(l) == StatementParsers[Min(Deciding(l))]

Statement(l) ==
  LET p == Parsed(l)
  IN IF Deciding(l) = {} THEN "NONE"
     ELSE IF Throws(p, l) THEN "THROWS" ELSE p.name

\* Where the statement ends.
Length(l) ==
  LET p == Parsed(l)
  IN IF p.open THEN Min(Ends(p, l)) ELSE Len(p.conditions)

\* Its objects, the semicolon of an open one not included.
Parts(l) ==
  SubSeq(l, 1, IF Parsed(l).open THEN Length(l) - 1 ELSE Length(l))

-----------------------------------------------------------------------------
(* Streams.                                                                 *)

Cell(op, n, text) == [op |-> op, n |-> n, text |-> text]

Op(op) == <<Cell(op, 0, "")>>

\* A number in several bytes, the last first; numbers are below 2^31.
Number(n, bytes) ==
  [i \in 1..bytes |->
     Cell("BYTE", IF i > 4 THEN 0 ELSE (n \div 256^(i - 1)) % 256, "")]

Text(text) == [i \in 1..Len(text) |-> Cell("TEXT", 0, text)]

\* push_sized_command: the size has two bytes.
Sized(op, text) ==
  LET size == Len(text) % 65536
  IN Op(op) \o Number(size, 2) \o SubSeq(Text(text), 1, size)

Encode(i) ==
  CASE i.op = "PUSH_INTEGRAL" -> Op(i.op) \o Number(IF E!Num!IsFloat(i.text) THEN 1 ELSE 0, 1)
                               \o [k \in 1..4 |-> Cell("TEXT", 0, i.text)]
    [] i.op \in {"PUSH_STRING", "LOAD_ID", "GET_ATTRIBUTESB"} -> Sized(i.op, i.text)
    [] i.op = "CALLB" -> Op(i.op) \o Number(i.argscount, 1)
    [] OTHER -> Op(i.op)

\* The code KanExpr has written.
ExpressionBytes ==
  LET bytes[i \in 0..Len(code)] ==
        IF i = 0 THEN <<>> ELSE bytes[i - 1] \o Encode(code[i])
  IN bytes[Len(code)]

\* The size of a name, in so many bytes.
Named(text, bytes) == Number(Len(text), bytes)

\* compile_function_signature: of each argument only the first token counts.
SignatureBytes(names) ==
  LET bytes[i \in 0..Len(names)] ==
        IF i = 0 THEN <<>> ELSE bytes[i - 1] \o Named(names[i], 1) \o Text(names[i])
  IN bytes[Len(names)]

Jump(op, block) == Op(op) \o Number(Len(block), 4) \o block

\* Variant: the size is taken before the signature is added to the block.
DefineFunction_SizeWithSignature(name, names, body) ==
  Op("DEFINE_FUNCTION") \o Number(Len(body) + Len(SignatureBytes(names)), 4)
    \o Named(name, 1) \o Number(Len(names), 1) \o Text(name)
    \o SignatureBytes(names) \o body

DefineFunction(name, names, body) ==
  Op("DEFINE_FUNCTION") \o Number(Len(body), 4)
    \o Named(name, 1) \o Number(Len(names), 1) \o Text(name)
    \o SignatureBytes(names) \o body

\* No opcode: the method is found by its place in the class.
AddClassMethod(name, names, body) ==
  Named(name, 1) \o Number(Len(body), 4) \o Number(Len(names), 1) \o Text(name)
    \o SignatureBytes(names) \o body

CreateClass(name, block) ==
  Op("CREATE_TYPE") \o Named(name, 1) \o Number(Len(block), 8) \o Text(name) \o block

\* Variant: the jump is added, and the last byte stays.
ElseBlock_Appends(stream, block) ==
  stream \o Jump("JMP_IF_TRUE", block) \o Op("POP_OBJECT")

\* else_block: the last byte, taken for the POP_OBJECT of an if, becomes a jump.
ElseBlock(stream, block) ==
  SubSeq(stream, 1, Len(stream) - 1) \o Jump("JMP_IF_TRUE", block)
    \o Op("POP_OBJECT")

-----------------------------------------------------------------------------
(* Calls of compile.                                                        *)

\* doing is the statement that waits for an expression or an inner block,
\* parts its objects.
CompileCall(objects, scope, function, class) ==
  [rest |-> objects, stream |-> IF scope THEN Op("START_SCOPE") ELSE <<>>,
   scope |-> scope, function |-> function, class |-> class,
   hasReturn |-> FALSE, doing |-> "statements", parts |-> <<>>]

Top == blocks[Len(blocks)]

SetTop(b) == [blocks EXCEPT ![Len(blocks)] = b]

Compiling(doing) == phase = "compiling" /\ Top.doing = doing

At(name) ==
  /\ Compiling("statements")
  /\ Top.rest # <<>>
  /\ Statement(Top.rest) = name

\* The innermost call goes on behind the statement at hand and waits.
Waiting(doing) ==
  [Top EXCEPT !.rest = SubSeq(@, Length(@) + 1, Len(@)),
              !.parts = Parts(Top.rest), !.doing = doing]

Evaluate(objects) ==
  /\ source' = objects
  /\ calls' = <<E!CallOn(objects)>>
  /\ code' = <<>>
  /\ status' = "compiling"

\* The statement starts with an expression.
Start(doing, objects) ==
  /\ blocks' = SetTop(Waiting(doing))
  /\ Evaluate(objects)
  /\ UNCHANGED <<line, phase>>

Enter(caller, call) ==
  /\ blocks' = Append(SetTop(caller), call)
  /\ UNCHANGED <<line, phase, source, calls, code, status>>

\* Variant: the statement goes on while its expression is compiled.
Evaluated_TooSoon(doing) == Compiling(doing)

\* The expression of the statement is compiled.
Evaluated(doing) == Compiling(doing) /\ status = "done"

Write(bytes) ==
  /\ blocks' = SetTop([Top EXCEPT !.stream = @ \o bytes, !.doing = "statements"])
  /\ UNCHANGED <<line, phase, source, calls, code, status>>

-----------------------------------------------------------------------------
(* Statements without a block.                                              *)

Init ==
  /\ line \in Lines
  /\ blocks = <<CompileCall(line, TRUE, FALSE, FALSE)>>
  /\ phase = "compiling"
  /\ source = <<>>
  /\ calls = <<>>
  /\ code = <<>>
  /\ status = "done"

CompileExpression ==
  /\ phase = "compiling"
  /\ status = "compiling"
  /\ E!Next
  /\ UNCHANGED own

Assign ==
  /\ At("VARIABLE_ASSIGN")
  /\ LET parts == Parts(Top.rest) IN Start("assign", SubSeq(parts, 3, Len(parts)))

EndAssign ==
  /\ Evaluated("assign")
  /\ Write(ExpressionBytes \o Sized("SET_NAME", Top.parts[1].text))

Return ==
  /\ At("RETURN")
  /\ Start("return", Tail(Parts(Top.rest)))

EndReturn ==
  /\ Evaluated("return")
  /\ blocks' = SetTop([Top EXCEPT !.stream = @ \o ExpressionBytes \o Op("RET"),
                                  !.doing = "statements", !.hasReturn = TRUE])
  /\ UNCHANGED <<line, phase, source, calls, code, status>>

Expression ==
  /\ At("EXPRESSION")
  /\ Start("expression", Parts(Top.rest))

\* Variant: the value of an expression stays on the stack.
EndExpression_KeepsValue ==
  /\ Evaluated("expression")
  /\ Write(ExpressionBytes)

EndExpression ==
  /\ Evaluated("expression")
  /\ Write(ExpressionBytes \o Op("POP_OBJECT"))

\* Recognised, and nothing is compiled.
ElseIf ==
  /\ At("ELSEIF")
  /\ blocks' = SetTop(Waiting("statements"))
  /\ UNCHANGED <<line, phase, source, calls, code, status>>

-----------------------------------------------------------------------------
(* Statements with a block.                                                 *)

\* The names of a signature, or what stands in their place.
Arguments(l) == E!SplitByComma(l)

SignatureValid(l) ==
  \A i \in DOMAIN Arguments(l) :
    Arguments(l)[i] # <<>> /\ Arguments(l)[i][1].type = "ID"

Signature(l) == [i \in DOMAIN Arguments(l) |-> Arguments(l)[i][1].text]

If ==
  /\ At("IF")
  /\ Start("condition", Parts(Top.rest)[2].objects)

IfBlock ==
  /\ Evaluated("condition")
  /\ Enter([Top EXCEPT !.stream = @ \o ExpressionBytes, !.doing = "if"],
           CompileCall(Top.parts[3].objects, TRUE, FALSE, FALSE))

Else ==
  /\ At("ELSE")
  /\ Enter(Waiting("else"),
           CompileCall(Parts(Top.rest)[2].objects, FALSE, FALSE, FALSE))

\* Variant: the body has no scope of its own.
Function_NoScope ==
  /\ At("FUNCTION")
  /\ LET parts == Parts(Top.rest)
     IN /\ SignatureValid(parts[3].objects)
        /\ Enter(Waiting("function"), CompileCall(parts[4].objects, FALSE, TRUE, FALSE))

Function ==
  /\ At("FUNCTION")
  /\ LET parts == Parts(Top.rest)
     IN /\ SignatureValid(parts[3].objects)
        /\ Enter(Waiting("function"), CompileCall(parts[4].objects, TRUE, TRUE, FALSE))

Class ==
  /\ At("CLASS")
  /\ Enter(Waiting("class"),
           CompileCall(Parts(Top.rest)[3].objects, FALSE, FALSE, TRUE))

\* The end of a call of compile.
Ended == Compiling("statements") /\ Top.rest = <<>>

\* Variant: a return is taken for the end of the scope.
Compiled_ScopeReturns ==
  Top.stream
    \o (IF Top.scope /\ ~Top.hasReturn THEN Op("END_SCOPE") ELSE <<>>)
    \o (IF Top.function THEN Op(IF Top.hasReturn THEN "RET" ELSE "RET_NULL")
        ELSE <<>>)

\* What it has written.
Compiled ==
  Top.stream
    \o (IF Top.scope THEN Op("END_SCOPE") ELSE <<>>)
    \o (IF Top.function THEN Op(IF Top.hasReturn THEN "RET" ELSE "RET_NULL")
        ELSE <<>>)

Outer == blocks[Len(blocks) - 1]

EndedFor(doing) == Ended /\ Len(blocks) > 1 /\ Outer.doing = doing

\* The inner call returns and its caller has the given stream.
Leave(stream) ==
  /\ blocks' = Append(SubSeq(blocks, 1, Len(blocks) - 2),
                      [Outer EXCEPT !.stream = stream, !.doing = "statements"])
  /\ UNCHANGED <<line, phase, source, calls, code, status>>

EndIf ==
  /\ EndedFor("if")
  /\ Leave(Outer.stream \o Jump("JMP_IF_FALSE", Compiled) \o Op("POP_OBJECT"))

EndElse ==
  /\ EndedFor("else")
  /\ Outer.stream # <<>>
  /\ Leave(ElseBlock(Outer.stream, Compiled))

EndFunction ==
  /\ EndedFor("function")
  /\ LET name == Outer.parts[2].text
         names == Signature(Outer.parts[3].objects)
     IN Leave(Outer.stream
                \o IF Outer.class THEN AddClassMethod(name, names, Compiled)
                   ELSE DefineFunction(name, names, Compiled))

EndClass ==
  /\ EndedFor("class")
  /\ Leave(Outer.stream \o CreateClass(Outer.parts[2].text, Compiled))

Finish ==
  /\ Ended
  /\ Len(blocks) = 1
  /\ phase' = "done"
  /\ blocks' = SetTop([Top EXCEPT !.stream = Compiled])
  /\ UNCHANGED <<line, source, calls, code, status>>

-----------------------------------------------------------------------------
(* Lines that do not compile.                                               *)

Stop(how) == phase' = how /\ UNCHANGED <<line, blocks, source, calls, code, status>>

\* Variant: compile catches what a statement throws and goes round again.
Reject_Swallowed ==
  /\ At("THROWS")
  /\ Stop("compiling")

\* An exception nobody catches, or abort.
Reject ==
  /\ \/ At("THROWS")
     \/ phase = "compiling" /\ status = "rejected"
     \/ At("FUNCTION") /\ ~SignatureValid(Parts(Top.rest)[3].objects)
  /\ Stop("rejected")

\* compile_expression, or a write before the first byte of the stream.
Crash ==
  /\ \/ phase = "compiling" /\ status = "undefined"
     \/ EndedFor("else") /\ Outer.stream = <<>>
  /\ Stop("undefined")

\* No parser accepts and none throws: the loop goes round for ever.
Hang == At("NONE") /\ Stop("hanging")

Next ==
  \/ CompileExpression
  \/ Assign \/ EndAssign \/ Return \/ EndReturn \/ Expression \/ EndExpression
  \/ ElseIf
  \/ If \/ IfBlock \/ EndIf \/ Else \/ EndElse
  \/ Function \/ EndFunction \/ Class \/ EndClass
  \/ Finish
  \/ Reject \/ Crash \/ Hang

Spec == Init /\ [][Next]_vars

\* The compiler waits for nothing.
FairSpec == Spec /\ WF_vars(Next)

-----------------------------------------------------------------------------
(* Properties.                                                              *)

CellOps ==
  E!Opcodes
    \cup {"BYTE", "TEXT", "SET_NAME", "RET", "RET_NULL", "POP_OBJECT", "START_SCOPE",
          "END_SCOPE", "JMP_IF_FALSE", "JMP_IF_TRUE", "DEFINE_FUNCTION", "CREATE_TYPE"}

CellRecord == [op : CellOps, n : 0..255, text : E!Texts]

BlockRecord ==
  [rest : E!Lists, stream : Seq(CellRecord), scope : BOOLEAN,
   function : BOOLEAN, class : BOOLEAN, hasReturn : BOOLEAN,
   doing : {"statements", "assign", "return", "expression", "condition", "if",
            "else", "function", "class"},
   parts : E!Lists]

\* The types of the variables; an expression is compiled only for a statement
\* that waits for it.
TypeOK ==
  /\ line \in E!Lists
  /\ blocks \in Seq(BlockRecord) /\ blocks # <<>>
  /\ phase \in {"compiling", "done", "rejected", "undefined", "hanging"}
  /\ source \in E!Lists /\ calls \in Seq(E!CallRecord) /\ code \in Seq(E!CodeRecord)
  /\ status = "compiling" =>
       calls # <<>> /\ Top.doing \in {"assign", "return", "expression", "condition"}

\* compile never ends when no parser accepts what is left of a block
\* (compiler.cpp:544); that takes a rest in which no semicolon is left.
HangsUnfinished ==
  phase = "hanging" => \A i \in DOMAIN Top.rest : Top.rest[i].type # "SEMICOLON"

\* Apart from that, every line is compiled or rejected, however its blocks and
\* expressions are nested.
LinesCompile == (phase = "compiling") ~> (phase # "compiling")

=============================================================================
