------------------------------ MODULE KanExpr ------------------------------
(***************************************************************************)
(* How an expression becomes instructions: compile_expression and          *)
(* get_operation (executor/compiler.cpp).                                  *)
(*                                                                         *)
(* The compiler has no grammar.  It looks over the flat list of tokens and *)
(* bracket trees, picks the operation of the highest priority, writes its  *)
(* instructions and puts one empty token in its place, until one object is *)
(* left.  An empty token stands for a value that the code written so far   *)
(* leaves on the stack; which value of the stack it is the compiler does   *)
(* not know.                                                               *)
(*                                                                         *)
(* The recursion over bracket trees is the stack calls.  Positions count   *)
(* from 0 as in the code, and the position of an operation is kept in a    *)
(* priority_t, a uint8_t: in a list that is too long for it the operation  *)
(* is looked for in one place and compiled in another.                     *)
(***************************************************************************)
EXTENDS Integers, Sequences, FiniteSets

CONSTANTS
  Objects,     \* the tokens and trees that occur, the empty token included
  Expressions, \* the lists of objects to compile
  Positions    \* the number of values of priority_t, 256

VARIABLES
  source, \* the expression that is compiled
  calls,  \* the running calls of compile_expression, the outermost first
  code,   \* the instructions written so far
  status  \* "compiling", "done", "rejected" or "undefined"

vars == <<source, calls, code, status>>

Num == INSTANCE KanNumbers

-----------------------------------------------------------------------------
(* Tokens and trees, parser.hpp.  A token has a text, a tree a list.        *)

\* AstObject(nullptr): what an operation that was compiled leaves behind.
EmptyToken == [type |-> "SKIP", text |-> ""]

TreeTypes == {"BRACKETS", "BRACES"}

IsTree(x) == x.type \in TreeTypes

\* The texts of the tokens.
Texts == {x.text : x \in {y \in Objects : ~IsTree(y)}}

IsBrackets(x) == x.type = "BRACKETS"

NumberTypes == {"INTEGER", "FLOAT"}

LiteralTypes == NumberTypes \cup {"STRING", "ID"}

OperatorTypes == {"MUL", "DIV", "PLUS", "MINUS", "POW", "LESSER_OR_EQUAL",
                  "EQUALEQUAL", "GREATER", "LESSER", "BIN_OR", "LEFT_SHIFT",
                  "RIGHT_SHIFT", "BIN_XOR", "BIN_AND", "BIN_NOT"}

UnaryTypes == {"MINUS", "PLUS", "BIN_NOT"}

IsOperator(x) == x.type \in OperatorTypes

ASSUME ObjectsAssumption ==
  /\ EmptyToken \in Objects
  /\ \A x \in Objects :
       /\ IsTree(x) => x.objects \in Seq(Objects)
       /\ ~IsTree(x) => x.text \in STRING
  /\ \A e \in Expressions : e \in Seq(Objects)
  /\ Positions \in Nat \ {0}

-----------------------------------------------------------------------------
(* get_operation.                                                           *)

\* Variant: addition ranks with multiplication.
Priority_Flat(x) ==
  CASE x.type = "BRACKETS"                          -> 4
    [] x.type = "DOT"                               -> 5
    [] x.type \in {"MUL", "DIV", "PLUS", "MINUS"}   -> 3
    [] OTHER                                        -> 1

\* get_priority and get_operator_priority.
Priority(x) ==
  CASE x.type = "BRACKETS"         -> 4
    [] x.type = "DOT"              -> 5
    [] x.type \in {"MUL", "DIV"}   -> 3
    [] x.type \in {"PLUS", "MINUS"} -> 2
    [] OTHER                       -> 1

VTop == 6

\* The object at position p.
Obj(l, p) == l[p + 1]

\* What the loop does at an offset: it looks at one object more than an
\* operator, at two objects of a call, at three of anything else.
LooksAtOperator(l, o) == o + 1 < Len(l) /\ IsOperator(Obj(l, o))

LooksAtCall(l, o) ==
  o + 1 < Len(l) /\ ~IsOperator(Obj(l, o)) /\ IsBrackets(Obj(l, o + 1))

LooksAtThree(l, o) ==
  /\ o + 2 < Len(l)
  /\ ~IsOperator(Obj(l, o))
  /\ ~IsBrackets(Obj(l, o + 1))

\* The offsets the loop visits.
Visited(l) ==
  LET visited[o \in 0..Len(l)] ==
        \/ o = 0
        \/ /\ o >= 1
           /\ visited[o - 1]
           /\ LooksAtOperator(l, o - 1) \/ LooksAtCall(l, o - 1)
        \/ o >= 2 /\ visited[o - 2] /\ LooksAtThree(l, o - 2)
  IN {o \in 0..(Len(l) - 1) : visited[o]}

\* max_pos = pos.
Candidate(priority, pos, type, when) ==
  [priority |-> priority, pos |-> pos % Positions, type |-> type, when |-> when]

\* The operations CHECK_AND_SET_PRIORITY is offered at offset o; when orders
\* all the offers.
OffersAt(l, o) ==
  LET first  == Obj(l, o)
      second == Obj(l, o + 1)
      third  == Obj(l, o + 2)
  IN CASE LooksAtOperator(l, o) ->
            {Candidate(Priority(first), o, "UNARY_OP", 4 * o),
             Candidate(Priority(second), o + 1, "BRACKETS", 4 * o + 1)}
       [] LooksAtCall(l, o) ->
            {Candidate(Priority(second), o, "CALL", 4 * o)}
       [] LooksAtThree(l, o) ->
            {Candidate(Priority(second), o, "BINARY_OP", 4 * o + 3)}
              \cup {Candidate(IF p = o + 2 THEN Priority(third)
                              ELSE IF second.type = "DOT" THEN VTop
                              ELSE Priority(first), p, "BRACKETS", 3 * o + p) :
                      p \in {q \in {o, o + 2} : IsTree(Obj(l, q))}}
       [] OTHER -> {}

Offers(l) == UNION {OffersAt(l, o) : o \in Visited(l)}

\* The loop meets an operator without operand or braces in the place of one,
\* or is offered nothing.
Malformed(l) ==
  \/ Offers(l) = {}
  \/ \E o \in Visited(l) :
       \/ IsOperator(Obj(l, o)) /\ o + 1 = Len(l)
       \/ LooksAtOperator(l, o) /\ Obj(l, o + 1).type = "BRACES"
       \/ /\ LooksAtThree(l, o)
          /\ \E p \in o..(o + 2) : Obj(l, p).type = "BRACES"

\* The first of the offers with the highest priority.
Operation(l) ==
  LET offers == Offers(l)
  IN CASE Len(l) = 1 -> Candidate(0, 0, "DONE", 0)
       [] Len(l) # 1 /\ Malformed(l) -> Candidate(0, 0, "ERROR", 0)
       [] OTHER -> CHOOSE c \in offers :
                     \A d \in offers :
                       \/ c.priority > d.priority
                       \/ c.priority = d.priority /\ c.when <= d.when

-----------------------------------------------------------------------------
(* Instructions.                                                            *)

Instruction(op, text, argscount) ==
  [op |-> op, text |-> text, argscount |-> argscount]

Keywords == {"true", "false", "null", "None"}

\* compile_literal: a tree and an empty token write nothing, and stoi throws.
Compilable(x) ==
  /\ x.type \in LiteralTypes \cup TreeTypes \cup {"SKIP"}
  /\ x.type = "INTEGER" => ~Num!OutOfRange(x.text)

Literal(x) ==
  CASE x.type \in NumberTypes -> <<Instruction("PUSH_INTEGRAL", x.text, 0)>>
    [] x.type = "STRING" -> <<Instruction("PUSH_STRING", x.text, 0)>>
    [] x.type = "ID" /\ x.text \notin Keywords ->
         <<Instruction("LOAD_ID", x.text, 0)>>
    [] x.type = "ID" /\ x.text \in Keywords ->
         <<Instruction(CASE x.text = "true"  -> "PUSH_TRUE"
                         [] x.text = "false" -> "PUSH_FALSE"
                         [] OTHER            -> "PUSH_NONE", "", 0)>>
    [] OTHER -> <<>>

UnaryInstruction(x) ==
  <<Instruction(CASE x.type = "PLUS"  -> "UPLUS"
                  [] x.type = "MINUS" -> "UMINUS"
                  [] OTHER            -> "BIN_NOTB", "", 0)>>

BinaryOpcode ==
  [type \in {"PLUS", "MINUS", "MUL", "DIV", "LEFT_SHIFT", "RIGHT_SHIFT",
             "BIN_OR", "BIN_XOR", "BIN_AND", "LESSER", "GREATER", "EQUALEQUAL",
             "GREATER_OR_EQUAL", "LESSER_OR_EQUAL"} |->
     CASE type = "PLUS"             -> "PLUSB"
       [] type = "MINUS"            -> "MINUSB"
       [] type = "MUL"              -> "MULB"
       [] type = "DIV"              -> "DIVB"
       [] type = "LEFT_SHIFT"       -> "LEFT_SHIFTB"
       [] type = "RIGHT_SHIFT"      -> "RIGHT_SHIFTB"
       [] type = "BIN_OR"           -> "BIN_ORB"
       [] type = "BIN_XOR"          -> "BIN_XORB"
       [] type = "BIN_AND"          -> "BIN_ANDB"
       [] type = "LESSER"           -> "LESSERB"
       [] type = "GREATER"          -> "GREATERB"
       [] type = "EQUALEQUAL"       -> "EQUALB"
       [] type = "GREATER_OR_EQUAL" -> "GREATER_OR_EQUALB"
       [] type = "LESSER_OR_EQUAL"  -> "LESSER_OR_EQUALB"]

\* Two objects with no operator the switch knows between them stay two values.
BinaryInstruction(x) ==
  IF x.type \in DOMAIN BinaryOpcode
  THEN <<Instruction(BinaryOpcode[x.type], "", 0)>>
  ELSE <<>>

-----------------------------------------------------------------------------
(* Lists.                                                                   *)

\* Variant: one object too few is erased.
ReplaceWithEmpty_OneShort(l, pos, count) ==
  SubSeq(l, 1, pos) \o <<EmptyToken>> \o SubSeq(l, pos + count, Len(l))

\* replace_object_with_empty_token.
ReplaceWithEmpty(l, pos, count) ==
  SubSeq(l, 1, pos) \o <<EmptyToken>> \o SubSeq(l, pos + count + 1, Len(l))

Commas(l) == {i \in 1..Len(l) : l[i].type = "COMMA"}

\* The i-th comma; the list is between two more of them.
Comma(l, i) ==
  IF i = 0 THEN 0
  ELSE IF i > Cardinality(Commas(l)) THEN Len(l) + 1
  ELSE CHOOSE p \in Commas(l) : Cardinality({q \in Commas(l) : q <= p}) = i

\* Variant: the last argument is dropped together with the comma before it.
SplitByComma_NoLast(l) ==
  [i \in 1..Cardinality(Commas(l)) |->
     SubSeq(l, Comma(l, i - 1) + 1, Comma(l, i) - 1)]

\* Variant: an empty list at the end is kept.
SplitByComma_KeepsEmpty(l) ==
  [i \in 1..(Cardinality(Commas(l)) + 1) |->
     SubSeq(l, Comma(l, i - 1) + 1, Comma(l, i) - 1)]

\* split_by_token: an empty list at the end is dropped, no other one is.
SplitByComma(l) ==
  LET n == Cardinality(Commas(l)) + 1
      Piece(i) == SubSeq(l, Comma(l, i - 1) + 1, Comma(l, i) - 1)
  IN [i \in 1..(IF Piece(n) = <<>> THEN n - 1 ELSE n) |-> Piece(i)]

-----------------------------------------------------------------------------
(* compile_expression.                                                      *)

\* A call of compile_expression.  doing is the operation it is at, or what it
\* waits for, at its position, rest the arguments still to be compiled.
CallOn(l) ==
  [objects |-> l, doing |-> "loop", at |-> 0, rest |-> <<>>, count |-> 0]

Top == calls[Len(calls)]

\* The objects of the operation.
First == Obj(Top.objects, Top.at)
Second == Obj(Top.objects, Top.at + 1)
Third == Obj(Top.objects, Top.at + 2)

Doing(what) == status = "compiling" /\ Top.doing = what

SetTop(c) == [calls EXCEPT ![Len(calls)] = c]

\* The operation at pos, count objects long, has been compiled.
Replaced(pos, count) ==
  [Top EXCEPT !.objects = ReplaceWithEmpty(@, pos, count), !.doing = "loop"]

\* The innermost call waits for a call on the list l.
Descend(caller, l) == calls' = Append(SetTop(caller), CallOn(l))

Init ==
  /\ source \in Expressions
  /\ calls = <<CallOn(source)>>
  /\ code = <<>>
  /\ status = "compiling"

\* The loop of the innermost call goes round once more.
GetOperation ==
  /\ Doing("loop")
  /\ Top.objects # <<>>
  /\ LET op == Operation(Top.objects)
     IN calls' = SetTop([Top EXCEPT !.doing = op.type, !.at = op.pos])
  /\ UNCHANGED <<source, code, status>>

CompileBrackets ==
  /\ Doing("BRACKETS")
  /\ IsTree(First)
  /\ Descend([Top EXCEPT !.doing = "brackets"], First.objects)
  /\ UNCHANGED <<source, code, status>>

\* An operand in brackets never gets here: brackets rank higher.
CompileUnary ==
  /\ Doing("UNARY_OP")
  /\ First.type \in UnaryTypes
  /\ Compilable(Second)
  /\ code' = code \o Literal(Second)
                  \o UnaryInstruction(First)
  /\ calls' = SetTop(Replaced(Top.at, 2))
  /\ UNCHANGED <<source, status>>

\* An operand is a tree only in the wrong place: brackets rank higher.
CompileOperand ==
  /\ Doing("BINARY_OP")
  /\ IsTree(First)
  /\ Descend([Top EXCEPT !.doing = "operand"], First.objects)
  /\ UNCHANGED <<source, code, status>>

\* For the third object, a tree, the second one is compiled.
CompileOperator ==
  /\ Doing("BINARY_OP")
  /\ Compilable(First) /\ ~IsTree(First)
  /\ IsTree(Second) /\ IsTree(Third)
  /\ code' = code \o Literal(First)
  /\ Descend([Top EXCEPT !.doing = "operator"], Second.objects)
  /\ UNCHANGED <<source, status>>

CompileBinary ==
  /\ Doing("BINARY_OP")
  /\ Second.type # "DOT"
  /\ Compilable(First) /\ Compilable(Third)
  /\ ~IsTree(First) /\ ~IsTree(Third)
  /\ code' = code \o Literal(First) \o Literal(Third)
                  \o BinaryInstruction(Second)
  /\ calls' = SetTop(Replaced(Top.at, 3))
  /\ UNCHANGED <<source, status>>

\* An attribute is a name; what is before the dot is compiled first.
CompileAttribute ==
  /\ Doing("BINARY_OP")
  /\ Second.type = "DOT"
  /\ Compilable(First) /\ ~IsTree(First) /\ Third.type = "ID"
  /\ code' = code \o Literal(First)
                  \o <<Instruction("GET_ATTRIBUTESB",
                                   Third.text, 0)>>
  /\ calls' = SetTop(Replaced(Top.at, 3))
  /\ UNCHANGED <<source, status>>

\* Variant: the commas are counted, less the one at the end.
StartCall_CountsCommas ==
  /\ Doing("CALL")
  /\ Compilable(First) /\ IsTree(Second)
  /\ code' = code \o Literal(First)
  /\ LET args == SplitByComma(Second.objects)
     IN calls' = SetTop([Top EXCEPT !.doing = "arguments",
                                    !.rest = args, !.count = Len(args) - 1])
  /\ UNCHANGED <<source, status>>

StartCall ==
  /\ Doing("CALL")
  /\ Compilable(First) /\ IsTree(Second)
  /\ code' = code \o Literal(First)
  /\ LET args == SplitByComma(Second.objects)
     IN calls' = SetTop([Top EXCEPT !.doing = "arguments",
                                    !.rest = args, !.count = Len(args)])
  /\ UNCHANGED <<source, status>>

NextArgument ==
  /\ Doing("arguments")
  /\ Top.rest # <<>>
  /\ Descend([Top EXCEPT !.rest = Tail(@)], Head(Top.rest))
  /\ UNCHANGED <<source, code, status>>

EndCall ==
  /\ Doing("arguments")
  /\ Top.rest = <<>>
  /\ code' = Append(code, Instruction("CALLB", "", Top.count))
  /\ calls' = SetTop(Replaced(Top.at, 2))
  /\ UNCHANGED <<source, status>>

\* The one object that is left.
CompileLast ==
  /\ Doing("DONE")
  /\ ~IsTree(First)
  /\ Compilable(First)
  /\ code' = code \o Literal(First)
  /\ calls' = SetTop([Top EXCEPT !.doing = "finished"])
  /\ UNCHANGED <<source, status>>

CompileLastBrackets ==
  /\ Doing("DONE")
  /\ IsTree(First)
  /\ Descend([Top EXCEPT !.doing = "last"], First.objects)
  /\ UNCHANGED <<source, code, status>>

Finished ==
  \/ Doing("finished")
  \/ Doing("loop") /\ Top.objects = <<>>

Caller == calls[Len(calls) - 1]

\* What the caller goes on with.
Resumed(c) ==
  CASE c.doing = "brackets" ->
         [c EXCEPT !.objects = ReplaceWithEmpty(@, c.at, 1), !.doing = "loop"]
    [] c.doing = "operand" ->
         [c EXCEPT !.objects = ReplaceWithEmpty(@, c.at, 1), !.doing = "BINARY_OP"]
    [] c.doing = "operator" ->
         [c EXCEPT !.objects = ReplaceWithEmpty(@, c.at, 3), !.doing = "loop"]
    [] OTHER -> c

ReturnToCaller ==
  /\ Finished
  /\ Len(calls) > 1
  /\ Caller.doing # "last"
  /\ calls' = Append(SubSeq(calls, 1, Len(calls) - 2), Resumed(Caller))
  /\ UNCHANGED <<source, code, status>>

ReturnFromCompiler ==
  /\ Finished
  /\ Len(calls) = 1
  /\ status' = "done"
  /\ UNCHANGED <<source, calls, code>>

\* The objects an operation compiles as literals.
LiteralOperands ==
  CASE Top.doing = "UNARY_OP" -> {Second}
    [] Top.doing = "BINARY_OP" ->
         IF IsTree(First) THEN {}
         ELSE IF Second.type = "DOT" \/ IsTree(Third) THEN {First} ELSE {First, Third}
    [] Top.doing \in {"CALL", "DONE"} -> {First}
    [] OTHER -> {}

\* Variant: an operator in the place of a unary one is passed over.
Reject_PassesOver ==
  /\ Doing("UNARY_OP")
  /\ First.type \notin UnaryTypes
  /\ calls' = SetTop([Top EXCEPT !.doing = "loop"])
  /\ UNCHANGED <<source, code, status>>

\* abort, or an exception nobody catches.
Reject ==
  /\ \/ Doing("ERROR")
     \/ Doing("UNARY_OP") /\ First.type \notin UnaryTypes
     \/ status = "compiling" /\ \E x \in LiteralOperands : ~Compilable(x)
     \/ /\ Doing("BINARY_OP") /\ ~IsTree(First)
        /\ Second.type = "DOT" /\ ~IsTree(Third) /\ Third.type # "ID"
  /\ status' = "rejected"
  /\ UNCHANGED <<source, calls, code>>

\* A null tree is dereferenced, or an object behind the end is erased.
Crash ==
  /\ \/ Doing("BRACKETS") /\ ~IsTree(First)
     \/ Doing("CALL") /\ Compilable(First) /\ ~IsTree(Second)
     \/ /\ Doing("BINARY_OP")
        /\ Compilable(First) /\ ~IsTree(First)
        /\ ~IsTree(Second) /\ IsTree(Third)
     \/ Finished /\ Len(calls) > 1 /\ Caller.doing = "last"
  /\ status' = "undefined"
  /\ UNCHANGED <<source, calls, code>>

Next ==
  \/ GetOperation
  \/ CompileBrackets \/ CompileUnary
  \/ CompileOperand \/ CompileOperator \/ CompileBinary \/ CompileAttribute
  \/ StartCall \/ NextArgument \/ EndCall
  \/ CompileLast \/ CompileLastBrackets
  \/ ReturnToCaller \/ ReturnFromCompiler
  \/ Reject \/ Crash

Spec == Init /\ [][Next]_vars

\* The compiler waits for nothing.
FairSpec == Spec /\ WF_vars(Next)

-----------------------------------------------------------------------------
(* Properties.                                                              *)

Lists == Seq(Objects)

CallRecord ==
  [objects : Lists,
   doing : {"loop", "BRACKETS", "UNARY_OP", "BINARY_OP", "CALL", "DONE", "ERROR",
            "brackets", "operand", "operator", "arguments", "last", "finished"},
   at : 0..(Positions - 1), rest : Seq(Lists), count : Nat]

Opcodes ==
  {"PUSH_INTEGRAL", "PUSH_STRING", "LOAD_ID", "PUSH_TRUE", "PUSH_FALSE", "PUSH_NONE",
   "UPLUS", "UMINUS", "BIN_NOTB", "GET_ATTRIBUTESB", "CALLB"}
    \cup {BinaryOpcode[type] : type \in DOMAIN BinaryOpcode}

CodeRecord == [op : Opcodes, text : Texts, argscount : Nat]

\* The types of the variables.
TypeOK ==
  /\ source \in Lists
  /\ calls \in Seq(CallRecord) /\ calls # <<>>
  /\ code \in Seq(CodeRecord)
  /\ status \in {"compiling", "done", "rejected", "undefined"}

\* Whatever the tokens are, no operand is compiled twice: an object leaves the
\* list together with the operation that compiled it (compiler.cpp:358).  The
\* texts of the operands tell them apart.
NoOperandTwice ==
  \A i, j \in DOMAIN code :
    code[i].text # "" /\ code[i].text = code[j].text => i = j

\* Every list of tokens is compiled or rejected, none is compiled for ever:
\* each round of the loop takes an operator, a pair of brackets or a call out
\* of the list (compiler.cpp:162).
Compiled == (status = "compiling") ~> (status # "compiling")

=============================================================================
