-------------------------- MODULE KanCompileProofs --------------------------
(***************************************************************************)
(* Proofs about KanCompile, for every set of objects and every set of      *)
(* lines: the types of its variables, the expression that is compiled      *)
(* included, and that it hangs only where no semicolon is left.            *)
(***************************************************************************)
EXTENDS KanCompile, KanInduction, SequenceTheorems

P == INSTANCE KanExprProofs WITH Expressions <- {}, Positions <- 256

-----------------------------------------------------------------------------
(* KanExpr, as it is used here, and its proofs.                             *)

LEMMA ExpressionObjects == P!ObjectsAssumption
<1>1. P!EmptyToken = E!EmptyToken /\ \A x : P!IsTree(x) = E!IsTree(x)
  BY Zenon DEF E!EmptyToken, P!EmptyToken, E!TreeTypes, P!TreeTypes, E!IsTree, P!IsTree
<1> QED
  BY <1>1, LinesAssumption DEF P!ObjectsAssumption

\* The compiler of expressions is the one of KanExprProofs.
LEMMA SameExpression ==
  /\ E!Next <=> P!Next
  /\ E!Lists = P!Lists /\ E!CallRecord = P!CallRecord /\ E!CodeRecord = P!CodeRecord /\ E!Texts = P!Texts
  /\ \A l : E!SplitByComma(l) = P!SplitByComma(l) /\ E!CallOn(l) = P!CallOn(l)
<1> USE Zenon DEF E!EmptyToken, P!EmptyToken, E!TreeTypes, P!TreeTypes, E!IsTree, P!IsTree,
      E!Texts, P!Texts, E!Cardinality, P!Cardinality, E!IsFiniteSet, P!IsFiniteSet,
      E!IsBrackets, P!IsBrackets, E!NumberTypes, P!NumberTypes, E!LiteralTypes,
      P!LiteralTypes, E!OperatorTypes, P!OperatorTypes, E!UnaryTypes, P!UnaryTypes,
      E!IsOperator, P!IsOperator, E!Priority, P!Priority, E!VTop, P!VTop, E!Obj, P!Obj,
      E!LooksAtOperator, P!LooksAtOperator, E!LooksAtCall, P!LooksAtCall,
      E!LooksAtThree, P!LooksAtThree, E!Visited, P!Visited, E!Candidate, P!Candidate,
      E!OffersAt, P!OffersAt, E!Offers, P!Offers, E!Malformed, P!Malformed,
      E!Operation, P!Operation, E!Instruction, P!Instruction, E!Keywords, P!Keywords,
      E!Compilable, P!Compilable, E!Literal, P!Literal,
      E!UnaryInstruction, P!UnaryInstruction, E!BinaryOpcode, P!BinaryOpcode,
      E!BinaryInstruction, P!BinaryInstruction, E!ReplaceWithEmpty, P!ReplaceWithEmpty,
      E!Commas, P!Commas, E!Comma, P!Comma, E!SplitByComma, P!SplitByComma,
      E!CallOn, P!CallOn, E!Top, P!Top, E!First, P!First, E!Second, P!Second,
      E!Third, P!Third, E!Doing, P!Doing, E!SetTop, P!SetTop, E!Replaced, P!Replaced,
      E!Descend, P!Descend, E!Finished, P!Finished, E!Caller, P!Caller,
      E!Resumed, P!Resumed, E!LiteralOperands, P!LiteralOperands,
      E!Num!OutOfRange, P!Num!OutOfRange, E!Num!IsFloat, P!Num!IsFloat,
      E!Num!CharAt, P!Num!CharAt, E!Num!Whole, P!Num!Whole, E!Num!Digit, P!Num!Digit,
      E!Num!TooLarge, P!Num!TooLarge, E!Num!LargestInt, P!Num!LargestInt
<1>1. E!GetOperation <=> P!GetOperation
  BY DEF E!GetOperation, P!GetOperation
<1>2. E!CompileBrackets <=> P!CompileBrackets
  BY DEF E!CompileBrackets, P!CompileBrackets
<1>3. E!CompileUnary <=> P!CompileUnary
  BY DEF E!CompileUnary, P!CompileUnary
<1>4. E!CompileOperand <=> P!CompileOperand
  BY DEF E!CompileOperand, P!CompileOperand
<1>5. E!CompileOperator <=> P!CompileOperator
  BY DEF E!CompileOperator, P!CompileOperator
<1>6. E!CompileBinary <=> P!CompileBinary
  BY DEF E!CompileBinary, P!CompileBinary
<1>7. E!CompileAttribute <=> P!CompileAttribute
  BY DEF E!CompileAttribute, P!CompileAttribute
<1>8. E!StartCall <=> P!StartCall
  BY DEF E!StartCall, P!StartCall
<1>9. E!NextArgument <=> P!NextArgument
  BY DEF E!NextArgument, P!NextArgument
<1>10. E!EndCall <=> P!EndCall
  BY DEF E!EndCall, P!EndCall
<1>11. E!CompileLast <=> P!CompileLast
  BY DEF E!CompileLast, P!CompileLast
<1>12. E!CompileLastBrackets <=> P!CompileLastBrackets
  BY DEF E!CompileLastBrackets, P!CompileLastBrackets
<1>13. E!ReturnToCaller <=> P!ReturnToCaller
  BY DEF E!ReturnToCaller, P!ReturnToCaller
<1>14. E!ReturnFromCompiler <=> P!ReturnFromCompiler
  BY DEF E!ReturnFromCompiler, P!ReturnFromCompiler
<1>15. E!Reject <=> P!Reject
  BY DEF E!Reject, P!Reject
<1>16. E!Crash <=> P!Crash
  BY DEF E!Crash, P!Crash
<1>17. E!Next <=> P!Next
  BY <1>1, <1>2, <1>3, <1>4, <1>5, <1>6, <1>7, <1>8, <1>9, <1>10, <1>11, <1>12, <1>13,
     <1>14, <1>15, <1>16 DEF E!Next, P!Next
<1>18. /\ E!Lists = P!Lists /\ E!CallRecord = P!CallRecord /\ E!CodeRecord = P!CodeRecord
       /\ E!Texts = P!Texts
  BY DEF E!Lists, P!Lists, E!CallRecord, P!CallRecord,
         E!CodeRecord, P!CodeRecord, E!Opcodes, P!Opcodes
<1>19. \A l : E!SplitByComma(l) = P!SplitByComma(l) /\ E!CallOn(l) = P!CallOn(l)
  OBVIOUS
<1> QED
  BY ONLY <1>17, <1>18, <1>19

LEMMA ExpressionStep == P!PInv /\ E!Next => P!PInv'
BY P!NextPInv, ExpressionObjects, SameExpression

-----------------------------------------------------------------------------
(* The statement parsers.                                                   *)

LEMMA SmallestIn ==
  ASSUME NEW T, T \subseteq Nat, T # {}
  PROVE  Min(T) \in T /\ \A x \in T : Min(T) <= x
BY LeastElement DEF Min

\* The types of the list's first objects are those p asks for.
Begun(p, l) ==
  /\ Len(p.conditions) <= Len(l)
  /\ \A i \in 1..Len(p.conditions) : l[i].type = p.conditions[i].type

Starts(l, n) == n <= Len(l) /\ l[1].type = "ID"

\* What the objects of a statement start with.
Begins(name, l) ==
  /\ name = "VARIABLE_ASSIGN" => Starts(l, 2) /\ l[2].type = "EQUAL"
  /\ name = "RETURN" => Starts(l, 1)
  /\ name = "IF" => Starts(l, 3) /\ l[2].type = "BRACKETS" /\ l[3].type = "BRACES"
  /\ name = "ELSE" => Starts(l, 2) /\ l[2].type = "BRACES"
  /\ name = "FUNCTION" =>
       Starts(l, 4) /\ l[2].type = "ID" /\ l[3].type = "BRACKETS" /\ l[4].type = "BRACES"
  /\ name = "CLASS" => Starts(l, 3) /\ l[2].type = "ID" /\ l[3].type = "BRACES"

Shape(p, name, n) ==
  /\ p.name = name /\ Len(p.conditions) = n
  /\ \A l : Begun(p, l) => Begins(name, l)

LEMMA KindType == \A t : Kind(t).type = t /\ Keyword(t).type = "ID"
BY DEF Kind, Keyword

LEMMA NineParsers ==
  /\ DOMAIN StatementParsers = 1..9 /\ StatementParsers[9].open
  /\ Shape(StatementParsers[1], "FUNCTION", 5)
  /\ Shape(StatementParsers[2], "VARIABLE_ASSIGN", 2)
  /\ Shape(StatementParsers[3], "IF", 3)
  /\ Shape(StatementParsers[4], "ELSEIF", 3)
  /\ Shape(StatementParsers[5], "ELSE", 2)
  /\ Shape(StatementParsers[6], "RETURN", 1)
  /\ Shape(StatementParsers[7], "FUNCTION", 4)
  /\ Shape(StatementParsers[8], "CLASS", 3)
  /\ Shape(StatementParsers[9], "EXPRESSION", 0)
<1>1. DOMAIN StatementParsers = 1..9
  BY DEF StatementParsers
<1>2. Shape(StatementParsers[1], "FUNCTION", 5)
  <2> DEFINE p == StatementParsers[1]
  <2>1. p.name = "FUNCTION" /\ p.conditions = Append(FunctionParts, Kind("SEMICOLON"))
    BY DEF StatementParsers, Parser
  <2> HIDE DEF p
  <2>2. /\ Len(p.conditions) = 5
        /\ p.conditions[1] = Keyword("func")
        /\ p.conditions[2] = Kind("ID")
        /\ p.conditions[3] = Kind("BRACKETS")
        /\ p.conditions[4] = Kind("BRACES")
        /\ p.conditions[5] = Kind("SEMICOLON")
    BY <2>1 DEF FunctionParts
  <2>3. /\ p.conditions[1].type = "ID"
        /\ p.conditions[2].type = "ID"
        /\ p.conditions[3].type = "BRACKETS"
        /\ p.conditions[4].type = "BRACES"
        /\ p.conditions[5].type = "SEMICOLON"
    BY <2>2, KindType
  <2>4. ASSUME NEW l, Begun(p, l) PROVE Begins("FUNCTION", l)
    <3>1. /\ 5 <= Len(l)
          /\ l[1].type = "ID"
          /\ l[2].type = "ID"
          /\ l[3].type = "BRACKETS"
          /\ l[4].type = "BRACES"
          /\ l[5].type = "SEMICOLON"
      BY <2>2, <2>3, <2>4 DEF Begun
    <3> QED
      BY <3>1 DEF Begins, Starts
  <2> QED
    BY <2>1, <2>2, <2>4 DEF Shape, p
<1>3. Shape(StatementParsers[2], "VARIABLE_ASSIGN", 2)
  <2> DEFINE p == StatementParsers[2]
  <2>1. p.name = "VARIABLE_ASSIGN" /\ p.conditions = <<Kind("ID"), Kind("EQUAL")>>
    BY DEF StatementParsers, Parser
  <2> HIDE DEF p
  <2>2. /\ Len(p.conditions) = 2
        /\ p.conditions[1] = Kind("ID")
        /\ p.conditions[2] = Kind("EQUAL")
    BY <2>1
  <2>3. /\ p.conditions[1].type = "ID"
        /\ p.conditions[2].type = "EQUAL"
    BY <2>2, KindType
  <2>4. ASSUME NEW l, Begun(p, l) PROVE Begins("VARIABLE_ASSIGN", l)
    <3>1. /\ 2 <= Len(l)
          /\ l[1].type = "ID"
          /\ l[2].type = "EQUAL"
      BY <2>2, <2>3, <2>4 DEF Begun
    <3> QED
      BY <3>1 DEF Begins, Starts
  <2> QED
    BY <2>1, <2>2, <2>4 DEF Shape, p
<1>4. Shape(StatementParsers[3], "IF", 3)
  <2> DEFINE p == StatementParsers[3]
  <2>1. p.name = "IF" /\ p.conditions = <<Keyword("if"), Kind("BRACKETS"), Kind("BRACES")>>
    BY DEF StatementParsers, Parser
  <2> HIDE DEF p
  <2>2. /\ Len(p.conditions) = 3
        /\ p.conditions[1] = Keyword("if")
        /\ p.conditions[2] = Kind("BRACKETS")
        /\ p.conditions[3] = Kind("BRACES")
    BY <2>1
  <2>3. /\ p.conditions[1].type = "ID"
        /\ p.conditions[2].type = "BRACKETS"
        /\ p.conditions[3].type = "BRACES"
    BY <2>2, KindType
  <2>4. ASSUME NEW l, Begun(p, l) PROVE Begins("IF", l)
    <3>1. /\ 3 <= Len(l)
          /\ l[1].type = "ID"
          /\ l[2].type = "BRACKETS"
          /\ l[3].type = "BRACES"
      BY <2>2, <2>3, <2>4 DEF Begun
    <3> QED
      BY <3>1 DEF Begins, Starts
  <2> QED
    BY <2>1, <2>2, <2>4 DEF Shape, p
<1>5. Shape(StatementParsers[4], "ELSEIF", 3)
  <2> DEFINE p == StatementParsers[4]
  <2>1. p.name = "ELSEIF" /\ p.conditions = <<Keyword("else"), Keyword("if"), Kind("BRACES")>>
    BY DEF StatementParsers, Parser
  <2> HIDE DEF p
  <2>2. /\ Len(p.conditions) = 3
        /\ p.conditions[1] = Keyword("else")
        /\ p.conditions[2] = Keyword("if")
        /\ p.conditions[3] = Kind("BRACES")
    BY <2>1
  <2>3. /\ p.conditions[1].type = "ID"
        /\ p.conditions[2].type = "ID"
        /\ p.conditions[3].type = "BRACES"
    BY <2>2, KindType
  <2>4. ASSUME NEW l, Begun(p, l) PROVE Begins("ELSEIF", l)
    <3>1. /\ 3 <= Len(l)
          /\ l[1].type = "ID"
          /\ l[2].type = "ID"
          /\ l[3].type = "BRACES"
      BY <2>2, <2>3, <2>4 DEF Begun
    <3> QED
      BY <3>1 DEF Begins, Starts
  <2> QED
    BY <2>1, <2>2, <2>4 DEF Shape, p
<1>6. Shape(StatementParsers[5], "ELSE", 2)
  <2> DEFINE p == StatementParsers[5]
  <2>1. p.name = "ELSE" /\ p.conditions = <<Keyword("else"), Kind("BRACES")>>
    BY DEF StatementParsers, Parser
  <2> HIDE DEF p
  <2>2. /\ Len(p.conditions) = 2
        /\ p.conditions[1] = Keyword("else")
        /\ p.conditions[2] = Kind("BRACES")
    BY <2>1
  <2>3. /\ p.conditions[1].type = "ID"
        /\ p.conditions[2].type = "BRACES"
    BY <2>2, KindType
  <2>4. ASSUME NEW l, Begun(p, l) PROVE Begins("ELSE", l)
    <3>1. /\ 2 <= Len(l)
          /\ l[1].type = "ID"
          /\ l[2].type = "BRACES"
      BY <2>2, <2>3, <2>4 DEF Begun
    <3> QED
      BY <3>1 DEF Begins, Starts
  <2> QED
    BY <2>1, <2>2, <2>4 DEF Shape, p
<1>7. Shape(StatementParsers[6], "RETURN", 1)
  <2> DEFINE p == StatementParsers[6]
  <2>1. p.name = "RETURN" /\ p.conditions = <<Keyword("return")>>
    BY DEF StatementParsers, Parser
  <2> HIDE DEF p
  <2>2. /\ Len(p.conditions) = 1
        /\ p.conditions[1] = Keyword("return")
    BY <2>1
  <2>3. /\ p.conditions[1].type = "ID"
    BY <2>2, KindType
  <2>4. ASSUME NEW l, Begun(p, l) PROVE Begins("RETURN", l)
    <3>1. /\ 1 <= Len(l)
          /\ l[1].type = "ID"
      BY <2>2, <2>3, <2>4 DEF Begun
    <3> QED
      BY <3>1 DEF Begins, Starts
  <2> QED
    BY <2>1, <2>2, <2>4 DEF Shape, p
<1>8. Shape(StatementParsers[7], "FUNCTION", 4)
  <2> DEFINE p == StatementParsers[7]
  <2>1. p.name = "FUNCTION" /\ p.conditions = FunctionParts
    BY DEF StatementParsers, Parser
  <2> HIDE DEF p
  <2>2. /\ Len(p.conditions) = 4
        /\ p.conditions[1] = Keyword("func")
        /\ p.conditions[2] = Kind("ID")
        /\ p.conditions[3] = Kind("BRACKETS")
        /\ p.conditions[4] = Kind("BRACES")
    BY <2>1 DEF FunctionParts
  <2>3. /\ p.conditions[1].type = "ID"
        /\ p.conditions[2].type = "ID"
        /\ p.conditions[3].type = "BRACKETS"
        /\ p.conditions[4].type = "BRACES"
    BY <2>2, KindType
  <2>4. ASSUME NEW l, Begun(p, l) PROVE Begins("FUNCTION", l)
    <3>1. /\ 4 <= Len(l)
          /\ l[1].type = "ID"
          /\ l[2].type = "ID"
          /\ l[3].type = "BRACKETS"
          /\ l[4].type = "BRACES"
      BY <2>2, <2>3, <2>4 DEF Begun
    <3> QED
      BY <3>1 DEF Begins, Starts
  <2> QED
    BY <2>1, <2>2, <2>4 DEF Shape, p
<1>9. Shape(StatementParsers[8], "CLASS", 3)
  <2> DEFINE p == StatementParsers[8]
  <2>1. p.name = "CLASS" /\ p.conditions = <<Keyword("class"), Kind("ID"), Kind("BRACES")>>
    BY DEF StatementParsers, Parser
  <2> HIDE DEF p
  <2>2. /\ Len(p.conditions) = 3
        /\ p.conditions[1] = Keyword("class")
        /\ p.conditions[2] = Kind("ID")
        /\ p.conditions[3] = Kind("BRACES")
    BY <2>1
  <2>3. /\ p.conditions[1].type = "ID"
        /\ p.conditions[2].type = "ID"
        /\ p.conditions[3].type = "BRACES"
    BY <2>2, KindType
  <2>4. ASSUME NEW l, Begun(p, l) PROVE Begins("CLASS", l)
    <3>1. /\ 3 <= Len(l)
          /\ l[1].type = "ID"
          /\ l[2].type = "ID"
          /\ l[3].type = "BRACES"
      BY <2>2, <2>3, <2>4 DEF Begun
    <3> QED
      BY <3>1 DEF Begins, Starts
  <2> QED
    BY <2>1, <2>2, <2>4 DEF Shape, p
<1>10. Shape(StatementParsers[9], "EXPRESSION", 0)
  <2> DEFINE p == StatementParsers[9]
  <2>1. p.name = "EXPRESSION" /\ p.conditions = <<>>
    BY DEF StatementParsers, Parser
  <2> HIDE DEF p
  <2> QED
    BY <2>1 DEF Shape, Begins, p
<1>11. StatementParsers[9].open
  BY DEF StatementParsers, Parser
<1> QED
  BY <1>1, <1>2, <1>3, <1>4, <1>5, <1>6, <1>7, <1>8, <1>9, <1>10, <1>11

LEMMA ParserConditions ==
  ASSUME NEW i \in 1..9
  PROVE  /\ StatementParsers[i].name \notin {"NONE", "THROWS"}
         /\ Len(StatementParsers[i].conditions) \in 0..5
         /\ \A l : Begun(StatementParsers[i], l) => Begins(StatementParsers[i].name, l)
<1>1. /\ StatementParsers[i].name \notin {"NONE", "THROWS"}
      /\ Len(StatementParsers[i].conditions) \in 0..5
  BY NineParsers DEF Shape
<1>2. \A l : Begun(StatementParsers[i], l) => Begins(StatementParsers[i].name, l)
  BY NineParsers DEF Shape
<1> QED
  BY <1>1, <1>2

\* Deciding(l) in general, and the parser that decides.
LEMMA Decided ==
  ASSUME NEW l, Statement(l) # "NONE"
  PROVE  \E i \in 1..9 :
           /\ Parsed(l) = StatementParsers[i]
           /\ Accepts(Parsed(l), l) \/ Throws(Parsed(l), l)
<1>1. Deciding(l) # {}
  BY DEF Statement
<1>2. Deciding(l) \subseteq 1..9
  BY NineParsers DEF Deciding
<1>3. Min(Deciding(l)) \in Deciding(l)
  <2>1. Deciding(l) \subseteq Nat
    BY <1>2
  <2> QED
    BY <1>1, <2>1, SmallestIn
<1>4. PICK i \in 1..9 : i = Min(Deciding(l))
  BY <1>2, <1>3
<1>5. Accepts(StatementParsers[i], l) \/ Throws(StatementParsers[i], l)
  BY <1>3, <1>4 DEF Deciding
<1>6. Parsed(l) = StatementParsers[i]
  BY <1>4 DEF Parsed
<1> QED
  BY <1>5, <1>6

\* What a statement takes from the block.
LEMMA StatementParts ==
  ASSUME NEW l \in E!Lists, Statement(l) \notin {"NONE", "THROWS"}
  PROVE  /\ Parts(l) \in E!Lists /\ Begins(Statement(l), Parts(l))
         /\ SubSeq(l, Length(l) + 1, Len(l)) \in E!Lists
<1>1. Statement(l) # "NONE"
  OBVIOUS
<1>2. PICK k \in 1..9 : /\ Parsed(l) = StatementParsers[k]
                        /\ Accepts(Parsed(l), l) \/ Throws(Parsed(l), l)
  BY <1>1, Decided
<1> DEFINE p == Parsed(l)
           n == Len(p.conditions)
           m == IF p.open THEN Length(l) - 1 ELSE Length(l)
<1>3. ~Throws(p, l) /\ Statement(l) = p.name
  BY DEF Statement
<1>4. Accepts(p, l)
  BY <1>2, <1>3
<1>5. n \in Nat /\ Len(l) \in Nat /\ \A i \in 1..Len(l) : l[i] \in Objects
  BY <1>2, ParserConditions, LenProperties, ElementOfSeq DEF E!Lists
<1>6. n <= Len(l) /\ \A i \in 1..n : l[i].type = p.conditions[i].type
  BY <1>4 DEF Accepts, Met
<1>7. Length(l) \in Nat /\ Length(l) <= Len(l) /\ m \in Nat /\ n <= m /\ m <= Len(l)
  <2>1. CASE p.open
    <3>1. Ends(p, l) # {} /\ Length(l) = Min(Ends(p, l))
      BY <1>4, <2>1 DEF Accepts, Length
    <3>2. Ends(p, l) \subseteq (n + 1)..Len(l)
      BY DEF Ends
    <3>3. Ends(p, l) \subseteq Nat
      BY <1>5, <3>2
    <3>4. Length(l) \in (n + 1)..Len(l)
      BY <3>1, <3>2, <3>3, SmallestIn
    <3> HIDE DEF p, n
    <3> QED
      BY <1>5, <2>1, <3>4
  <2>2. CASE ~p.open
    <3>1. Length(l) = n
      BY <2>2 DEF Length
    <3> HIDE DEF p, n
    <3> QED
      BY <1>5, <1>6, <2>2, <3>1
  <2> QED
    BY <2>1, <2>2
<1>8. Parts(l) = SubSeq(l, 1, m)
  BY DEF Parts
<1> HIDE DEF p, n, m
<1>9. /\ Parts(l) \in Seq(Objects) /\ Len(Parts(l)) = m
      /\ \A i \in 1..m : Parts(l)[i] = l[i]
  <2>1. \A i \in 1..m : l[i] \in Objects
    BY <1>5, <1>7
  <2>2. /\ SubSeq(l, 1, m) \in Seq(Objects)
        /\ Len(SubSeq(l, 1, m)) = IF 1 <= m THEN m - 1 + 1 ELSE 0
        /\ \A i \in 1..(m - 1 + 1) : SubSeq(l, 1, m)[i] = l[1 + i - 1]
    BY <1>7, <2>1, SubSeqProperties
  <2> QED
    BY <1>7, <1>8, <2>2
<1>10. Begun(p, Parts(l))
  BY <1>5, <1>6, <1>7, <1>9 DEF Begun, n
<1>11. Begins(Statement(l), Parts(l))
  BY <1>2, <1>3, <1>10, ParserConditions DEF p
<1>12. SubSeq(l, Length(l) + 1, Len(l)) \in Seq(Objects)
  <2>1. \A i \in (Length(l) + 1)..Len(l) : l[i] \in Objects
    BY <1>5, <1>7
  <2> QED
    BY <1>5, <1>7, <2>1, SubSeqProperties
<1> QED
  BY <1>9, <1>11, <1>12 DEF E!Lists

\* Where no parser decides no semicolon is left: the last one takes whatever
\* stands before the next semicolon.
LEMMA NoSemicolon ==
  ASSUME NEW l \in E!Lists, Statement(l) = "NONE"
  PROVE  \A i \in DOMAIN l : l[i].type # "SEMICOLON"
<1>1. Deciding(l) = {}
  <2> SUFFICES ASSUME Deciding(l) # {} PROVE FALSE
    OBVIOUS
  <2>1. Deciding(l) \subseteq 1..9
    BY NineParsers DEF Deciding
  <2>2. Min(Deciding(l)) \in 1..9
    <3>1. Deciding(l) \subseteq Nat
      BY <2>1
    <3> QED
      BY <2>1, <3>1, SmallestIn
  <2>3. Parsed(l).name \notin {"NONE", "THROWS"}
    BY <2>2, ParserConditions DEF Parsed
  <2> QED
    BY <2>3 DEF Statement
<1> DEFINE p == StatementParsers[9]
<1>2. ~Accepts(p, l)
  <2>1. 9 \in DOMAIN StatementParsers /\ 9 \notin Deciding(l)
    BY <1>1, NineParsers
  <2> QED
    BY <2>1, Zenon DEF Deciding
<1>3. p.open /\ Len(p.conditions) = 0
  BY NineParsers DEF Shape
<1> HIDE DEF p
<1>4. Len(l) \in Nat /\ DOMAIN l = 1..Len(l)
  BY LenProperties DEF E!Lists
<1>5. Met(p, l, Len(p.conditions))
  BY <1>3, <1>4 DEF Met
<1>6. Ends(p, l) = {}
  BY <1>2, <1>3, <1>5 DEF Accepts
<1> QED
  BY <1>3, <1>4, <1>6 DEF Ends

-----------------------------------------------------------------------------
(* Streams.                                                                 *)

Cells == Seq(CellRecord)

LEMMA CellTexts == "" \in E!Texts /\ \A x \in Objects : ~E!IsTree(x) => x.text \in E!Texts
<1>1. \A x : P!IsTree(x) = E!IsTree(x)
  BY Zenon DEF E!TreeTypes, P!TreeTypes, E!IsTree, P!IsTree
<1>2. "" \in P!Texts
  BY P!EmptyText, ExpressionObjects
<1>3. \A x \in Objects : ~P!IsTree(x) => x.text \in P!Texts
  BY P!TokenTexts, ExpressionObjects
<1> QED
  BY <1>1, <1>2, <1>3, SameExpression

LEMMA OneCell ==
  \A op \in CellOps, n \in 0..255, text \in E!Texts : Cell(op, n, text) \in CellRecord
BY DEF Cell, CellRecord

LEMMA OpCells == ASSUME NEW op \in CellOps PROVE Op(op) \in Cells
<1>1. Cell(op, 0, "") \in CellRecord
  BY 0 \in 0..255, OneCell, CellTexts
<1>2. \A c \in CellRecord : <<c>> \in Cells
  BY DEF Cells
<1> QED
  BY <1>1, <1>2 DEF Op

\* A byte of a number.
LEMMA Byte == ASSUME NEW n \in Nat, NEW m \in Nat \ {0} PROVE (n \div m) % 256 \in 0..255
OBVIOUS

LEMMA Powers == \A i \in 1..4 : 256^(i - 1) \in Nat \ {0}
<1>1. 256^0 = 1 /\ 256^1 = 256 /\ 256^2 = 65536 /\ 256^3 = 16777216
  OBVIOUS
<1> SUFFICES ASSUME NEW i \in 1..4 PROVE 256^(i - 1) \in Nat \ {0}
  OBVIOUS
<1>2. CASE i = 1
  BY <1>1, <1>2
<1>3. CASE i = 2
  BY <1>1, <1>3
<1>4. CASE i = 3
  BY <1>1, <1>4
<1>5. CASE i = 4
  BY <1>1, <1>5
<1> QED
  BY <1>2, <1>3, <1>4, <1>5

LEMMA NumberCells ==
  ASSUME NEW n \in Nat, NEW bytes \in Nat
  PROVE  Number(n, bytes) \in Cells
<1>1. \A i \in 1..bytes :
        Cell("BYTE", IF i > 4 THEN 0 ELSE (n \div 256^(i - 1)) % 256, "") \in CellRecord
  <2> SUFFICES ASSUME NEW i \in 1..bytes
               PROVE  Cell("BYTE", IF i > 4 THEN 0 ELSE (n \div 256^(i - 1)) % 256, "")
                        \in CellRecord
    OBVIOUS
  <2> DEFINE byte == IF i > 4 THEN 0 ELSE (n \div 256^(i - 1)) % 256
  <2>1. byte \in 0..255
    <3>1. CASE i > 4
      BY <3>1
    <3>2. CASE i \in 1..4
      <4>1. (n \div 256^(i - 1)) % 256 \in 0..255
        BY <3>2, Powers, Byte
      <4> QED
        BY <3>2, <4>1
    <3> QED
      BY <3>1, <3>2
  <2>2. "BYTE" \in CellOps
    BY DEF CellOps
  <2> HIDE DEF byte
  <2>3. Cell("BYTE", byte, "") \in CellRecord
    BY <2>1, <2>2, OneCell, CellTexts
  <2> QED
    BY <2>3 DEF byte
<1> DEFINE c(i) == Cell("BYTE", IF i > 4 THEN 0 ELSE (n \div 256^(i - 1)) % 256, "")
<1> HIDE DEF c
<1>2. [i \in 1..bytes |-> c(i)] \in Cells
  <2>1. \A i \in 1..bytes : c(i) \in CellRecord
    BY <1>1 DEF c
  <2> QED
    BY <2>1 DEF Cells
<1> QED
  BY <1>2 DEF Number, c

LEMMA TextCells ==
  ASSUME NEW text \in E!Texts, NEW n \in Nat, n = Len(text)
  PROVE  Text(text) \in Cells /\ Len(Text(text)) = n
<1>1. Cell("TEXT", 0, text) \in CellRecord
  <2>1. "TEXT" \in CellOps
    BY DEF CellOps
  <2> QED
    BY <2>1, 0 \in 0..255, OneCell
<1>2. Text(text) = [i \in 1..n |-> Cell("TEXT", 0, text)]
  BY DEF Text
<1> QED
  BY <1>1, <1>2 DEF Cells

LEMMA TextLength == \A text \in E!Texts : Len(text) \in Nat
BY LinesAssumption DEF E!Texts

LEMMA Joined ==
  /\ \A s, t \in Cells : s \o t \in Cells
  /\ <<>> \in Cells
BY ConcatProperties DEF Cells

LEMMA CellsLength == \A s \in Cells : Len(s) \in Nat
BY LenProperties DEF Cells

LEMMA SizedCells ==
  ASSUME NEW op \in CellOps, NEW text \in E!Texts
  PROVE  Sized(op, text) \in Cells
<1> DEFINE size == Len(text) % 65536
<1>1. Len(text) \in Nat /\ size \in Nat /\ size <= Len(text)
  BY TextLength
<1>2. Text(text) \in Cells /\ Len(Text(text)) = Len(text)
  BY <1>1, TextCells
<1>3. Op(op) \in Cells /\ Number(size, 2) \in Cells
  BY <1>1, OpCells, NumberCells
<1>4. Sized(op, text) = Op(op) \o Number(size, 2) \o SubSeq(Text(text), 1, size)
  BY DEF Sized
<1> HIDE DEF size
<1>5. SubSeq(Text(text), 1, size) \in Cells
  <2>1. \A i \in 1..size : Text(text)[i] \in CellRecord
    BY <1>1, <1>2, ElementOfSeq DEF Cells
  <2> QED
    BY <1>1, <2>1, SubSeqProperties DEF Cells
<1> QED
  BY <1>3, <1>4, <1>5, Joined

LEMMA EncodeCells == ASSUME NEW i \in E!CodeRecord PROVE Encode(i) \in Cells
<1>1. i.op \in CellOps /\ i.text \in E!Texts /\ i.argscount \in Nat
  BY DEF E!CodeRecord, CellOps
<1>2. Op(i.op) \in Cells /\ Sized(i.op, i.text) \in Cells
  BY <1>1, OpCells, SizedCells
<1>3. Number(IF E!Num!IsFloat(i.text) THEN 1 ELSE 0, 1) \in Cells /\ Number(i.argscount, 1) \in Cells
  BY <1>1, NumberCells
<1>4. [k \in 1..4 |-> Cell("TEXT", 0, i.text)] \in Cells
  <2>1. Cell("TEXT", 0, i.text) \in CellRecord
    <3>1. "TEXT" \in CellOps
      BY DEF CellOps
    <3> QED
      BY <1>1, <3>1, 0 \in 0..255, OneCell
  <2> QED
    BY <2>1 DEF Cells
<1> DEFINE p == Op(i.op)
           s == Sized(i.op, i.text)
           n == Number(IF E!Num!IsFloat(i.text) THEN 1 ELSE 0, 1)
           m == Number(i.argscount, 1)
           t == [k \in 1..4 |-> Cell("TEXT", 0, i.text)]
<1>5. Encode(i) \in {p \o n \o t, s, p \o m, p}
  BY DEF Encode
<1> HIDE DEF p, s, n, m, t
<1>6. p \in Cells /\ s \in Cells /\ n \in Cells /\ m \in Cells /\ t \in Cells
  BY <1>2, <1>3, <1>4 DEF p, s, n, m, t
<1>7. p \o n \in Cells /\ p \o m \in Cells
  BY <1>6, Joined
<1>8. p \o n \o t \in Cells
  BY <1>6, <1>7, Joined
<1> QED
  BY <1>5, <1>6, <1>7, <1>8

\* Streams that are put together one by one.
LEMMA Folded ==
  ASSUME NEW n \in Nat, NEW add \in [1..n -> Cells], NEW f,
         \A i \in 0..n : f[i] = IF i = 0 THEN <<>> ELSE f[i - 1] \o add[i]
  PROVE  f[n] \in Cells
<1> DEFINE T == {i \in 0..n : f[i] \in Cells}
<1>1. T \subseteq 0..n
  OBVIOUS
<1>2. 0 \in T
  <2>1. f[0] = <<>>
    OBVIOUS
  <2> QED
    BY <2>1, Joined
<1>3. ASSUME NEW i \in 1..n, i - 1 \in T
      PROVE  i \in T
  <2>1. f[i] = f[i - 1] \o add[i]
    <3>1. i \in 0..n /\ i # 0
      OBVIOUS
    <3> QED
      BY <3>1
  <2> QED
    BY <1>3, <2>1, Joined
<1>4. T = 0..n
  <2> HIDE DEF T
  <2> QED
    BY <1>1, <1>2, <1>3, UpwardInduction
<1> QED
  BY <1>4

LEMMA FoldExists ==
  ASSUME NEW n \in Nat, NEW add \in [1..n -> Cells]
  PROVE  \E f \in [0..n -> Cells] :
           f = [i \in 0..n |-> IF i = 0 THEN <<>> ELSE f[i - 1] \o add[i]]
<1> DEFINE step == [p \in (1..n) \X Cells |-> p[2] \o add[p[1]]]
<1>1. step \in [(1..n) \X Cells -> Cells] /\ <<>> \in Cells
  BY Joined
<1>2. \A i \in 1..n, s \in Cells : step[<<i, s>>] = s \o add[i]
  OBVIOUS
<1> HIDE DEF step
<1>3. PICK f \in [0..n -> Cells] : Iterates(f, n, <<>>, step)
  BY ONLY n \in Nat, <1>1, Recursion
<1>4. \A i \in 1..n : step[<<i, f[i - 1]>>] = f[i - 1] \o add[i]
  <2>1. \A i \in 1..n : f[i - 1] \in Cells
    <3>1. \A i \in 1..n : i - 1 \in 0..n
      OBVIOUS
    <3> QED
      BY ONLY <3>1, f \in [0..n -> Cells]
  <2> QED
    BY <1>2, <2>1
<1>5. f = [i \in 0..n |-> IF i = 0 THEN <<>> ELSE f[i - 1] \o add[i]]
  <2>1. \A i \in 0..n : f[i] = IF i = 0 THEN <<>> ELSE f[i - 1] \o add[i]
    <3>1. \A i \in 0..n : i # 0 => i \in 1..n
      OBVIOUS
    <3> QED
      BY ONLY <1>3, <1>4, <3>1 DEF Iterates
  <2> QED
    BY ONLY <2>1, f \in [0..n -> Cells]
<1> QED
  BY <1>5

LEMMA ExpressionCells ==
  ASSUME code \in Seq(E!CodeRecord)
  PROVE  ExpressionBytes \in Cells
<1> DEFINE n == Len(code)
           add == [i \in 1..n |-> Encode(code[i])]
           F(f) == [i \in 0..n |-> IF i = 0 THEN <<>> ELSE f[i - 1] \o Encode(code[i])]
           bytes == CHOOSE f : f = F(f)
<1>1. n \in Nat
  BY LenProperties
<1>2. add \in [1..n -> Cells]
  <2>1. \A i \in 1..n : code[i] \in E!CodeRecord
    BY ElementOfSeq
  <2> QED
    BY <2>1, EncodeCells
<1>3. \E f : f = F(f)
  <2> HIDE DEF add
  <2>1. PICK f \in [0..n -> Cells] :
          f = [i \in 0..n |-> IF i = 0 THEN <<>> ELSE f[i - 1] \o add[i]]
    BY <1>1, <1>2, FoldExists
  <2>2. \A i \in 1..n : add[i] = Encode(code[i])
    BY DEF add
  <2>3. f = F(f)
    <3>1. \A i \in 0..n : i # 0 => i \in 1..n
      OBVIOUS
    <3> QED
      BY ONLY <2>1, <2>2, <3>1
  <2> QED
    BY <2>3
<1>4. bytes = F(bytes)
  BY <1>3
<1>5. ExpressionBytes = bytes[n]
  BY DEF ExpressionBytes
<1> HIDE DEF bytes
<1>6. \A i \in 0..n : bytes[i] = IF i = 0 THEN <<>> ELSE bytes[i - 1] \o add[i]
  <2>1. \A i \in 0..n : i # 0 => add[i] = Encode(code[i])
    BY <1>1
  <2> HIDE DEF add
  <2>2. \A i \in 0..n : bytes[i] = IF i = 0 THEN <<>> ELSE bytes[i - 1] \o Encode(code[i])
    BY ONLY <1>4
  <2> QED
    BY ONLY <2>1, <2>2
<1> HIDE DEF add
<1> QED
  BY <1>1, <1>2, <1>5, <1>6, Folded

LEMMA NamedCells ==
  ASSUME NEW text \in E!Texts, NEW bytes \in Nat
  PROVE  Named(text, bytes) \in Cells /\ Text(text) \in Cells
<1>1. Len(text) \in Nat
  BY TextLength
<1>2. Text(text) \in Cells
  BY <1>1, TextCells
<1>3. Number(Len(text), bytes) \in Cells
  BY <1>1, NumberCells
<1> QED
  BY <1>2, <1>3 DEF Named

LEMMA SignatureCells ==
  ASSUME NEW names \in Seq(E!Texts)
  PROVE  SignatureBytes(names) \in Cells
<1> DEFINE n == Len(names)
           item(i) == Named(names[i], 1) \o Text(names[i])
           add == [i \in 1..n |-> item(i)]
           F(f) == [i \in 0..n |-> IF i = 0 THEN <<>>
                                   ELSE f[i - 1] \o Named(names[i], 1) \o Text(names[i])]
           bytes == CHOOSE f : f = F(f)
<1>1. n \in Nat
  BY LenProperties
<1>2. \A i \in 1..n : /\ item(i) \in Cells
                      /\ \A s \in Cells : s \o Named(names[i], 1) \o Text(names[i]) = s \o item(i)
  <2> SUFFICES ASSUME NEW i \in 1..n
               PROVE  /\ item(i) \in Cells
                      /\ \A s \in Cells : s \o Named(names[i], 1) \o Text(names[i]) = s \o item(i)
    OBVIOUS
  <2>1. names[i] \in E!Texts
    BY ElementOfSeq
  <2>2. Named(names[i], 1) \in Cells /\ Text(names[i]) \in Cells
    BY <2>1, NamedCells
  <2>3. \A t, u \in Cells : /\ t \o u \in Cells
                           /\ \A s \in Cells : s \o t \o u = s \o (t \o u)
    BY Joined DEF Cells
  <2> QED
    BY <2>2, <2>3, Zenon
<1>3. add \in [1..n -> Cells] /\ \A i \in 1..n : add[i] = item(i)
  <2> HIDE DEF item
  <2> QED
    BY <1>2
<1> HIDE DEF add
<1>4. PICK f \in [0..n -> Cells] :
        f = [i \in 0..n |-> IF i = 0 THEN <<>> ELSE f[i - 1] \o add[i]]
  BY <1>1, <1>3, FoldExists
<1>5. \A i \in 0..n : i # 0 => i \in 1..n /\ i - 1 \in 0..n
  OBVIOUS
<1>6. f = F(f)
  <2>1. \A i \in 0..n : f[i] \in Cells
    OBVIOUS
  <2>2. \A i \in 1..n : f[i - 1] \o add[i] = f[i - 1] \o Named(names[i], 1) \o Text(names[i])
    <3> SUFFICES ASSUME NEW i \in 1..n
                 PROVE  f[i - 1] \o add[i] = f[i - 1] \o Named(names[i], 1) \o Text(names[i])
      OBVIOUS
    <3>1. f[i - 1] \in Cells
      BY <2>1
    <3> HIDE DEF item
    <3> QED
      BY <1>2, <1>3, <3>1, Zenon
  <2> QED
    BY ONLY <1>4, <1>5, <2>2
<1>7. bytes = F(bytes)
  BY <1>6
<1>8. SignatureBytes(names) = bytes[n]
  BY DEF SignatureBytes
<1> HIDE DEF bytes
<1> DEFINE T == {i \in 0..n : bytes[i] \in Cells}
<1>9. T = 0..n
  <2>1. T \subseteq 0..n /\ 0 \in T
    <3>1. bytes[0] = <<>> /\ 0 \in 0..n
      BY <1>1, <1>7
    <3> QED
      BY <3>1, Joined
  <2>2. ASSUME NEW i \in 1..n, i - 1 \in T
        PROVE  i \in T
    <3>1. i \in 0..n /\ i # 0
      OBVIOUS
    <3>2. bytes[i] = bytes[i - 1] \o Named(names[i], 1) \o Text(names[i])
      BY <1>7, <3>1
    <3>3. bytes[i] \in Cells
      <4>1. bytes[i - 1] \in Cells
        BY <2>2
      <4>2. bytes[i] = bytes[i - 1] \o item(i) /\ item(i) \in Cells
        BY <1>2, <3>2, <4>1
      <4> QED
        BY <4>1, <4>2, Joined
    <3> QED
      BY <3>1, <3>3
  <2> HIDE DEF T
  <2> QED
    BY <1>1, <2>1, <2>2, UpwardInduction
<1> QED
  BY <1>1, <1>8, <1>9

LEMMA SignatureTexts ==
  ASSUME NEW l \in E!Lists, SignatureValid(l)
  PROVE  Signature(l) \in Seq(E!Texts) /\ Len(Signature(l)) \in Nat
<1>1. Arguments(l) \in Seq(E!Lists)
  BY P!Pieces, ExpressionObjects, SameExpression DEF Arguments
<1> DEFINE n == Len(Arguments(l))
<1>2. n \in Nat /\ DOMAIN Arguments(l) = 1..n
  BY <1>1, LenProperties
<1>3. \A i \in 1..n : Arguments(l)[i][1].text \in E!Texts
  <2> SUFFICES ASSUME NEW i \in 1..n
               PROVE  Arguments(l)[i][1].text \in E!Texts
    OBVIOUS
  <2>1. Arguments(l)[i] \in Seq(Objects) /\ Arguments(l)[i] # <<>>
    BY <1>1, <1>2, ElementOfSeq DEF SignatureValid, E!Lists
  <2>2. Arguments(l)[i][1] \in Objects
    BY <2>1
  <2>3. Arguments(l)[i][1].type = "ID"
    BY <1>2 DEF SignatureValid
  <2>4. ~E!IsTree(Arguments(l)[i][1])
    BY <2>3 DEF E!IsTree, E!TreeTypes
  <2> QED
    BY <2>2, <2>4, CellTexts
<1>4. Signature(l) = [i \in 1..n |-> Arguments(l)[i][1].text]
  BY <1>2 DEF Signature
<1> QED
  BY <1>2, <1>3, <1>4

LEMMA JumpCells ==
  ASSUME NEW op \in {"JMP_IF_FALSE", "JMP_IF_TRUE"}, NEW block \in Cells
  PROVE  Jump(op, block) \in Cells
<1>1. Op(op) \in Cells /\ Number(Len(block), 4) \in Cells
  BY CellsLength, NumberCells, OpCells DEF CellOps
<1>2. Op(op) \o Number(Len(block), 4) \in Cells
  BY <1>1, Joined
<1> QED
  BY <1>2, Joined DEF Jump

LEMMA FunctionCells ==
  ASSUME NEW name \in E!Texts, NEW names \in Seq(E!Texts), NEW body \in Cells
  PROVE  /\ DefineFunction(name, names, body) \in Cells
         /\ AddClassMethod(name, names, body) \in Cells
<1> DEFINE a == Op("DEFINE_FUNCTION")
           b == Number(Len(body), 4)
           c == Named(name, 1)
           d == Number(Len(names), 1)
           e == Text(name)
           f == SignatureBytes(names)
<1>1. a \in Cells /\ b \in Cells /\ c \in Cells /\ d \in Cells /\ e \in Cells /\ f \in Cells
  <2>1. Len(body) \in Nat /\ Len(names) \in Nat
    BY CellsLength, LenProperties
  <2>2. "DEFINE_FUNCTION" \in CellOps
    BY DEF CellOps
  <2>3. a \in Cells /\ b \in Cells /\ d \in Cells
    BY <2>1, <2>2, OpCells, NumberCells
  <2>4. c \in Cells /\ e \in Cells
    BY NamedCells
  <2> QED
    BY <2>3, <2>4, SignatureCells
<1>2. /\ DefineFunction(name, names, body) = a \o b \o c \o d \o e \o f \o body
      /\ AddClassMethod(name, names, body) = c \o b \o d \o e \o f \o body
  BY DEF DefineFunction, AddClassMethod
<1> HIDE DEF a, b, c, d, e, f
<1>3. a \o b \o c \in Cells /\ c \o b \o d \in Cells
  BY <1>1, Joined
<1>4. a \o b \o c \o d \o e \in Cells /\ c \o b \o d \o e \o f \in Cells
  BY <1>1, <1>3, Joined
<1> QED
  BY <1>1, <1>2, <1>4, Joined

LEMMA ClassCells ==
  ASSUME NEW name \in E!Texts, NEW block \in Cells
  PROVE  CreateClass(name, block) \in Cells
<1> DEFINE a == Op("CREATE_TYPE")
           b == Named(name, 1)
           c == Number(Len(block), 8)
           d == Text(name)
<1>1. a \in Cells /\ b \in Cells /\ c \in Cells /\ d \in Cells
  <2>1. "CREATE_TYPE" \in CellOps /\ Len(block) \in Nat
    BY CellsLength DEF CellOps
  <2> QED
    BY <2>1, OpCells, NumberCells, NamedCells
<1>2. CreateClass(name, block) = a \o b \o c \o d \o block
  BY DEF CreateClass
<1> HIDE DEF a, b, c, d
<1>3. a \o b \o c \in Cells
  BY <1>1, Joined
<1> QED
  BY <1>1, <1>2, <1>3, Joined

LEMMA ElseCells ==
  ASSUME NEW stream \in Cells, stream # <<>>, NEW block \in Cells
  PROVE  ElseBlock(stream, block) \in Cells
<1> DEFINE a == SubSeq(stream, 1, Len(stream) - 1)
           b == Jump("JMP_IF_TRUE", block)
           c == Op("POP_OBJECT")
<1>1. a \in Cells
  <2>1. Len(stream) \in Nat \ {0}
    BY CellsLength, EmptySeq DEF Cells
  <2>2. \A i \in 1..(Len(stream) - 1) : stream[i] \in CellRecord
    BY <2>1, ElementOfSeq DEF Cells
  <2> QED
    BY <2>1, <2>2, SubSeqProperties DEF Cells
<1>2. b \in Cells /\ c \in Cells
  <2>1. "POP_OBJECT" \in CellOps
    BY DEF CellOps
  <2> QED
    BY <2>1, JumpCells, OpCells
<1>3. ElseBlock(stream, block) = a \o b \o c
  BY DEF ElseBlock
<1> HIDE DEF a, b, c
<1> QED
  BY <1>1, <1>2, <1>3, Joined

-----------------------------------------------------------------------------
(* The inductive invariant.                                                 *)

\* The statements that wait for an expression.
Expecting == {"assign", "return", "expression", "condition"}

\* A block keeps the objects of the statement it waits for.
Kept(b) ==
  /\ b.doing = "assign" => Begins("VARIABLE_ASSIGN", b.parts)
  /\ b.doing = "condition" => Begins("IF", b.parts)
  /\ b.doing = "function" =>
       Begins("FUNCTION", b.parts) /\ SignatureValid(b.parts[3].objects)
  /\ b.doing = "class" => Begins("CLASS", b.parts)

Nested(s) ==
  s \in Seq(BlockRecord) /\ s # <<>> /\ \A k \in 1..Len(s) : Kept(s[k])

\* The compiler of expressions has not been called, or is where KanExprProofs
\* knows it to be.
Expressing ==
  \/ P!PInv
  \/ source = <<>> /\ calls = <<>> /\ code = <<>> /\ status = "done"

CInv ==
  /\ line \in E!Lists
  /\ phase \in {"compiling", "done", "rejected", "undefined", "hanging"}
  /\ Nested(blocks)
  /\ status = "compiling" => Top.doing \in Expecting
  /\ Expressing
  /\ HangsUnfinished

-----------------------------------------------------------------------------
(* The running calls of compile.                                            *)

LEMMA Blocks ==
  ASSUME Nested(blocks)
  PROVE  /\ Len(blocks) \in Nat \ {0} /\ DOMAIN blocks = 1..Len(blocks)
         /\ \A k \in 1..Len(blocks) : blocks[k] \in BlockRecord /\ Kept(blocks[k])
         /\ Top \in BlockRecord /\ Kept(Top)
<1>1. Len(blocks) \in Nat \ {0} /\ DOMAIN blocks = 1..Len(blocks)
  BY LenProperties, EmptySeq DEF Nested
<1>2. \A k \in 1..Len(blocks) : blocks[k] \in BlockRecord /\ Kept(blocks[k])
  BY ElementOfSeq DEF Nested
<1> QED
  BY <1>1, <1>2 DEF Top

LEMMA TopBlocks ==
  ASSUME Nested(blocks), NEW b \in BlockRecord, Kept(b)
  PROVE  /\ Nested(SetTop(b)) /\ Len(SetTop(b)) = Len(blocks)
         /\ SetTop(b)[Len(SetTop(b))] = b
<1> DEFINE n == Len(blocks)
           s == SetTop(b)
<1>1. n \in Nat \ {0} /\ DOMAIN blocks = 1..n
      /\ \A k \in 1..n : blocks[k] \in BlockRecord /\ Kept(blocks[k])
  BY Blocks
<1>2. /\ s \in Seq(BlockRecord) /\ Len(s) = n
      /\ \A k \in 1..n : s[k] = IF k = n THEN b ELSE blocks[k]
  BY <1>1, ExceptSeq DEF SetTop, Nested
<1> HIDE DEF s, n
<1>3. s # <<>> /\ s[n] = b
  <2>1. s = <<>> => Len(s) = 0
    OBVIOUS
  <2> QED
    BY <1>1, <1>2, <2>1
<1>4. \A k \in 1..n : Kept(s[k])
  BY <1>1, <1>2
<1> QED
  BY <1>2, <1>3, <1>4 DEF Nested, s, n

LEMMA InnerBlocks ==
  ASSUME Nested(blocks), NEW b \in BlockRecord, Kept(b), NEW c \in BlockRecord, Kept(c)
  PROVE  LET s == Append(SetTop(b), c) IN Nested(s) /\ s[Len(s)] = c
<1> DEFINE t == SetTop(b)
           s == Append(t, c)
<1>1. Nested(t)
  BY TopBlocks
<1> HIDE DEF t
<1>2. t \in Seq(BlockRecord) /\ Len(t) \in Nat /\ \A k \in 1..Len(t) : Kept(t[k])
  BY <1>1, LenProperties DEF Nested
<1>3. /\ s \in Seq(BlockRecord) /\ Len(s) = Len(t) + 1
      /\ \A k \in 1..Len(t) : s[k] = t[k]
      /\ s[Len(t) + 1] = c
  BY <1>2, AppendProperties
<1> HIDE DEF s
<1>4. s # <<>> /\ \A k \in 1..Len(s) : Kept(s[k])
  <2>1. \A k \in 1..Len(s) : k \in 1..Len(t) \/ k = Len(t) + 1
    BY <1>2, <1>3
  <2> QED
    BY <1>2, <1>3, <2>1, EmptySeq
<1>5. Nested(s) /\ s[Len(s)] = c
  BY <1>3, <1>4 DEF Nested
<1> QED
  BY <1>5 DEF s, t

LEMMA OuterBlocks ==
  ASSUME Nested(blocks), Len(blocks) > 1, NEW b \in BlockRecord, Kept(b)
  PROVE  /\ Outer \in BlockRecord /\ Kept(Outer)
         /\ LET s == Append(SubSeq(blocks, 1, Len(blocks) - 2), b)
            IN Nested(s) /\ s[Len(s)] = b
<1> DEFINE n == Len(blocks)
           t == SubSeq(blocks, 1, n - 2)
           s == Append(t, b)
<1>1. n \in Nat \ {0} /\ \A k \in 1..n : blocks[k] \in BlockRecord /\ Kept(blocks[k])
  BY Blocks
<1>2. Outer \in BlockRecord /\ Kept(Outer)
  <2>1. n - 1 \in 1..n
    BY <1>1
  <2> QED
    BY <1>1, <2>1 DEF Outer
<1>3. /\ t \in Seq(BlockRecord) /\ Len(t) = n - 2
      /\ \A k \in 1..(n - 2) : t[k] = blocks[k]
  <2>1. n - 2 \in Nat /\ \A k \in 1..(n - 2) : k \in 1..n /\ blocks[k] \in BlockRecord
    BY <1>1
  <2>2. /\ t \in Seq(BlockRecord)
        /\ Len(t) = IF 1 <= n - 2 THEN n - 2 - 1 + 1 ELSE 0
        /\ \A i \in 1..(n - 2 - 1 + 1) : t[i] = blocks[1 + i - 1]
    BY <2>1, SubSeqProperties
  <2> HIDE DEF t, n
  <2>3. Len(t) = n - 2
    BY ONLY <2>1, <1>1, <2>2
  <2>4. \A i \in 1..(n - 2) : i \in 1..(n - 2 - 1 + 1) /\ 1 + i - 1 = i
    BY <2>1
  <2> QED
    BY <2>2, <2>3, <2>4
<1> HIDE DEF t
<1>4. /\ s \in Seq(BlockRecord) /\ Len(s) = n - 1
      /\ \A k \in 1..(n - 2) : s[k] = blocks[k]
      /\ s[n - 1] = b
  BY <1>1, <1>3, AppendProperties
<1> HIDE DEF s
<1>5. s # <<>> /\ \A k \in 1..Len(s) : Kept(s[k])
  <2>1. \A k \in 1..Len(s) : (k \in 1..(n - 2) /\ k \in 1..n) \/ k = n - 1
    BY <1>1, <1>4
  <2> QED
    BY <1>1, <1>4, <2>1, EmptySeq
<1>6. Nested(s) /\ s[Len(s)] = b
  BY <1>4, <1>5 DEF Nested
<1> QED
  BY <1>2, <1>6 DEF s, t

\* A new call of compile.
LEMMA NewBlock ==
  ASSUME NEW l \in E!Lists, NEW scope \in BOOLEAN, NEW function \in BOOLEAN,
         NEW class \in BOOLEAN
  PROVE  LET c == CompileCall(l, scope, function, class)
         IN c \in BlockRecord /\ Kept(c) /\ c.rest = l /\ c.doing = "statements"
<1> DEFINE stream == IF scope THEN Op("START_SCOPE") ELSE <<>>
           c == CompileCall(l, scope, function, class)
<1>1. stream \in Seq(CellRecord) /\ <<>> \in E!Lists
  <2>1. "START_SCOPE" \in CellOps
    BY DEF CellOps
  <2> QED
    BY <2>1, OpCells, Joined DEF Cells, E!Lists
<1>2. c = [rest |-> l, stream |-> stream, scope |-> scope, function |-> function,
           class |-> class, hasReturn |-> FALSE, doing |-> "statements", parts |-> <<>>]
  BY DEF CompileCall
<1> HIDE DEF stream
<1>3. c \in BlockRecord /\ c.rest = l /\ c.doing = "statements"
  BY <1>1, <1>2 DEF BlockRecord
<1> QED
  BY <1>3 DEF Kept

\* The block goes on behind its statement.
LEMMA WaitingIs ==
  ASSUME Nested(blocks), Statement(Top.rest) \notin {"NONE", "THROWS"},
         NEW doing \in {"statements", "assign", "return", "expression", "condition",
                        "else", "function", "class"}
  PROVE  /\ Waiting(doing) \in BlockRecord /\ Waiting(doing).doing = doing
         /\ Waiting(doing).parts = Parts(Top.rest)
         /\ Parts(Top.rest) \in E!Lists /\ Begins(Statement(Top.rest), Parts(Top.rest))
<1> DEFINE after == SubSeq(Top.rest, Length(Top.rest) + 1, Len(Top.rest))
           parts == Parts(Top.rest)
<1>1. Top \in BlockRecord /\ Top.rest \in E!Lists
  BY Blocks DEF BlockRecord
<1>2. after \in E!Lists /\ parts \in E!Lists /\ Begins(Statement(Top.rest), parts)
  BY <1>1, StatementParts
<1>3. Waiting(doing) = [Top EXCEPT !.rest = after, !.parts = parts, !.doing = doing]
  BY DEF Waiting
<1> HIDE DEF after, parts
<1>4. Waiting(doing) \in BlockRecord /\ Waiting(doing).doing = doing /\ Waiting(doing).parts = parts
  BY <1>1, <1>2, <1>3 DEF BlockRecord
<1> QED
  BY <1>2, <1>4 DEF parts

\* What a block has written, and what it does then.
Extended(b, stream, doing, return) ==
  [b EXCEPT !.stream = stream, !.doing = doing, !.hasReturn = return]

LEMMA ExtendedIs ==
  ASSUME NEW b \in BlockRecord, NEW stream \in Cells, NEW return \in BOOLEAN,
         NEW doing \in {"statements", "if"}
  PROVE  /\ Extended(b, stream, doing, return) \in BlockRecord
         /\ Kept(Extended(b, stream, doing, return))
<1> DEFINE c == Extended(b, stream, doing, return)
<1>1. c \in BlockRecord /\ c.doing = doing
  BY DEF BlockRecord, Cells, Extended
<1> HIDE DEF c
<1>2. Kept(c)
  BY <1>1 DEF Kept
<1> QED
  BY <1>1, <1>2 DEF c

-----------------------------------------------------------------------------
(* The steps, by what they do.                                              *)

LEMMA SameExpressing ==
  ASSUME Expressing, UNCHANGED <<source, calls, code, status>>
  PROVE  Expressing'
<1>1. CASE P!PInv
  <2>1. [P!Next]_(P!vars)
    BY DEF P!vars
  <2>2. P!PInv'
    BY <1>1, <2>1, P!NextPInv, ExpressionObjects
  <2> QED
    BY <2>2 DEF Expressing
<1>2. CASE source = <<>> /\ calls = <<>> /\ code = <<>> /\ status = "done"
  BY <1>2 DEF Expressing
<1> QED
  BY <1>1, <1>2 DEF Expressing

\* The blocks change, and no expression is waited for.
LEMMA BlocksStep ==
  ASSUME CInv, phase = "compiling", status # "compiling", Nested(blocks)',
         UNCHANGED <<line, phase, source, calls, code, status>>
  PROVE  CInv'
<1>1. Expressing'
  BY SameExpressing DEF CInv
<1>2. HangsUnfinished'
  BY DEF HangsUnfinished
<1> QED
  BY <1>1, <1>2 DEF CInv

\* The innermost block starts to wait for an expression.
LEMMA StartStep ==
  ASSUME CInv, phase = "compiling", NEW b \in BlockRecord, Kept(b), b.doing \in Expecting,
         blocks' = SetTop(b), NEW objects \in E!Lists, Evaluate(objects),
         UNCHANGED <<line, phase>>
  PROVE  CInv'
<1>1. Nested(blocks)' /\ Top' = b
  <2>1. Nested(SetTop(b)) /\ SetTop(b)[Len(SetTop(b))] = b
    BY TopBlocks DEF CInv
  <2> QED
    BY <2>1 DEF Nested, Top
<1>2. P!PInv'
  <2> DEFINE c == P!CallOn(objects)
  <2>1. objects \in P!Lists /\ E!CallOn(objects) = c
    BY SameExpression
  <2>2. c \in P!CallRecord /\ P!Placed(c)
    BY <2>1, P!NewCall, ExpressionObjects
  <2>3. source' = objects /\ calls' = <<c>> /\ code' = <<>> /\ status' = "compiling"
    BY <2>1 DEF Evaluate
  <2> HIDE DEF c
  <2>4. /\ calls' \in Seq(P!CallRecord) /\ calls' # <<>> /\ Len(calls') = 1
        /\ DOMAIN calls' = {1} /\ calls'[1] = c
    BY <2>2, <2>3
  <2>5. P!TypeOK'
    BY <2>1, <2>3, <2>4, EmptySeq DEF P!TypeOK
  <2> QED
    BY <2>2, <2>4, <2>5 DEF P!PInv
<1>3. HangsUnfinished'
  BY DEF HangsUnfinished
<1> QED
  BY <1>1, <1>2, <1>3 DEF CInv, Expressing

\* A line that does not compile.
LEMMA StopStep ==
  ASSUME CInv, NEW how \in {"rejected", "undefined", "hanging"}, Stop(how),
         how = "hanging" => \A i \in DOMAIN Top.rest : Top.rest[i].type # "SEMICOLON"
  PROVE  CInv'
<1>1. Expressing'
  BY SameExpressing DEF CInv, Stop
<1>2. HangsUnfinished'
  BY DEF HangsUnfinished, Stop, Top
<1>3. Nested(blocks)' /\ (status = "compiling" => Top.doing \in Expecting)'
  BY DEF CInv, Stop, Nested, Top
<1> QED
  BY <1>1, <1>2, <1>3 DEF CInv, Stop

\* The expression at hand goes on.
LEMMA ExpressionStepC == CInv /\ CompileExpression => CInv'
<1> SUFFICES ASSUME CInv, CompileExpression PROVE CInv'
  OBVIOUS
<1>1. P!PInv /\ Top.doing \in Expecting
  BY DEF CInv, Expressing, CompileExpression
<1>2. P!PInv'
  BY <1>1, ExpressionStep DEF CompileExpression
<1>3. UNCHANGED <<line, blocks, phase>> /\ phase = "compiling"
  BY DEF CompileExpression, own
<1>4. HangsUnfinished'
  BY <1>3 DEF HangsUnfinished
<1>5. Nested(blocks)' /\ Top' = Top
  BY <1>3 DEF CInv, Nested, Top
<1> QED
  BY <1>1, <1>2, <1>3, <1>4, <1>5 DEF CInv, Expressing

\* Where a statement starts.
LEMMA AtStatement ==
  ASSUME CInv, NEW name \in {"VARIABLE_ASSIGN", "RETURN", "EXPRESSION", "ELSEIF", "IF",
                             "ELSE", "FUNCTION", "CLASS"}, At(name)
  PROVE  /\ phase = "compiling" /\ status # "compiling" /\ Nested(blocks)
         /\ Statement(Top.rest) \notin {"NONE", "THROWS"}
         /\ Parts(Top.rest) \in E!Lists /\ Begins(name, Parts(Top.rest))
         /\ Top.rest \in E!Lists
<1>1. phase = "compiling" /\ Top.doing = "statements" /\ Statement(Top.rest) = name
  BY DEF At, Compiling
<1>2. Nested(blocks) /\ status # "compiling"
  BY <1>1 DEF CInv, Expecting
<1>3. Top \in BlockRecord /\ Top.rest \in E!Lists
  BY <1>2, Blocks DEF BlockRecord
<1> QED
  BY <1>1, <1>2, <1>3, StatementParts

\* The trees in a statement.
LEMMA PartObjects ==
  ASSUME NEW l \in E!Lists, NEW i \in Nat, 1 <= i, i <= Len(l)
  PROVE  /\ l[i].type \in {"BRACKETS", "BRACES"} => l[i].objects \in E!Lists
         /\ l[i].type \in {"ID", "EQUAL"} => l[i].text \in E!Texts
<1>1. l[i] \in Objects
  BY ElementOfSeq, LenProperties DEF E!Lists
<1>2. l[i].type \in {"BRACKETS", "BRACES"} => E!IsTree(l[i])
  BY DEF E!IsTree, E!TreeTypes
<1>3. l[i].type \in {"ID", "EQUAL"} => ~E!IsTree(l[i])
  BY DEF E!IsTree, E!TreeTypes
<1> QED
  BY <1>1, <1>2, <1>3, CellTexts, LinesAssumption DEF E!Lists

\* The objects a statement is compiled from.
LEMMA Beginning ==
  ASSUME NEW l \in E!Lists
  PROVE  /\ Begins("VARIABLE_ASSIGN", l) => l[1].text \in E!Texts /\ SubSeq(l, 3, Len(l)) \in E!Lists
         /\ Begins("RETURN", l) => Tail(l) \in E!Lists
         /\ Begins("IF", l) => l[2].objects \in E!Lists /\ l[3].objects \in E!Lists
         /\ Begins("ELSE", l) => l[2].objects \in E!Lists
         /\ Begins("FUNCTION", l) =>
              l[2].text \in E!Texts /\ l[3].objects \in E!Lists /\ l[4].objects \in E!Lists
         /\ Begins("CLASS", l) => l[2].text \in E!Texts /\ l[3].objects \in E!Lists
<1>1. Len(l) \in Nat /\ \A i \in 1..Len(l) : l[i] \in Objects
  BY LenProperties, ElementOfSeq DEF E!Lists
<1>2. SubSeq(l, 3, Len(l)) \in E!Lists
  BY <1>1, SubSeqProperties DEF E!Lists
<1>3. l # <<>> => Tail(l) \in E!Lists
  BY HeadTailProperties DEF E!Lists
<1>4. Len(l) >= 1 => l # <<>>
  BY EmptySeq
<1>5. /\ 1 <= Len(l) /\ l[1].type = "ID" => l[1].text \in E!Texts
      /\ 2 <= Len(l) /\ l[2].type = "ID" => l[2].text \in E!Texts
      /\ 2 <= Len(l) /\ l[2].type \in {"BRACKETS", "BRACES"} => l[2].objects \in E!Lists
      /\ 3 <= Len(l) /\ l[3].type \in {"BRACKETS", "BRACES"} => l[3].objects \in E!Lists
      /\ 4 <= Len(l) /\ l[4].type \in {"BRACKETS", "BRACES"} => l[4].objects \in E!Lists
  BY <1>1, PartObjects
<1> QED
  BY <1>1, <1>2, <1>3, <1>4, <1>5 DEF Begins, Starts

-----------------------------------------------------------------------------
(* The actions.                                                             *)

\* A statement that starts with an expression.
LEMMA StatementStart ==
  ASSUME CInv, NEW name, NEW doing, NEW objects, At(name), Start(doing, objects),
         \/ name = "VARIABLE_ASSIGN" /\ doing = "assign"
         \/ name = "RETURN" /\ doing = "return"
         \/ name = "EXPRESSION" /\ doing = "expression"
         \/ name = "IF" /\ doing = "condition",
         Begins(name, Parts(Top.rest)) => objects \in E!Lists
  PROVE  CInv'
<1>1. /\ phase = "compiling" /\ Nested(blocks)
      /\ Statement(Top.rest) \notin {"NONE", "THROWS"}
      /\ Begins(name, Parts(Top.rest))
  BY AtStatement
<1> DEFINE b == Waiting(doing)
<1>2. b \in BlockRecord /\ b.doing = doing /\ b.parts = Parts(Top.rest)
  BY <1>1, WaitingIs
<1>3. blocks' = SetTop(b) /\ Evaluate(objects) /\ UNCHANGED <<line, phase>>
  BY DEF Start
<1> HIDE DEF b
<1>4. Kept(b) /\ b.doing \in Expecting
  BY <1>1, <1>2 DEF Kept, Expecting
<1> QED
  BY <1>1, <1>2, <1>3, <1>4, StartStep

LEMMA AssignStep == CInv /\ Assign => CInv'
<1> SUFFICES ASSUME CInv, Assign PROVE CInv'
  OBVIOUS
<1> DEFINE parts == Parts(Top.rest)
<1>1. At("VARIABLE_ASSIGN") /\ Start("assign", SubSeq(parts, 3, Len(parts)))
  BY DEF Assign
<1>2. Begins("VARIABLE_ASSIGN", parts) => SubSeq(parts, 3, Len(parts)) \in E!Lists
  BY <1>1, AtStatement, Beginning
<1> QED
  BY <1>1, <1>2, StatementStart

LEMMA ReturnStep == CInv /\ Return => CInv'
<1> SUFFICES ASSUME CInv, Return PROVE CInv'
  OBVIOUS
<1>1. At("RETURN") /\ Start("return", Tail(Parts(Top.rest)))
  BY DEF Return
<1>2. Begins("RETURN", Parts(Top.rest)) => Tail(Parts(Top.rest)) \in E!Lists
  BY <1>1, AtStatement, Beginning
<1> QED
  BY <1>1, <1>2, StatementStart

LEMMA ExpressionStart == CInv /\ Expression => CInv'
<1> SUFFICES ASSUME CInv, Expression PROVE CInv'
  OBVIOUS
<1>1. At("EXPRESSION") /\ Start("expression", Parts(Top.rest))
  BY DEF Expression
<1>2. Parts(Top.rest) \in E!Lists
  BY <1>1, AtStatement
<1> QED
  BY <1>1, <1>2, StatementStart

LEMMA IfStep == CInv /\ If => CInv'
<1> SUFFICES ASSUME CInv, If PROVE CInv'
  OBVIOUS
<1>1. At("IF") /\ Start("condition", Parts(Top.rest)[2].objects)
  BY DEF If
<1>2. Begins("IF", Parts(Top.rest)) => Parts(Top.rest)[2].objects \in E!Lists
  BY <1>1, AtStatement, Beginning
<1> QED
  BY <1>1, <1>2, StatementStart

\* A block that waited for an expression.
LEMMA EvaluatedBlock ==
  ASSUME CInv, NEW doing, Evaluated(doing)
  PROVE  /\ phase = "compiling" /\ status # "compiling" /\ Nested(blocks)
         /\ Top \in BlockRecord /\ Kept(Top) /\ Top.doing = doing
         /\ Top.stream \in Cells /\ Top.parts \in E!Lists
         /\ Top.hasReturn \in BOOLEAN
         /\ ExpressionBytes \in Cells
<1>1. phase = "compiling" /\ status # "compiling" /\ Nested(blocks) /\ Top.doing = doing
  BY DEF CInv, Evaluated, Compiling
<1>2. Top \in BlockRecord /\ Kept(Top)
  BY <1>1, Blocks
<1>3. code \in Seq(E!CodeRecord)
  <2>1. CASE P!PInv
    BY <2>1, SameExpression DEF P!PInv, P!TypeOK
  <2>2. CASE code = <<>>
    BY <2>2
  <2> QED
    BY <2>1, <2>2 DEF CInv, Expressing
<1> QED
  BY <1>1, <1>2, <1>3, ExpressionCells DEF BlockRecord, Cells

LEMMA SameReturn ==
  ASSUME NEW b \in BlockRecord, NEW stream, NEW doing
  PROVE  [b EXCEPT !.stream = stream, !.doing = doing] = Extended(b, stream, doing, b.hasReturn)
BY DEF Extended, BlockRecord

LEMMA WriteStep ==
  ASSUME CInv, NEW doing, Evaluated(doing), NEW bytes \in Cells, Write(bytes)
  PROVE  CInv'
<1>1. /\ phase = "compiling" /\ status # "compiling" /\ Nested(blocks)
      /\ Top \in BlockRecord /\ Top.stream \in Cells /\ Top.hasReturn \in BOOLEAN
  BY EvaluatedBlock
<1> DEFINE b == Extended(Top, Top.stream \o bytes, "statements", Top.hasReturn)
<1>2. Top.stream \o bytes \in Cells
  BY <1>1, Joined
<1>3. b \in BlockRecord /\ Kept(b)
  BY <1>1, <1>2, ExtendedIs
<1>4. blocks' = SetTop([Top EXCEPT !.stream = Top.stream \o bytes, !.doing = "statements"])
      /\ UNCHANGED <<line, phase, source, calls, code, status>>
  BY DEF Write
<1>5. blocks' = SetTop(b)
  BY <1>1, <1>4, SameReturn
<1> HIDE DEF b
<1>6. Nested(blocks)'
  BY <1>1, <1>3, <1>5, TopBlocks DEF Nested
<1> QED
  BY <1>1, <1>4, <1>6, BlocksStep

LEMMA EndAssignStep == CInv /\ EndAssign => CInv'
<1> SUFFICES ASSUME CInv, EndAssign PROVE CInv'
  OBVIOUS
<1> DEFINE bytes == ExpressionBytes \o Sized("SET_NAME", Top.parts[1].text)
<1>1. Evaluated("assign") /\ Write(bytes)
  BY DEF EndAssign
<1>2. bytes \in Cells
  <2>1. ExpressionBytes \in Cells /\ Top.parts \in E!Lists /\ Begins("VARIABLE_ASSIGN", Top.parts)
    BY <1>1, EvaluatedBlock DEF Kept
  <2>2. Top.parts[1].text \in E!Texts /\ "SET_NAME" \in CellOps
    BY <2>1, Beginning DEF CellOps
  <2>3. Sized("SET_NAME", Top.parts[1].text) \in Cells
    BY <2>2, SizedCells
  <2> QED
    BY <2>1, <2>3, Joined
<1> HIDE DEF bytes
<1> QED
  BY <1>1, <1>2, WriteStep

LEMMA EndExpressionStep == CInv /\ EndExpression => CInv'
<1> SUFFICES ASSUME CInv, EndExpression PROVE CInv'
  OBVIOUS
<1> DEFINE bytes == ExpressionBytes \o Op("POP_OBJECT")
<1>1. Evaluated("expression") /\ Write(bytes)
  BY DEF EndExpression
<1>2. bytes \in Cells
  <2>1. "POP_OBJECT" \in CellOps
    BY DEF CellOps
  <2> QED
    BY <1>1, <2>1, EvaluatedBlock, OpCells, Joined
<1> HIDE DEF bytes
<1> QED
  BY <1>1, <1>2, WriteStep

LEMMA EndReturnStep == CInv /\ EndReturn => CInv'
<1> SUFFICES ASSUME CInv, EndReturn PROVE CInv'
  OBVIOUS
<1> DEFINE stream == Top.stream \o ExpressionBytes \o Op("RET")
           b == Extended(Top, stream, "statements", TRUE)
<1>1. /\ Evaluated("return") /\ UNCHANGED <<line, phase, source, calls, code, status>>
      /\ blocks' = SetTop([Top EXCEPT !.stream = stream, !.doing = "statements",
                                      !.hasReturn = TRUE])
  BY DEF EndReturn
<1>2. /\ phase = "compiling" /\ status # "compiling" /\ Nested(blocks)
      /\ Top \in BlockRecord /\ Top.stream \in Cells /\ ExpressionBytes \in Cells
  BY <1>1, EvaluatedBlock
<1>3. stream \in Cells
  <2>1. "RET" \in CellOps
    BY DEF CellOps
  <2>2. Op("RET") \in Cells /\ Top.stream \o ExpressionBytes \in Cells
    BY <1>2, <2>1, OpCells, Joined
  <2> QED
    BY <2>2, Joined
<1>4. blocks' = SetTop(b)
  BY <1>1 DEF Extended
<1> HIDE DEF stream
<1>5. b \in BlockRecord /\ Kept(b)
  BY <1>2, <1>3, ExtendedIs
<1> HIDE DEF b
<1>6. Nested(blocks)'
  BY <1>2, <1>4, <1>5, TopBlocks DEF Nested
<1> QED
  BY <1>1, <1>2, <1>6, BlocksStep

LEMMA ElseIfStep == CInv /\ ElseIf => CInv'
<1> SUFFICES ASSUME CInv, ElseIf PROVE CInv'
  OBVIOUS
<1> DEFINE b == Waiting("statements")
<1>1. /\ At("ELSEIF") /\ blocks' = SetTop(b)
      /\ UNCHANGED <<line, phase, source, calls, code, status>>
  BY DEF ElseIf
<1>2. /\ phase = "compiling" /\ status # "compiling" /\ Nested(blocks)
      /\ Statement(Top.rest) \notin {"NONE", "THROWS"}
  BY <1>1, AtStatement
<1>3. b \in BlockRecord /\ b.doing = "statements"
  BY <1>2, WaitingIs
<1> HIDE DEF b
<1>4. Nested(blocks)'
  BY <1>1, <1>2, <1>3, TopBlocks DEF Nested, Kept
<1> QED
  BY <1>1, <1>2, <1>4, BlocksStep

\* The block waits for an inner one.
LEMMA EnterStep ==
  ASSUME CInv, phase = "compiling", status # "compiling",
         NEW b \in BlockRecord, Kept(b), NEW l \in E!Lists, NEW scope \in BOOLEAN,
         NEW function \in BOOLEAN, NEW class \in BOOLEAN,
         Enter(b, CompileCall(l, scope, function, class))
  PROVE  CInv'
<1> DEFINE c == CompileCall(l, scope, function, class)
<1>1. c \in BlockRecord /\ Kept(c)
  BY NewBlock
<1>2. blocks' = Append(SetTop(b), c) /\ UNCHANGED <<line, phase, source, calls, code, status>>
  BY DEF Enter
<1> HIDE DEF c
<1>3. Nested(blocks)'
  BY <1>1, <1>2, InnerBlocks DEF Nested, CInv
<1> QED
  BY <1>2, <1>3, BlocksStep

LEMMA IfBlockStep == CInv /\ IfBlock => CInv'
<1> SUFFICES ASSUME CInv, IfBlock PROVE CInv'
  OBVIOUS
<1> DEFINE stream == Top.stream \o ExpressionBytes
           b == Extended(Top, stream, "if", Top.hasReturn)
           l == Top.parts[3].objects
<1>1. /\ Evaluated("condition")
      /\ Enter([Top EXCEPT !.stream = stream, !.doing = "if"],
               CompileCall(l, TRUE, FALSE, FALSE))
  BY DEF IfBlock
<1>2. /\ phase = "compiling" /\ status # "compiling"
      /\ Top \in BlockRecord /\ Top.stream \in Cells /\ ExpressionBytes \in Cells
      /\ Top.hasReturn \in BOOLEAN /\ Top.parts \in E!Lists /\ Begins("IF", Top.parts)
  BY <1>1, EvaluatedBlock DEF Kept
<1>3. stream \in Cells /\ l \in E!Lists
  BY <1>2, Joined, Beginning
<1>4. Enter(b, CompileCall(l, TRUE, FALSE, FALSE))
  BY <1>1, <1>2, SameReturn
<1> HIDE DEF stream, l
<1>5. b \in BlockRecord /\ Kept(b)
  BY <1>2, <1>3, ExtendedIs
<1> HIDE DEF b
<1> QED
  BY <1>2, <1>3, <1>4, <1>5, EnterStep

\* A statement that starts with a block.
LEMMA BlockStart ==
  ASSUME CInv, NEW name, NEW doing, At(name), NEW l, NEW scope \in BOOLEAN,
         NEW function \in BOOLEAN, NEW class \in BOOLEAN,
         Enter(Waiting(doing), CompileCall(l, scope, function, class)),
         \/ name = "ELSE" /\ doing = "else"
         \/ /\ name = "FUNCTION" /\ doing = "function"
            /\ SignatureValid(Parts(Top.rest)[3].objects)
         \/ name = "CLASS" /\ doing = "class",
         Begins(name, Parts(Top.rest)) => l \in E!Lists
  PROVE  CInv'
<1>1. /\ phase = "compiling" /\ status # "compiling" /\ Nested(blocks)
      /\ Statement(Top.rest) \notin {"NONE", "THROWS"}
      /\ Begins(name, Parts(Top.rest))
  BY AtStatement
<1> DEFINE b == Waiting(doing)
<1>2. b \in BlockRecord /\ b.doing = doing /\ b.parts = Parts(Top.rest)
  BY <1>1, WaitingIs
<1>3. Enter(b, CompileCall(l, scope, function, class))
  OBVIOUS
<1> HIDE DEF b
<1>4. Kept(b)
  BY <1>1, <1>2 DEF Kept
<1> QED
  BY <1>1, <1>2, <1>3, <1>4, EnterStep

LEMMA ElseStep == CInv /\ Else => CInv'
<1> SUFFICES ASSUME CInv, Else PROVE CInv'
  OBVIOUS
<1> DEFINE l == Parts(Top.rest)[2].objects
<1>1. At("ELSE") /\ Enter(Waiting("else"), CompileCall(l, FALSE, FALSE, FALSE))
  BY DEF Else
<1>2. Begins("ELSE", Parts(Top.rest)) => l \in E!Lists
  BY <1>1, AtStatement, Beginning
<1> HIDE DEF l
<1> QED
  BY <1>1, <1>2, BlockStart

LEMMA FunctionStep == CInv /\ Function => CInv'
<1> SUFFICES ASSUME CInv, Function PROVE CInv'
  OBVIOUS
<1> DEFINE l == Parts(Top.rest)[4].objects
<1>1. /\ At("FUNCTION") /\ SignatureValid(Parts(Top.rest)[3].objects)
      /\ Enter(Waiting("function"), CompileCall(l, TRUE, TRUE, FALSE))
  BY DEF Function
<1>2. Begins("FUNCTION", Parts(Top.rest)) => l \in E!Lists
  BY <1>1, AtStatement, Beginning
<1> HIDE DEF l
<1> QED
  BY <1>1, <1>2, BlockStart

LEMMA ClassStep == CInv /\ Class => CInv'
<1> SUFFICES ASSUME CInv, Class PROVE CInv'
  OBVIOUS
<1> DEFINE l == Parts(Top.rest)[3].objects
<1>1. At("CLASS") /\ Enter(Waiting("class"), CompileCall(l, FALSE, FALSE, TRUE))
  BY DEF Class
<1>2. Begins("CLASS", Parts(Top.rest)) => l \in E!Lists
  BY <1>1, AtStatement, Beginning
<1> HIDE DEF l
<1> QED
  BY <1>1, <1>2, BlockStart

\* The end of a call.
LEMMA EndedBlock ==
  ASSUME CInv, Ended
  PROVE  /\ phase = "compiling" /\ status # "compiling" /\ Nested(blocks)
         /\ Top \in BlockRecord /\ Compiled \in Cells
<1>1. phase = "compiling" /\ Top.doing = "statements"
  BY DEF Ended, Compiling
<1>2. status # "compiling" /\ Nested(blocks)
  BY <1>1 DEF CInv, Expecting
<1>3. Top \in BlockRecord
  BY <1>2, Blocks
<1> DEFINE a == IF Top.scope THEN Op("END_SCOPE") ELSE <<>>
           b == IF Top.function THEN Op(IF Top.hasReturn THEN "RET" ELSE "RET_NULL") ELSE <<>>
<1>4. a \in Cells /\ b \in Cells
  <2>1. "END_SCOPE" \in CellOps /\ "RET" \in CellOps /\ "RET_NULL" \in CellOps
    BY DEF CellOps
  <2>2. Op("END_SCOPE") \in Cells /\ Op("RET") \in Cells /\ Op("RET_NULL") \in Cells /\ <<>> \in Cells
    BY <2>1, OpCells, Joined
  <2>3. CASE Top.hasReturn
    BY <2>2, <2>3
  <2>4. CASE ~Top.hasReturn
    BY <2>2, <2>4
  <2> QED
    BY <2>3, <2>4
<1>5. Top.stream \in Cells
  BY <1>3 DEF BlockRecord, Cells
<1>6. Compiled = Top.stream \o a \o b
  BY DEF Compiled
<1> HIDE DEF a, b
<1>7. Top.stream \o a \in Cells
  BY <1>4, <1>5, Joined
<1>8. Compiled \in Cells
  BY <1>4, <1>6, <1>7, Joined
<1> QED
  BY <1>1, <1>2, <1>3, <1>8

LEMMA EndedForBlock ==
  ASSUME CInv, NEW doing, EndedFor(doing)
  PROVE  /\ phase = "compiling" /\ status # "compiling" /\ Nested(blocks) /\ Len(blocks) > 1
         /\ Outer \in BlockRecord /\ Kept(Outer) /\ Outer.doing = doing
         /\ Outer.stream \in Cells /\ Outer.parts \in E!Lists
         /\ Compiled \in Cells
<1>1. Ended /\ Len(blocks) > 1 /\ Outer.doing = doing
  BY DEF EndedFor
<1>2. phase = "compiling" /\ status # "compiling" /\ Nested(blocks) /\ Compiled \in Cells
  BY <1>1, EndedBlock
<1>3. Outer \in BlockRecord /\ Kept(Outer)
  <2>1. \E b \in BlockRecord : Kept(b)
    BY <1>2, Blocks
  <2> QED
    BY <1>1, <1>2, <2>1, OuterBlocks
<1> QED
  BY <1>1, <1>2, <1>3 DEF BlockRecord, Cells

LEMMA LeaveStep ==
  ASSUME CInv, NEW doing, EndedFor(doing), NEW stream \in Cells, Leave(stream)
  PROVE  CInv'
<1>1. /\ phase = "compiling" /\ status # "compiling" /\ Nested(blocks) /\ Len(blocks) > 1
      /\ Outer \in BlockRecord
  BY EndedForBlock
<1> DEFINE b == Extended(Outer, stream, "statements", Outer.hasReturn)
<1>2. /\ blocks' = Append(SubSeq(blocks, 1, Len(blocks) - 2), b)
      /\ UNCHANGED <<line, phase, source, calls, code, status>>
  BY <1>1, SameReturn DEF Leave
<1>3. b \in BlockRecord /\ Kept(b)
  <2>1. Outer.hasReturn \in BOOLEAN
    BY <1>1 DEF BlockRecord
  <2> QED
    BY <1>1, <2>1, ExtendedIs
<1> HIDE DEF b
<1>4. Nested(blocks)'
  BY <1>1, <1>2, <1>3, OuterBlocks DEF Nested
<1> QED
  BY <1>1, <1>2, <1>4, BlocksStep

LEMMA EndIfStep == CInv /\ EndIf => CInv'
<1> SUFFICES ASSUME CInv, EndIf PROVE CInv'
  OBVIOUS
<1> DEFINE stream == Outer.stream \o Jump("JMP_IF_FALSE", Compiled) \o Op("POP_OBJECT")
<1>1. EndedFor("if") /\ Leave(stream)
  BY DEF EndIf
<1>2. stream \in Cells
  <2>1. Outer.stream \in Cells /\ Compiled \in Cells
    BY <1>1, EndedForBlock
  <2>2. Jump("JMP_IF_FALSE", Compiled) \in Cells
    BY <2>1, JumpCells
  <2>3. "POP_OBJECT" \in CellOps
    BY DEF CellOps
  <2>4. Op("POP_OBJECT") \in Cells /\ Outer.stream \o Jump("JMP_IF_FALSE", Compiled) \in Cells
    BY <2>1, <2>2, <2>3, OpCells, Joined
  <2> QED
    BY <2>4, Joined
<1> HIDE DEF stream
<1> QED
  BY <1>1, <1>2, LeaveStep

LEMMA EndElseStep == CInv /\ EndElse => CInv'
<1> SUFFICES ASSUME CInv, EndElse PROVE CInv'
  OBVIOUS
<1>1. EndedFor("else") /\ Outer.stream # <<>> /\ Leave(ElseBlock(Outer.stream, Compiled))
  BY DEF EndElse
<1>2. ElseBlock(Outer.stream, Compiled) \in Cells
  BY <1>1, EndedForBlock, ElseCells
<1> QED
  BY <1>1, <1>2, LeaveStep

LEMMA EndFunctionStep == CInv /\ EndFunction => CInv'
<1> SUFFICES ASSUME CInv, EndFunction PROVE CInv'
  OBVIOUS
<1> DEFINE name == Outer.parts[2].text
           names == Signature(Outer.parts[3].objects)
           stream == Outer.stream
                       \o IF Outer.class THEN AddClassMethod(name, names, Compiled)
                          ELSE DefineFunction(name, names, Compiled)
<1>1. EndedFor("function") /\ Leave(stream)
  BY DEF EndFunction
<1>2. /\ Outer.stream \in Cells /\ Compiled \in Cells /\ Outer.parts \in E!Lists
      /\ Begins("FUNCTION", Outer.parts) /\ SignatureValid(Outer.parts[3].objects)
  BY <1>1, EndedForBlock DEF Kept
<1>3. name \in E!Texts /\ names \in Seq(E!Texts)
  <2>1. name \in E!Texts /\ Outer.parts[3].objects \in E!Lists
    BY <1>2, Beginning
  <2> QED
    BY <1>2, <2>1, SignatureTexts
<1> HIDE DEF name, names
<1>4. /\ AddClassMethod(name, names, Compiled) \in Cells
      /\ DefineFunction(name, names, Compiled) \in Cells
  BY <1>2, <1>3, FunctionCells
<1>5. stream \in Cells
  <2>1. CASE Outer.class
    BY <1>2, <1>4, <2>1, Joined
  <2>2. CASE ~Outer.class
    BY <1>2, <1>4, <2>2, Joined
  <2> QED
    BY <2>1, <2>2
<1> HIDE DEF stream
<1> QED
  BY <1>1, <1>5, LeaveStep

LEMMA EndClassStep == CInv /\ EndClass => CInv'
<1> SUFFICES ASSUME CInv, EndClass PROVE CInv'
  OBVIOUS
<1> DEFINE stream == Outer.stream \o CreateClass(Outer.parts[2].text, Compiled)
<1>1. EndedFor("class") /\ Leave(stream)
  BY DEF EndClass
<1>2. stream \in Cells
  <2>1. /\ Outer.stream \in Cells /\ Compiled \in Cells /\ Outer.parts \in E!Lists
        /\ Begins("CLASS", Outer.parts)
    BY <1>1, EndedForBlock DEF Kept
  <2>2. Outer.parts[2].text \in E!Texts
    BY <2>1, Beginning
  <2> QED
    BY <2>1, <2>2, ClassCells, Joined
<1> HIDE DEF stream
<1> QED
  BY <1>1, <1>2, LeaveStep

LEMMA FinishStep == CInv /\ Finish => CInv'
<1> SUFFICES ASSUME CInv, Finish PROVE CInv'
  OBVIOUS
<1> DEFINE b == [Top EXCEPT !.stream = Compiled]
<1>1. /\ Ended /\ phase' = "done" /\ blocks' = SetTop(b)
      /\ UNCHANGED <<line, source, calls, code, status>>
  BY DEF Finish
<1>2. /\ status # "compiling" /\ Nested(blocks) /\ Top \in BlockRecord /\ Compiled \in Cells
  BY <1>1, EndedBlock
<1>3. Kept(Top) /\ Top.doing = "statements"
  BY <1>1, <1>2, Blocks DEF Ended, Compiling
<1>4. b \in BlockRecord /\ b.doing = "statements"
  BY <1>2, <1>3 DEF BlockRecord, Cells
<1> HIDE DEF b
<1>5. Nested(blocks)'
  BY <1>1, <1>2, <1>4, TopBlocks DEF Nested, Kept
<1>6. HangsUnfinished'
  BY <1>1 DEF HangsUnfinished
<1>7. Expressing'
  BY <1>1, SameExpressing DEF CInv
<1> QED
  BY <1>1, <1>2, <1>5, <1>6, <1>7 DEF CInv

LEMMA StopSteps == CInv /\ (Reject \/ Crash \/ Hang) => CInv'
<1> SUFFICES ASSUME CInv, Reject \/ Crash \/ Hang PROVE CInv'
  OBVIOUS
<1>1. CASE Reject
  BY <1>1, StopStep DEF Reject
<1>2. CASE Crash
  BY <1>2, StopStep DEF Crash
<1>3. CASE Hang
  <2>1. At("NONE") /\ Stop("hanging")
    BY <1>3 DEF Hang
  <2>2. Statement(Top.rest) = "NONE" /\ Top.rest \in E!Lists
    BY <2>1, Blocks DEF At, CInv, BlockRecord
  <2>3. \A i \in DOMAIN Top.rest : Top.rest[i].type # "SEMICOLON"
    BY <2>2, NoSemicolon
  <2> QED
    BY <2>1, <2>3, StopStep
<1> QED
  BY <1>1, <1>2, <1>3

-----------------------------------------------------------------------------
(* The theorems.                                                            *)

LEMMA InitCInv == Init => CInv
<1> SUFFICES ASSUME Init PROVE CInv
  OBVIOUS
<1> DEFINE b == CompileCall(line, TRUE, FALSE, FALSE)
<1>1. line \in E!Lists
  BY LinesAssumption DEF Init, E!Lists
<1>2. b \in BlockRecord /\ Kept(b)
  BY <1>1, NewBlock
<1>3. blocks = <<b>>
  BY DEF Init
<1> HIDE DEF b
<1>4. Nested(blocks)
  BY <1>2, <1>3, EmptySeq DEF Nested
<1> QED
  BY <1>1, <1>4 DEF Init, CInv, Expressing, HangsUnfinished

LEMMA NextCInv == CInv /\ [Next]_vars => CInv'
<1> SUFFICES ASSUME CInv, [Next]_vars PROVE CInv'
  OBVIOUS
<1>1. CASE Next
  BY <1>1, ExpressionStepC, AssignStep, EndAssignStep, ReturnStep, EndReturnStep,
     ExpressionStart, EndExpressionStep, ElseIfStep, IfStep, IfBlockStep, EndIfStep,
     ElseStep, EndElseStep, FunctionStep, EndFunctionStep, ClassStep, EndClassStep,
     FinishStep, StopSteps, Zenon DEF Next
<1>2. CASE UNCHANGED vars
  <2>1. UNCHANGED <<line, blocks, phase, source, calls, code, status>>
    BY <1>2 DEF vars
  <2>2. Expressing'
    BY <2>1, SameExpressing DEF CInv
  <2>3. HangsUnfinished' /\ Nested(blocks)' /\ Top' = Top
    BY <2>1 DEF CInv, HangsUnfinished, Nested, Top
  <2> QED
    BY <2>1, <2>2, <2>3 DEF CInv
<1> QED
  BY <1>1, <1>2

LEMMA AlwaysCInv == Spec => []CInv
BY InitCInv, NextCInv, PTL DEF Spec

\* Every variable keeps its type, the streams of the blocks included: each cell
\* is one of the bytes compile writes (compiler.cpp:474), and an expression is
\* compiled only for a statement that waits for it.
THEOREM TypeCorrect == Spec => []TypeOK
<1>1. CInv => TypeOK
  <2> SUFFICES ASSUME CInv PROVE TypeOK
    OBVIOUS
  <2>1. source \in E!Lists /\ calls \in Seq(E!CallRecord) /\ code \in Seq(E!CodeRecord)
        /\ (status = "compiling" => calls # <<>>)
    <3>1. CASE P!PInv
      BY <3>1, SameExpression DEF P!PInv, P!TypeOK
    <3>2. CASE source = <<>> /\ calls = <<>> /\ code = <<>> /\ status = "done"
      BY <3>2 DEF E!Lists
    <3> QED
      BY <3>1, <3>2 DEF CInv, Expressing
  <2> QED
    BY <2>1 DEF CInv, Nested, TypeOK, Expecting
<1> QED
  BY <1>1, AlwaysCInv, PTL

\* However the blocks of a line are nested, compile goes round for ever
\* (compiler.cpp:544) only at a rest of a block in which no semicolon is left.
THEOREM HangsOnlyUnfinished == Spec => []HangsUnfinished
<1>1. CInv => HangsUnfinished
  BY DEF CInv
<1> QED
  BY <1>1, AlwaysCInv, PTL

=============================================================================
