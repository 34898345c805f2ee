----------------------------- MODULE KanExprMC -----------------------------
(***************************************************************************)
(* Small lists of tokens for KanExpr.                                      *)
(*                                                                         *)
(* Every operand has a text of its own, the number of its place: the       *)
(* operands of a tree at place p are numbered from 100 * p.                 *)
(***************************************************************************)
EXTENDS KanExpr, SequencesExt, TLC

CONSTANTS
  MCTokens,    \* kinds of objects that are put together in any order
  MCLength,    \* how many of them
  MCOperators, \* operators of sentences
  MCOperands,  \* kinds of operands of sentences
  MCHard,      \* kinds the compiler may not take, for sentences of two
  MCSentence,  \* how many operands a sentence has
  MCLong,      \* how many numbers a sentence of numbers has
  MCUnary,     \* operators a sentence may begin with
  MCWide       \* operators of lists that are too long for Positions

Token(type, n) == [type |-> type, text |-> ToString(n)]

Tree(type, l) == [type |-> type, objects |-> l]

Operator(type) == Token(type, 0)

Number(n) == Token("INTEGER", n)

\* Three thousand million and more.
Large(n) == [type |-> "INTEGER", text |-> ToString(n + 2) \o "000000000"]

Difference(n) == <<Number(n), Operator("MINUS"), Number(n + 1)>>

\* The objects a kind stands for at place n; brackets hold an expression or
\* the arguments of a call.
ObjectsOf(kind, n) ==
  CASE kind = "()"      -> <<Tree("BRACKETS", <<>>)>>
    [] kind = "(a)"     -> <<Tree("BRACKETS", <<Number(100 * n)>>)>>
    [] kind = "(a-b)"   -> <<Tree("BRACKETS", Difference(100 * n))>>
    [] kind = "((a))"   ->
         <<Tree("BRACKETS", <<Tree("BRACKETS", <<Number(100 * n)>>)>>)>>
    [] kind = "((a-b)*c-d)" ->
         <<Tree("BRACKETS",
                <<Tree("BRACKETS", Difference(100 * n)), Operator("MUL"),
                  Number(100 * n + 2), Operator("MINUS"), Number(100 * n + 3)>>)>>
    [] kind = "{}"      -> <<Tree("BRACES", <<>>)>>
    [] kind = "f(g(),a-b)" ->
         <<Token("ID", n),
           Tree("BRACKETS",
                <<Token("ID", 100 * n), Tree("BRACKETS", <<>>), Operator("COMMA")>>
                  \o Difference(100 * n + 1))>>
    [] kind = "f(a,(b))" ->
         <<Token("ID", n),
           Tree("BRACKETS",
                <<Number(100 * n), Operator("COMMA"),
                  Tree("BRACKETS", <<Number(100 * n + 1)>>)>>)>>
    [] kind = "large"   -> <<Large(n)>>
    [] kind = "(large)" -> <<Tree("BRACKETS", <<Large(n), Operator("MUL"), Number(100 * n)>>)>>
    [] kind = "a.b"     -> <<Token("ID", 100 * n), Operator("DOT"),
                             Token("ID", 100 * n + 1)>>
    [] kind \in LiteralTypes -> <<Token(kind, n)>>
    [] OTHER            -> <<Operator(kind)>>

\* Any objects in any order.
Jumble ==
  {FlattenSeq([i \in DOMAIN w |-> ObjectsOf(w[i], i)]) :
     w \in UNION {[1..n -> MCTokens] : n \in 0..MCLength}}

\* Operands with operators between them, and sometimes one before them.
Sentence(w, o) ==
  FlattenSeq([i \in 1..(2 * Len(w) - 1) |->
                IF i % 2 = 1 THEN ObjectsOf(w[(i + 1) \div 2], (i + 1) \div 2)
                ELSE <<Operator(o[i \div 2])>>])

Words ==
  UNION {[1..n -> MCOperands] : n \in 1..MCSentence}
    \cup UNION {[1..n -> MCOperands \cup MCHard] : n \in 1..2}
    \cup [1..MCLong -> {"INTEGER"}]

Sentences ==
  UNION {{Sentence(w, o) : o \in [1..(Len(w) - 1) -> MCOperators]} : w \in Words} \ {<<>>}

SignedSentences ==
  Sentences \cup {<<Operator(u)>> \o s : u \in MCUnary, s \in Sentences}

\* Lists whose last operation begins behind the last position; at the first
\* positions are operands of all kinds.
Starts ==
  {<<"INTEGER">>, <<"(a-b)">>, <<"(a-b)", "MINUS", "(a)">>, <<"ID", "(a)", "(a-b)">>}

Ends == {"INTEGER", "(a-b)", "f(g(),a-b)", "a.b"}

Numbered(w, k) == FlattenSeq([i \in DOMAIN w |-> ObjectsOf(w[i], i + k)])

Wide ==
  {Numbered(s \o [i \in 1..(Positions - Len(s)) |-> IF i % 2 = 1 THEN o ELSE "INTEGER"], 0)
     \o Numbered(u \o <<e>>, Positions) :
     s \in Starts, o \in MCWide, u \in {<<>>} \cup {<<p>> : p \in MCUnary}, e \in Ends}

MCExpressions ==
  SignedSentences \cup Wide \cup IF MCTokens = {} THEN {} ELSE Jumble

\* The objects of a list and of the trees in it, n levels deep.
Inside(l) ==
  LET Parts(objects) == UNION {Range(x.objects) : x \in {y \in objects : IsTree(y)}}
  IN Range(l) \cup Parts(Range(l)) \cup Parts(Parts(Range(l)))

MCObjects ==
  {EmptyToken} \cup
  UNION {Inside(ObjectsOf(kind, n)) :
           kind \in MCTokens \cup MCOperators \cup MCOperands \cup MCHard \cup MCUnary
                     \cup MCWide \cup Ends \cup {"ID", "(a)"},
           n \in 1..(Positions + 2)}

-----------------------------------------------------------------------------
(* What an expression means: its term.                                      *)

Leaf(x) == <<"LEAF", x.text>>

Levels == << {"LESSER", "LEFT_SHIFT", "BIN_OR"}, {"PLUS", "MINUS"}, {"MUL", "DIV"} >>

\* The places of the binary operators of a level.
OperatorsOf(l, level) == {p \in 2..Len(l) : l[p].type \in Levels[level]}

\* A list cut at its commas.
SplitAt(l) ==
  FoldLeft(LAMBDA pieces, x :
             IF x.type = "COMMA" THEN Append(pieces, <<>>)
             ELSE Append(Front(pieces), Append(Last(pieces), x)),
           IF l = <<>> THEN <<>> ELSE << <<>> >>, l)

\* The lists an expression is expected to be: operands with an operator
\* between any two, and at most a sign before the first.
RECURSIVE IsPhrase(_), IsOperand(_)
IsOperand(l) ==
  \/ Len(l) = 1 /\ l[1].type \in LiteralTypes
  \/ Len(l) = 1 /\ IsBrackets(l[1]) /\ IsPhrase(l[1].objects)
  \/ /\ Len(l) = 2
     /\ l[1].type = "ID"
     /\ IsBrackets(l[2])
     /\ \A arg \in Range(SplitAt(l[2].objects)) : IsPhrase(arg)
  \/ Len(l) = 3 /\ <<l[1].type, l[2].type, l[3].type>> = <<"ID", "DOT", "ID">>

IsPhrase(l) ==
  \/ IsOperand(l)
  \/ \E p \in 2..(Len(l) - 1) :
       /\ l[p].type \in UNION Range(Levels)
       /\ IsPhrase(SubSeq(l, 1, p - 1))
       /\ IsOperand(SubSeq(l, p + 1, Len(l)))

IsSentence(l) ==
  /\ Len(l) <= Positions
  /\ \/ IsPhrase(l)
     \/ l # <<>> /\ l[1].type \in {"PLUS", "MINUS"} /\ IsPhrase(Tail(l))

\* A pair of brackets is a whole list: the expression, what stands in brackets,
\* an argument.
RECURSIVE HasLoneBrackets(_)
HasLoneBrackets(l) ==
  \/ Len(l) = 1 /\ IsTree(l[1])
  \/ \E x \in Range(l) :
       IsTree(x) /\ \E part \in Range(SplitAt(x.objects)) : HasLoneBrackets(part)

\* An integer has no int.
RECURSIVE HasLargeInteger(_)
HasLargeInteger(l) ==
  \E x \in Range(l) :
    IF IsTree(x) THEN HasLargeInteger(x.objects)
    ELSE x.type = "INTEGER" /\ Num!OutOfRange(x.text)

\* The usual reading: levels of operators, each of them from left to right; a
\* sign ranks with addition.
RECURSIVE Reading(_)
Reading(l) ==
  LET Split(level) ==
        LET p == Max(OperatorsOf(l, level))
        IN <<BinaryOpcode[l[p].type],
             Reading(SubSeq(l, 1, p - 1)), Reading(SubSeq(l, p + 1, Len(l)))>>
  IN CASE OperatorsOf(l, 1) # {} -> Split(1)
       [] OperatorsOf(l, 1) = {} /\ OperatorsOf(l, 2) # {} -> Split(2)
       [] OperatorsOf(l, 1) \cup OperatorsOf(l, 2) = {} /\ IsOperator(l[1]) ->
            <<UnaryInstruction(l[1])[1].op, Reading(Tail(l))>>
       [] OperatorsOf(l, 1) \cup OperatorsOf(l, 2) = {} /\ ~IsOperator(l[1])
            /\ OperatorsOf(l, 3) # {} -> Split(3)
       [] Len(l) = 1 /\ ~IsTree(l[1]) -> Leaf(l[1])
       [] Len(l) = 1 /\ IsTree(l[1])  -> Reading(l[1].objects)
       [] Len(l) = 2 /\ ~IsOperator(l[1]) ->
            LET args == SplitAt(l[2].objects)
            IN <<"CALLB", Leaf(l[1])>> \o [i \in DOMAIN args |-> Reading(args[i])]
       [] OTHER -> <<"GET_ATTRIBUTESB", Leaf(l[1]), l[3].text>>

\* The terms an instruction leaves on a stack of terms, <<>> if it finds too
\* few there.
Apply(stack, i) ==
  LET Popped(n) == SubSeq(stack, 1, Len(stack) - n)
      n == Len(stack)
  IN CASE i.op \in {"PUSH_INTEGRAL", "PUSH_STRING", "LOAD_ID"} ->
            Append(stack, <<"LEAF", i.text>>)
       [] i.op \in {"UPLUS", "UMINUS", "BIN_NOTB"} /\ n >= 1 ->
            Append(Popped(1), <<i.op, stack[n]>>)
       [] i.op = "GET_ATTRIBUTESB" /\ n >= 1 ->
            Append(Popped(1), <<i.op, stack[n], i.text>>)
       [] i.op = "CALLB" /\ n > i.argscount ->
            Append(Popped(i.argscount + 1),
                   <<"CALLB">> \o SubSeq(stack, n - i.argscount, n))
       [] i.op \in Range(BinaryOpcode) /\ n >= 2 ->
            Append(Popped(2), <<i.op, stack[n - 1], stack[n]>>)
       [] OTHER -> <<>>

\* The values the code leaves on the stack.
Terms == FoldLeft(Apply, <<>>, code)

RECURSIVE RightOperandsPlain(_)
RightOperandsPlain(t) ==
  CASE t[1] = "LEAF" -> TRUE
    [] t[1] \in Range(BinaryOpcode) ->
         t[3][1] = "LEAF" /\ RightOperandsPlain(t[2])
    [] t[1] = "CALLB" -> \A i \in 3..Len(t) : RightOperandsPlain(t[i])
    [] OTHER -> RightOperandsPlain(t[2])

RECURSIVE BracketsOnTheRight(_)
BracketsOnTheRight(l) ==
  \E p \in DOMAIN l :
    \/ IsTree(l[p]) /\ BracketsOnTheRight(l[p].objects)
    \/ p > 1 /\ IsTree(l[p]) /\ IsOperator(l[p - 1])

RECURSIVE ValueOf(_)
ValueOf(t) ==
  CASE t[1] = "LEAF"   -> CHOOSE n \in 0..99 : ToString(n) = t[2]
    [] t[1] = "PLUSB"  -> ValueOf(t[2]) + ValueOf(t[3])
    [] t[1] = "MINUSB" -> ValueOf(t[2]) - ValueOf(t[3])
    [] t[1] = "MULB"   -> ValueOf(t[2]) * ValueOf(t[3])

RECURSIVE OperandTexts(_)
OperandTexts(l) ==
  {x.text : x \in {y \in Range(l) : y.type \in LiteralTypes}}
    \cup UNION {OperandTexts(x.objects) : x \in {y \in Range(l) : IsTree(y)}}

-----------------------------------------------------------------------------
(* Properties of sentences.                                                 *)

\* The compiler has no grammar, and still takes every sentence but those with
\* one of two faults: a pair of brackets that stands alone, behind which it
\* erases an object that is not there (compiler.cpp:316-321, 358-360), and an
\* integer stoi throws at (compiler.cpp:420).  It takes none with a fault.  The
\* empty tokens it leaves in the list never look like something else
\* (compiler.cpp:47-79, 410-414): in the end every operand has been compiled
\* once, and the code leaves one value.
SentencesAccepted ==
  IsSentence(source) =>
    /\ status = "undefined" => HasLoneBrackets(source)
    /\ status = "rejected" => HasLargeInteger(source)
    /\ status = "done" =>
         /\ ~HasLoneBrackets(source) /\ ~HasLargeInteger(source)
         /\ Len(Terms) = 1
         /\ {code[i].text : i \in DOMAIN code} \ {""} = OperandTexts(source)

\* The empty tokens in the lists of all running calls, the callable and the
\* arguments compiled so far stand for exactly the values the code leaves on
\* the stack, at every moment: the placeholders of compiler.cpp:358 and the
\* count CALLB is given agree with what the machine will do.
PendingValues ==
  IsSentence(source) =>
  Len(Terms) =
    FoldLeft(LAMBDA n, c :
               n + Cardinality({i \in DOMAIN c.objects : c.objects[i] = EmptyToken})
                 + (IF c.doing = "arguments" THEN 1 + c.count - Len(c.rest) ELSE 0)
                 + (IF c.doing = "finished" /\ c.objects[1] # EmptyToken THEN 1
                    ELSE 0),
             0, calls)
    - Cardinality({k \in 1..(Len(calls) - 1) : calls[k].doing = "arguments"})

\* When no right operand is itself an operation or in brackets, the code means
\* what the expression is read as: priorities, grouping from left to right, brackets
\* and calls come out in order although nothing but a priority is compared.
MeaningKept ==
  status = "done" /\ IsSentence(source)
    /\ ~BracketsOnTheRight(source) /\ RightOperandsPlain(Reading(source))
    => Terms = <<Reading(source)>>

\* README.md:4: KanLang is a calculator.
CalculatorAgrees ==
  status = "done" => ValueOf(Terms[1]) = ValueOf(Reading(source))

=============================================================================
