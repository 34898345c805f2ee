---------------------------- MODULE KanCompileMC ----------------------------
(***************************************************************************)
(* Lines for KanCompile: objects in any order, and sentences made from     *)
(* statements.  What a stream means to a machine that reads it as          *)
(* kanvm_doc/ru.md says.                                                   *)
(***************************************************************************)
EXTENDS KanCompile, SequencesExt

CONSTANTS
  MCKinds,   \* kinds of objects that are put together in any order
  MCLength,  \* how many of them
  MCSimple,  \* kinds of simple statements in sentences
  MCBlocks   \* how many statements a block of a sentence has

-----------------------------------------------------------------------------
(* Objects.                                                                 *)

Token(type, text) == <<[type |-> type, text |-> text]>>

Tree(type, l) == <<[type |-> type, objects |-> l]>>

Id(text) == Token("ID", text)
Integer == Token("INTEGER", "1")
Semicolon == Token("SEMICOLON", ";")
Brackets(l) == Tree("BRACKETS", l)
Braces(l) == Tree("BRACES", l)

\* The objects a kind stands for.
ObjectsOf(kind) ==
  CASE kind \in {"func", "if", "else", "return", "class", "x"} -> Id(kind)
    [] kind = "="      -> Token("EQUAL", "=")
    [] kind = ";"      -> Semicolon
    [] kind = "1"      -> Integer
    [] kind = "func f" -> Id("func") \o Id("sum")
    [] kind = "class A" -> Id("class") \o Id("A")
    [] kind = "(x)"    -> Brackets(Id("x"))
    [] kind = "(1)"    -> Brackets(Integer)
    [] kind = "{}"     -> Braces(<<>>)
    [] kind = "{1;}"   -> Braces(Integer \o Semicolon)
    [] kind = "{else{}}" -> Braces(Id("else") \o Braces(<<>>))

Jumble ==
  {FlattenSeq([i \in DOMAIN w |-> ObjectsOf(w[i])]) :
     w \in UNION {[1..n -> MCKinds] : n \in 0..MCLength}}

-----------------------------------------------------------------------------
(* Statements: a kind, and the blocks it has.                               *)

S(kind, blocks_) == [kind |-> kind, blocks |-> blocks_]

Simple == {S(kind, <<>>) : kind \in MCSimple}

BlocksOf(statements, n) == UNION {[1..m -> statements] : m \in 0..n}

WithBlock(bodies, short) ==
  {S(kind, <<b>>) : kind \in {"if", "func"}, b \in bodies}
    \cup {S("ifelse", <<b, c>>) : b \in short, c \in short}

\* A class has methods.
Classes(bodies) == {S("class", << <<S("func", <<b>>)>> >>) : b \in bodies}

\* Inner blocks hold simple statements, or one statement with such a block.
Inner == BlocksOf(Simple, MCBlocks)
Short == BlocksOf(Simple, 1)

Flat == WithBlock(Inner, Short) \cup Classes(Inner)

Nested ==
  {S("func", << <<s>> >>) : s \in Flat}
    \cup {S("ifelse", << <<s>>, <<t>> >>) :
             s \in WithBlock({<<>>}, {<<>>}), t \in WithBlock(Short, Short)}

Statements == Simple \cup Flat \cup Nested

Programs == {<<s>> : s \in Statements} \cup {<<s, S("x", <<>>)>> : s \in Statements}

Variable == Id("x") \o Token("EQUAL", "=")

Head1(kind) ==
  CASE kind = "x = 1"      -> Variable \o Integer
    [] kind = "x = f(1)"   -> Variable \o Id("f") \o Brackets(Integer)
    [] kind = "x"          -> Id("x")
    [] kind = "return x"   -> Id("return") \o Id("x")

\* The objects of a block.  A function at its end needs a semicolon.
RECURSIVE Source(_)
Source(block) ==
  FlattenSeq(
    [i \in DOMAIN block |->
       LET s == block[i]
           Block(k) == Braces(Source(s.blocks[k]))
       IN CASE s.kind = "if" -> Id("if") \o Brackets(Id("x")) \o Block(1)
            [] s.kind = "ifelse" -> Id("if") \o Brackets(Id("x")) \o Block(1)
                                      \o Id("else") \o Block(2)
            [] s.kind = "func" -> Id("func") \o Id("sum") \o Brackets(Id("one"))
                                    \o Block(1)
                                    \o (IF i = Len(block) THEN Semicolon ELSE <<>>)
            [] s.kind = "class" -> Id("class") \o Id("A") \o Block(1)
            [] OTHER -> Head1(s.kind) \o Semicolon])

Load(name) == Sized("LOAD_ID", name)
One == Encode([op |-> "PUSH_INTEGRAL", text |-> "1", argscount |-> 0])

SimpleBytes(kind) ==
  CASE kind = "x = 1"      -> One \o Sized("SET_NAME", "x")
    [] kind = "x = f(1)"   -> Load("f") \o One \o Op("CALLB") \o Number(1, 1)
                                \o Sized("SET_NAME", "x")
    [] kind = "x"          -> Load("x") \o Op("POP_OBJECT")
    [] kind = "return x"   -> Load("x") \o Op("RET")

Scope(bytes) == Op("START_SCOPE") \o bytes \o Op("END_SCOPE")

\* The code of a block.
RECURSIVE Translated(_)
Translated(block) ==
  LET Condition(s) == Load("x") \o Jump("JMP_IF_FALSE", Scope(Translated(s.blocks[1])))
      Body(s) ==
        Scope(Translated(s.blocks[1]))
          \o Op(IF \E i \in DOMAIN s.blocks[1] : s.blocks[1][i].kind = "return x"
                THEN "RET" ELSE "RET_NULL")
      Method(s) == AddClassMethod("sum", <<"one">>, Body(s))
  IN FlattenSeq(
       [i \in DOMAIN block |->
          LET s == block[i]
          IN CASE s.kind = "if" -> Condition(s) \o Op("POP_OBJECT")
               [] s.kind = "ifelse" ->
                    Condition(s) \o Jump("JMP_IF_TRUE", Translated(s.blocks[2]))
                      \o Op("POP_OBJECT")
               [] s.kind = "func" -> DefineFunction("sum", <<"one">>, Body(s))
               [] s.kind = "class" ->
                    CreateClass("A", FlattenSeq([j \in DOMAIN s.blocks[1] |->
                                                   Method(s.blocks[1][j])]))
               [] OTHER -> SimpleBytes(s.kind)])

\* What a sentence is made from, and what it stands for.
Translations == {<<Source(p), Scope(Translated(p))>> : p \in Programs}

Sentences == {t[1] : t \in Translations}

MCLines == Sentences \cup IF MCKinds = {} THEN {} ELSE Jumble

\* The objects of the lines, and those in their trees, down to the calls in the
\* methods of a class.
MCObjects ==
  LET outer == UNION {Range(l) : l \in MCLines}
      Inside(objects) ==
        objects \cup UNION {Range(x.objects) : x \in {y \in objects : E!IsTree(y)}}
  IN {E!EmptyToken} \cup Inside(Inside(Inside(Inside(outer))))

-----------------------------------------------------------------------------
(* The reading of a stream.                                                 *)

Value(s, p, bytes) ==
  FoldLeft(LAMBDA n, i : 256 * n + s[p + bytes - i].n, 0, [i \in 1..bytes |-> i])

\* Where the names of a signature end.
NamesEnd(s, p, count) == FoldLeft(LAMBDA q, i : q + 1 + s[q].n, p, [i \in 1..count |-> i])

Width(s, p) ==
  CASE s[p].op = "PUSH_INTEGRAL" -> 6
    [] s[p].op \in {"PUSH_STRING", "LOAD_ID", "SET_NAME", "GET_ATTRIBUTESB"} ->
         3 + Value(s, p + 1, 2)
    [] s[p].op = "CALLB" -> 2
    [] s[p].op \in {"JMP_IF_FALSE", "JMP_IF_TRUE"} -> 5
    [] s[p].op = "DEFINE_FUNCTION" ->
         NamesEnd(s, p + 7 + s[p + 5].n, s[p + 6].n) - p + Value(s, p + 1, 4)
    [] s[p].op = "CREATE_TYPE" -> 10 + s[p + 1].n + Value(s, p + 2, 4)
    [] OTHER -> 1

\* The places an instruction begins at, the place behind the last included.
Places(s) ==
  FoldLeft(LAMBDA places, p :
             IF p \in places THEN places \cup {p + Width(s, p)} ELSE places,
           {1}, [p \in 1..Len(s) |-> p])

Operands == {"BYTE", "TEXT"}

Whole(s) ==
  /\ Len(s) + 1 \in Places(s)
  /\ \A p \in Places(s) : p <= Len(s) => s[p].op \notin Operands

\* How many values an instruction adds to the stack.
Effect(s, p) ==
  CASE s[p].op \in {"PUSH_INTEGRAL", "PUSH_STRING", "LOAD_ID"} -> 1
    [] s[p].op \in {"SET_NAME", "POP_OBJECT"} -> -1
    [] s[p].op = "CALLB" -> -s[p + 1].n
    [] OTHER -> 0

ScopeEffect(s, p) ==
  CASE s[p].op = "START_SCOPE" -> 1
    [] s[p].op = "END_SCOPE" -> -1
    [] OTHER -> 0

\* Where the machine may go from p, with a stack and scopes of some height.
After(s, at) ==
  LET p == at[1]
      Goes(q) == <<q, at[2] + Effect(s, p), at[3] + ScopeEffect(s, p)>>
  IN CASE s[p].op = "RET" -> {}
       [] s[p].op \in {"JMP_IF_FALSE", "JMP_IF_TRUE"} ->
            {Goes(p + 5), Goes(p + 5 + Value(s, p + 1, 4))}
       [] OTHER -> {Goes(p + Width(s, p))}

\* Every place the machine can be at, with the heights it can have there.
Reached(s) ==
  FoldLeft(LAMBDA reached, p :
             reached \cup UNION {After(s, at) : at \in {r \in reached : r[1] = p}},
           {<<1, 0, 0>>}, [p \in 1..Len(s) |-> p])

-----------------------------------------------------------------------------
(* Properties of sentences.                                                 *)

\* The streams under construction; a class is no sequence of instructions.
Streams == {blocks[k].stream : k \in {j \in DOMAIN blocks : ~blocks[j].class}}

\* A sentence compiles, and to the code of its statements: the parser that
\* decides is the one meant for the statement, although the parsers overlap
\* (compiler.cpp:484), and inner streams end up where they belong.
SentencesTranslated ==
  /\ phase \in {"rejected", "undefined", "hanging"} => line \notin Sentences
  /\ phase = "done" =>
       \A t \in Translations : line = t[1] => Top.stream = t[2]

\* At every moment each stream is a sequence of whole instructions: the sizes
\* written for blocks, functions and classes are those of what is copied behind
\* them (compiler.cpp:572, 615, 633, 662).
InstructionsWhole == line \in Sentences => \A s \in Streams : Whole(s)

\* Whichever jumps are taken, the machine comes to each place with one height
\* of its stack and one number of open scopes, never below zero, and to the end
\* of a block with the values and scopes it began with: the POP_OBJECT that else
\* overwrites, the jumps over blocks and the scopes belong together.
PathsAgree ==
  line \in Sentences =>
  \A k \in DOMAIN blocks : ~blocks[k].class =>
    LET s == blocks[k].stream
        reached == Reached(s)
        waits == IF blocks[k].doing = "if" THEN 1 ELSE 0
        open == IF blocks[k].scope /\ phase # "done" THEN 1 ELSE 0
    IN /\ \A a, b \in reached : a[1] = b[1] => a = b
       /\ \A a \in reached :
            /\ a[2] >= 0 /\ a[3] >= 0
            /\ a[1] = Len(s) + 1 => a[2] = waits /\ a[3] = open

\* What KanVM assumes of its programs: the top level ends with END_SCOPE, and
\* the body of a function has a scope of its own (compiler.cpp:609) and ends with
\* END_SCOPE and a return.
BlocksFit ==
  line \in Sentences =>
  /\ phase = "done" =>
       /\ Top.stream[1].op = "START_SCOPE"
       /\ Top.stream[Len(Top.stream)].op = "END_SCOPE"
  /\ \A s \in Streams : \A p \in Places(s) :
       p <= Len(s) /\ s[p].op = "DEFINE_FUNCTION" =>
         LET body == SubSeq(s, p + Width(s, p) - Value(s, p + 1, 4), p + Width(s, p) - 1)
             n == Len(body)
         IN /\ body[1].op = "START_SCOPE"
            /\ body[n - 1].op = "END_SCOPE"
            /\ body[n].op \in {"RET", "RET_NULL"}

=============================================================================
