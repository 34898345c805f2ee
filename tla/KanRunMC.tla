------------------------------ MODULE KanRunMC ------------------------------
(***************************************************************************)
(* Lines for KanRun, made from expressions and statements, and what they   *)
(* mean: their text, and what they print, read from the statements without *)
(* any tokens, trees or instructions in between.                           *)
(***************************************************************************)
EXTENDS KanRun, Bitwise, TLC

CONSTANT MCOthers \* lines no meaning is given to

MCNames == {"print", "x", "a", "f", "g", Overwritten}

-----------------------------------------------------------------------------
(* Expressions and statements.                                              *)

Number(n) == [is |-> "int", number |-> n]
Literal(s) == [is |-> "string", text |-> s]
Id(name) == [is |-> "name", name |-> name]
Op(l, sign, r) == [is |-> "operation", left |-> l, sign |-> sign, right |-> r]
In(e) == [is |-> "brackets", inner |-> e]
Signed(sign, e) == [is |-> "signed", sign |-> sign, inner |-> e]
CallOf(name, args) == [is |-> "call", name |-> name, args |-> args]

Let(name, e) == [does |-> "let", name |-> name, value |-> e]
Show(args) == [does |-> "do", value |-> CallOf("print", args)]
Do(e) == [does |-> "do", value |-> e]
If(block) == [does |-> "if", block |-> block]
Def(name, args, body, gives) ==
  [does |-> "def", name |-> name, args |-> args, body |-> body, gives |-> gives]

\* An empty line; a call with two arguments; a function that gives itself;
\* locals; a function in a function; an if in a function; ifs at the top level;
\* calls in calls; names that are bound again; arithmetic.  The right operand of an
\* operation is never an operation.
MCPrograms ==
  {<<>>,
   <<Def("f", <<"a", "x">>, <<Show(<<Op(Id("x"), "-", Id("a")), Id("a")>>)>>, Literal("s")),
     Show(<<CallOf("f", <<Number(10), Number(3)>>), Literal("}"), Id("f")>>)>>,
   <<Def("f", <<"a">>, <<>>, Id("a")),
     Let("x", CallOf("f", <<Id("f")>>)),
     Show(<<Id("x"), CallOf("x", <<Number(7)>>)>>)>>,
   <<Let("x", Number(10)),
     Def("f", <<"a">>, <<Let("x", Literal("t;")), Show(<<Id("x")>>)>>,
         Op(Id("a"), "*", Number(2))),
     Show(<<CallOf("f", <<Op(Id("x"), "+", Number(1))>>), Id("x")>>)>>,
   <<Def("f", <<"a">>,
         <<Def("g", <<"x">>, <<Show(<<Id("x"), Id("print")>>)>>, Id("x"))>>,
         CallOf("g", <<Id("a")>>)),
     Show(<<CallOf("f", <<Literal("(")>>)>>)>>,
   <<Let("x", Number(10)),
     Def("f", <<"a">>, <<If(<<Let("x", Id("a")), Show(<<Id("x")>>)>>)>>, Id("x")),
     Show(<<CallOf("f", <<Literal("")>>)>>)>>,
   <<Def("f", <<"a">>, <<>>, Op(Id("a"), "+", Number(1))),
     If(<<Let("x", CallOf("f", <<Number(10)>>)),
          If(<<Show(<<Id("x"), Literal("yes")>>)>>)>>),
     Show(<<Literal("if")>>)>>,
   <<Def("f", <<"a", "x">>, <<>>, Op(Id("a"), "-", Id("x"))),
     Show(<<Op(Op(CallOf("f", <<CallOf("f", <<Number(10), Number(3)>>), Number(4)>>),
                  "*", Number(2)), "-", Number(1))>>)>>,
   <<Def("f", <<"a">>, <<Let("a", Literal("s"))>>, Id("a")),
     Def("g", <<"a">>, <<Show(<<Id("a")>>)>>, Number(1)),
     Do(CallOf("g", <<CallOf("f", <<Number(2)>>)>>)),
     Def("g", <<"a">>, <<>>, Id("g")),
     Do(CallOf("g", <<Id("f")>>)), Show(<<Id("g")>>)>>,
   <<Let("x", Op(Op(In(Op(Number(7), "-", Number(25))), "*", Number(2)), "/", Number(4))),
     Show(<<Id("x"), Op(Id("x"), ">>", Number(1)), Signed("~", Id("x"))>>),
     Let("a", Op(Signed("-", Number(3)), "+", Number(15))),
     Show(<<Op(Id("a"), "&", Number(10)), Op(Id("a"), "|", Number(3)),
            Op(Id("a"), "^", Number(10)), Op(Number(3), "<<", Id("a")),
            Op(Id("a"), "/", Number(5)),
            Op(Number(16777216), "|", Number(16777215))>>)>>}

-----------------------------------------------------------------------------
(* How they are written.                                                    *)

RECURSIVE Listed(_), Spelled(_), Written(_)
Listed(texts) ==
  IF Len(texts) = 1 THEN texts[1] ELSE texts[1] \o ", " \o Listed(Tail(texts))

Spelled(e) ==
  CASE e.is = "int"    -> ToString(e.number)
    [] e.is = "string" -> "\"" \o e.text \o "\""
    [] e.is = "name"   -> e.name
    [] e.is = "operation" -> Spelled(e.left) \o e.sign \o Spelled(e.right)
    [] e.is = "brackets" -> "(" \o Spelled(e.inner) \o ")"
    [] e.is = "signed" -> e.sign \o Spelled(e.inner)
    [] e.is = "call"   -> e.name \o "("
                              \o Listed([i \in DOMAIN e.args |-> Spelled(e.args[i])]) \o ")"

\* One statement.
Line(s) ==
  CASE s.does = "let" -> s.name \o "=" \o Spelled(s.value) \o ";"
    [] s.does = "do"  -> Spelled(s.value) \o "; "
    [] s.does = "if"  -> "if (true) {" \o Written(s.block) \o "}"
    [] s.does = "def" -> "func " \o s.name \o "(" \o Listed(s.args) \o "){" \o Written(s.body)
                           \o "return " \o Spelled(s.gives) \o ";}"

Written(stmts) == IF stmts = <<>> THEN "" ELSE Line(Head(stmts)) \o Written(Tail(stmts))

Chars(s) == [i \in 1..Len(s) |-> SubSeq(s, i, i)]

-----------------------------------------------------------------------------
(* What they mean.  An environment is a sequence of blocks of names, the    *)
(* inner ones last.                                                         *)

Thing(kind, value) == [kind |-> kind, value |-> value]

Builtins == "print" :> Thing("print", NoValue)

\* Operations on the integers of the lines above; a quotient that is no
\* integer and what has more bits than a float is some float.
Result(sign, l, r) ==
  LET exact ==
        CASE sign = "+"  -> l + r
          [] sign = "-"  -> l - r
          [] sign = "*"  -> l * r
          [] sign = "/"  -> LET q == {n \in -50..50 : n * r = l}
                            IN IF q = {} THEN Num!Other ELSE CHOOSE n \in q : TRUE
          [] sign = "<<" -> l * 2^r
          [] sign = ">>" -> CHOOSE n \in -50..50 : n * 2^r \in (l - 2^r + 1)..l
          [] sign = "&"  -> l & r
          [] sign = "|"  -> l | r
          [] sign = "^"  -> l ^^ r
  IN IF exact > 2^24 \/ exact < -(2^24) THEN Num!Other ELSE exact

Signs == "-" :> [n \in 0..50 |-> 0 - n] @@ "~" :> [n \in -50..50 |-> -1 - n]

Lookup(env, n) ==
  LET holds == {i \in DOMAIN env : n \in DOMAIN env[i]}
  IN env[CHOOSE i \in holds : \A j \in holds : j <= i][n]

Bind(env, n, v) == [env EXCEPT ![Len(env)] = (n :> v) @@ @]

Arguments(f, args) ==
  [n \in {f.args[i] : i \in DOMAIN f.args} |-> args[CHOOSE i \in DOMAIN f.args : f.args[i] = n]]

\* The value of an expression, or the names behind some statements, and what
\* was printed on the way.
Gives(value, out) == [value |-> value, out |-> out]

RECURSIVE Evaluated(_, _), EachOf(_, _), Done(_, _)
Evaluated(e, env) ==
  CASE e.is = "int" -> Gives(Thing("int", Value(e.number, "")), <<>>)
    [] e.is = "string" -> Gives(Thing("string", Value(0, e.text)), <<>>)
    [] e.is = "name" -> Gives(Lookup(env, e.name), <<>>)
    [] e.is = "operation" ->
         LET sides == EachOf(<<e.left, e.right>>, env)
         IN Gives(Thing("int", Value(Result(e.sign, sides.value[1].value.number,
                                            sides.value[2].value.number), "")),
                  sides.out)
    [] e.is = "brackets" -> Evaluated(e.inner, env)
    [] e.is = "signed" ->
         LET inner == Evaluated(e.inner, env)
         IN Gives(Thing("int", Value(Signs[e.sign][inner.value.value.number], "")), inner.out)
    [] e.is = "call" ->
         LET f    == Lookup(env, e.name)
             args == EachOf(e.args, env)
             body == Done(f.body, <<env[1], Arguments(f, args.value)>>)
             last == Evaluated(f.gives, body.value)
         IN IF f.kind = "print"
            THEN Gives(Thing("none", NoValue),
                       Append(args.out,
                              [i \in DOMAIN args.value |->
                                 Thing(args.value[i].kind, args.value[i].value)]))
            ELSE Gives(last.value, args.out \o body.out \o last.out)

\* Several expressions from left to right.
EachOf(es, env) ==
  IF es = <<>> THEN Gives(<<>>, <<>>)
  ELSE LET first == Evaluated(Head(es), env)
           rest  == EachOf(Tail(es), env)
       IN Gives(<<first.value>> \o rest.value, first.out \o rest.out)

\* A function knows its argument and the names of the line, and a block keeps
\* its names to itself.
Done(stmts, env) ==
  IF stmts = <<>> THEN Gives(env, <<>>)
  ELSE
    LET s == Head(stmts)
        e == Evaluated(s.value, env)
        first ==
          CASE s.does = "let" -> Gives(Bind(env, s.name, e.value), e.out)
            [] s.does = "do"  -> Gives(env, e.out)
            [] s.does = "if"  -> Gives(env, Done(s.block, Append(env, <<>>)).out)
            [] s.does = "def" -> Gives(Bind(env, s.name, [kind |-> "function", value |-> NoValue,
                                                          args |-> s.args, body |-> s.body, gives |-> s.gives]),
                                       <<>>)
        rest == Done(Tail(stmts), first.value)
    IN Gives(rest.value, first.out \o rest.out)

\* The lines that make sense, each with its answer.
Meanings ==
  {[line |-> Chars(Written(p)), answer |-> Done(p, <<Builtins>>).out] : p \in MCPrograms}

\* An else behind each kind of byte it may overwrite: the START_SCOPE of the line
\* and of a body, the last letter of a name, RET, POP_OBJECT.
ElseLines ==
  {"else {}", "x=10; else {}",
   "func f(a){else {} return a;};",
   "func f(a){else {return \"t\";} return 10;} print(f(10));",
   "func f(a){return a;} else {return \"t\";} print(f(10));",
   "if (true) {x=10;} else {return \"t\";}"}

MCLines == {m.line : m \in Meanings} \cup {Chars(s) : s \in MCOthers \cup ElseLines}

Sound(t) == \E m \in Meanings : m.line = t

Answer(t) == (CHOOSE m \in Meanings : m.line = t).answer

-----------------------------------------------------------------------------
(* Properties.                                                              *)

\* The live objects that no running line has made.
Left ==
  Cardinality({o \in DOMAIN heap :
                 heap[o].live /\ (machine \in {"running", "faulted"} => o < meta.false_obj)})

State ==
  CASE Lost -> "lost"
    [] ~Lost /\ machine = "exited" -> "gone"
    [] ~Lost /\ machine # "exited" -> IF stage = "prompt" THEN "waiting" ELSE "busy"

Session ==
  INSTANCE KanSession WITH state <- State, line <- text, left <- Left

\* A line that makes sense, whatever lines ran before it, prints what its
\* statements mean, in that order, returns to the prompt and frees what it has
\* created: the scanner, the parsers, the compiler and the machine fit together
\* (run, easy.hpp:42, and main).
ImplementsSession == Session!Spec

\* The code that compile writes for a line that makes sense adds up when it is
\* read the way runcode reads it, operand bytes of jumps included: this is what
\* the machine needs to have on its stack whatever it takes from there, and to
\* free whatever it has made (compile, compiler.cpp:474, and runcode).
SentencesBalanced == machine = "running" /\ Sound(text) => M!Balanced(program)

=============================================================================
