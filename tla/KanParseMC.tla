----------------------------- MODULE KanParseMC -----------------------------
(***************************************************************************)
(* Small lines for KanParse: characters in any order, brackets in any      *)
(* order, and tokens that are spelled out.                                 *)
(***************************************************************************)
EXTENDS KanParse, SequencesExt

CONSTANTS
  MCLength,   \* how many characters are put together in any order
  MCBrackets, \* how many brackets and names are put together in any order
  MCTokens,   \* the places in Vocabulary of the tokens that are spelled out
  MCSentence  \* how many of them

\* One character of each kind the parsers tell apart.
AnyChars ==
  {"1", ".", "a", "n", "=", "<", "(", ";", " ", "\\", S!Quote, S!NUL}

\* Tokens with their texts; of a string what is inside the quotes.
Vocabulary ==
  << S!Token("ID", <<"a", "1">>), S!Token("INTEGER", <<"1", "0">>),
     S!Token("FLOAT", <<"1", ".", "5">>), S!Token("STRING", <<"a", S!Quote, " ">>),
     S!Token("EQUAL", <<"=">>), S!Token("EQUALEQUAL", <<"=", "=">>),
     S!Token("LESSER_OR_EQUAL", <<"<", "=">>), S!Token("LEFT_SHIFT", <<"<", "<">>),
     S!Token("DOT", <<".">>), S!Token("OPEN_BRACKET", <<"(">>),
     S!Token("NOT_EQUAL", <<"!", "=">>), S!Token("ID", <<"_">>) >>

Semicolon == S!Token("SEMICOLON", <<";">>)

Escape(c) ==
  CASE c = "\n" -> <<"\\", "n">> [] c = "\t" -> <<"\\", "t">>
    [] c = S!Quote -> <<"\\", S!Quote>> [] OTHER -> <<c>>

\* A token as it is written.
Spelling(t) ==
  IF t.type = "STRING"
  THEN <<S!Quote>> \o FlattenSeq([i \in DOMAIN t.text |-> Escape(t.text[i])]) \o <<S!Quote>>
  ELSE t.text

\* t and u are read as two tokens although no blank is between them.
Separable(t, u) ==
  LET words == {"INTEGER", "FLOAT", "ID"}
  IN /\ t.type = "ID" => u.type \notin words
     /\ t.type \in {"INTEGER", "FLOAT"} => u.type \notin {"INTEGER", "FLOAT", "DOT"}
     /\ t.type = "EQUAL" => u.text[1] # "="

\* The tokens, each with a number of blanks behind it.
Spelled(ts, blanks) ==
  FlattenSeq([i \in DOMAIN ts |->
                Spelling(ts[i]) \o [b \in 1..blanks[i] |-> " "]])

Separated(ts, blanks) ==
  \A i \in 1..(Len(ts) - 1) : blanks[i] > 0 \/ Separable(ts[i], ts[i + 1])

Sentences ==
  {Append(w, Semicolon) :
     w \in UNION {[1..n -> {Vocabulary[k] : k \in MCTokens}] : n \in 1..MCSentence}}

\* Sentences as <<tokens, blanks>>.
Spellings ==
  {s \in UNION {{ts} \X [DOMAIN ts -> 0..1] : ts \in Sentences} : Separated(s[1], s[2])}

\* A name must not be last.
Bracketed ==
  {Append(w, " ") : w \in UNION {[1..n -> {"(", ")", "{", "}", "x"}] : n \in 0..MCBrackets}}

MCTexts ==
  UNION {[1..n -> AnyChars] : n \in 1..MCLength}
    \cup Bracketed
    \cup {Spelled(s[1], s[2]) : s \in Spellings}

-----------------------------------------------------------------------------
(* Properties of tokens.                                                    *)

\* Without blanks; NUL ends a string as a quote does.
Squeezed(chars) ==
  LET visible == SelectSeq(chars, LAMBDA c : c \notin S!Blanks)
  IN [i \in DOMAIN visible |-> IF visible[i] = S!NUL THEN S!Quote ELSE visible[i]]

\* The sentences and what they are without blanks.
Written ==
  {[tokens |-> ts, squeezed |-> Squeezed(Spelled(ts, [i \in DOMAIN ts |-> 0]))] :
     ts \in Sentences}

\* Tokens that are written one after the other, with a blank only where two
\* would run together, are read as just these tokens: longer symbols win over
\* shorter ones, numbers over names, and escapes stand for their characters
\* (the order of default_all_incl, parser.hpp:415).
TokensReturn ==
  scan = "rejected" \/ Parsed =>
    LET squeezed == Squeezed(text)
    IN \A w \in Written :
         /\ w.squeezed = squeezed
         /\ \E blanks \in [DOMAIN w.tokens -> 0..1] :
              Separated(w.tokens, blanks) /\ Spelled(w.tokens, blanks) = text
         => scan = "done" /\ tokens = w.tokens

-----------------------------------------------------------------------------
(* Properties of trees.                                                     *)

Types(l) == [i \in DOMAIN l |-> l[i].type]

Opening(t) ==
  CASE t.type = "BRACES" -> <<"OPEN_BRACE">>
    [] t.type = "BRACKETS" -> <<"OPEN_BRACKET">>
    [] OTHER -> <<>>

Closing(t) == IF Opening(t) = <<>> THEN <<>> ELSE <<T!Until(t.type)>>

IsTree(object) == "objects" \in DOMAIN object

\* The types of the tokens between the brackets of a tree, inner trees with
\* theirs.
RECURSIVE Inside(_)
Inside(objects) ==
  IF objects = <<>> THEN <<>>
  ELSE LET o == Head(objects)
           first == IF IsTree(o) THEN Opening(o) \o Inside(o.objects) \o Closing(o)
                    ELSE <<o.type>>
       IN first \o Inside(Tail(objects))

\* The tokens of the open trees; the result counts as one that is still open.
RECURSIVE InsideAll(_)
InsideAll(trees) ==
  IF trees = <<>> THEN <<>>
  ELSE Opening(Head(trees)) \o Inside(Head(trees).objects) \o InsideAll(Tail(trees))

Held == IF open = <<>> THEN Inside(result.objects) ELSE InsideAll(open)

Consumed == Types(SubSeq(tokens, 1, taken))

\* A tree written with its brackets gives the tokens it was made of, in their
\* order; behind them only the closing brackets that the end of the tokens
\* stands for (parser.cpp:57, parser.cpp:70).
TreeSpellsTokens ==
  /\ taken <= Len(Held) /\ Consumed = SubSeq(Held, 1, taken)
  /\ taken < Len(tokens) => Held = Consumed
  /\ \A i \in (taken + 1)..Len(Held) : Held[i] \in T!Closers

\* Lists of brackets are balanced when nothing is left after pairs that stand
\* side by side are taken out again and again.
RECURSIVE Balanced(_)
Balanced(l) ==
  LET pairs == {i \in 1..(Len(l) - 1) :
                  <<l[i], l[i + 1]>> \in {<<"OPEN_BRACKET", "CLOSE_BRACKET">>,
                                          <<"OPEN_BRACE", "CLOSE_BRACE">>}}
  IN IF pairs = {} THEN l = <<>>
     ELSE LET i == CHOOSE p \in pairs : TRUE
          IN Balanced(SubSeq(l, 1, i - 1) \o SubSeq(l, i + 2, Len(l)))

Brackets(l) == SelectSeq(l, LAMBDA t : t \in T!Openers \cup T!Closers)

RECURSIVE StrayClosers(_)
StrayClosers(objects) ==
  \E i \in DOMAIN objects :
    IF IsTree(objects[i]) THEN StrayClosers(objects[i].objects)
    ELSE objects[i].type \in T!Closers

\* Nobody reports unbalanced brackets, but they can be seen in the result: a
\* line is balanced exactly if the tree holds no closing bracket as a token and
\* no tree was closed by the end of the tokens.
BalanceVisible ==
  result # T!NoTree =>
    (Balanced(Brackets(Types(tokens)))
       <=> ~StrayClosers(result.objects) /\ Len(Held) = Len(tokens))

=============================================================================
