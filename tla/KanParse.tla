------------------------------ MODULE KanParse ------------------------------
(***************************************************************************)
(* The first half of run (easy.hpp): parse_tokens on the line, then        *)
(* parse_tree on its tokens.                                               *)
(***************************************************************************)
EXTENDS Integers, Sequences

CONSTANT Texts \* the lines that may be read

VARIABLES
  text,   \* the line
  pos,    \* how many of its characters are consumed
  tokens, \* the tokens found so far
  scan,   \* "scanning", "done" or "rejected"
  taken,  \* how many of the tokens are in the tree
  open,   \* the trees of the running calls of parse_tree
  result  \* the tree of the line, or T!NoTree

vars == <<text, pos, tokens, scan, taken, open, result>>
scanner == <<text, pos, tokens, scan>>
tree == <<taken, open, result>>

ASSUME TextsAssumption == \A t \in Texts : t \in Seq(STRING)

S == INSTANCE KanTokens

T == INSTANCE KanTree WITH pos <- taken

Init ==
  /\ text \in Texts
  /\ S!Init
  /\ taken = 0
  /\ open = <<>>
  /\ result = T!NoTree

Scan == S!Next /\ UNCHANGED tree

Parsed == open = <<>> /\ result # T!NoTree

\* parse_tree on an iterator over the tokens.
StartTree ==
  /\ scan = "done"
  /\ open = <<>> /\ result = T!NoTree
  /\ open' = <<T!Master>>
  /\ UNCHANGED <<text, pos, tokens, scan, taken, result>>

Build == T!Next /\ UNCHANGED <<text, pos, scan>>

Next == Scan \/ StartTree \/ Build

Spec == Init /\ [][Next]_vars

\* The parsers wait for nothing.
FairSpec == Spec /\ WF_vars(Next)

-----------------------------------------------------------------------------
(* Properties.                                                              *)

\* The types of the variables; trees are built of all the tokens of a line
\* that was understood.
TypeOK ==
  /\ S!TypeOK
  /\ taken \in 0..Len(tokens)
  /\ T!TreesTyped
  /\ open # <<>> \/ result # T!NoTree => scan = "done" /\ pos = Len(text)

\* A name begins with a digit only where a number could not end: parse_number
\* gives back all the digits and dots it took if the last of them is a dot, and
\* parse_id takes the digits in front of the first of these dots as a name
\* (parser.hpp:311, parser.hpp:391).
DigitNames ==
  \A i \in DOMAIN tokens :
    tokens[i].type = "ID" /\ tokens[i].text[1] \in S!Digits =>
      /\ \A k \in DOMAIN tokens[i].text : tokens[i].text[k] \in S!NameChars
      /\ IF i < Len(tokens) THEN tokens[i + 1].type = "DOT"
         ELSE pos < Len(text) /\ S!Peek(0) = "."

\* The line from a to b is blank.
Blank(a, b) == \A i \in (a + 1)..b : text[i] \in S!Blanks

\* What stands in the line between a and each place behind it when it is read
\* as the inside of a string, escapes and all.
Unescaped(a) ==
  LET chars[b \in a..Len(text)] ==
        IF b = a THEN <<>>
        ELSE IF text[b] = "\\" THEN chars[b - 1]
        ELSE Append(chars[b - 1],
                    IF b > a + 1 /\ text[b - 1] = "\\" THEN S!Escaped(text[b]) ELSE text[b])
  IN chars

\* The token t is what is written between a and b.
WrittenAs(t, a, b) ==
  IF t.type = "STRING"
  THEN /\ a + 2 <= b
       /\ text[a + 1] = S!Quote /\ text[b] \in {S!Quote, S!NUL}
       /\ t.text = Unescaped(a + 1)[b - 1]
  ELSE t.text = SubSeq(text, a + 1, b)

\* The places at which the first i tokens may end when they are written one
\* behind the other, blanks between them, for every i.
Reached ==
  LET reached[i \in 0..Len(tokens)] ==
        IF i = 0 THEN {0}
        ELSE LET before == reached[i - 1]
             IN {b \in 0..pos :
                   \E p \in before : \E a \in p..b :
                     Blank(p, a) /\ WrittenAs(tokens[i], a, b)}
  IN reached

\* Apart from blanks the tokens, written out again, are the consumed text, each
\* of its characters and of the characters of its strings: no parser loses one,
\* takes one twice or one that is not its own (it.next in every parser of
\* parser.hpp).
EveryCharacter == \E p \in Reached[Len(tokens)] : Blank(p, pos)

\* Every line is parsed or rejected: a parser of characters that succeeds
\* consumes something (parser.cpp:35), and no brackets keep parse_tree from
\* returning, whichever are missing (parser.cpp:57).
LinesParsed == (scan = "scanning") ~> (scan = "rejected" \/ Parsed)

=============================================================================
