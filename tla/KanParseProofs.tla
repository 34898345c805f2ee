--------------------------- MODULE KanParseProofs ---------------------------
(***************************************************************************)
(* Proofs about KanParse, for lines of any length and any characters.      *)
(***************************************************************************)
EXTENDS KanParse, KanInduction, SequenceTheorems

-----------------------------------------------------------------------------
(* What the parsers of characters return.                                   *)

\* The first n of the characters behind the position are in chars.
Leading(chars, n) == \A o \in 0..(n - 1) : S!Peek(o) \in chars

\* There is a longest run, and nothing else does it take.
LEMMA Runs ==
  ASSUME S!Rest \in Nat, NEW chars
  PROVE  /\ S!RunOf(chars) \in 0..S!Rest
         /\ \A o \in 0..(S!RunOf(chars) - 1) : S!Peek(o) \in chars
         /\ S!RunOf(chars) < S!Rest => S!Peek(S!RunOf(chars)) \notin chars
<1> DEFINE R == S!Rest
           N == {n \in 0..R : Leading(chars, n)}
<1>1. 0 \in N
  BY DEF Leading
<1>2. N \subseteq Nat /\ N # {} /\ R \in Nat /\ \A n \in N : n <= R
  BY <1>1
<1>3. PICK n \in N : \A m \in N : m <= n
  <2> HIDE DEF N, R
  <2> QED
    BY <1>2, GreatestElement
<1>4. n < R => S!Peek(n) \notin chars
  <2> SUFFICES ASSUME n < R, S!Peek(n) \in chars PROVE FALSE
    OBVIOUS
  <2>1. n + 1 \in 0..R /\ n \in Nat
    BY <1>2
  <2>2. Leading(chars, n + 1)
    <3> SUFFICES ASSUME NEW o \in 0..n PROVE S!Peek(o) \in chars
      BY <2>1 DEF Leading
    <3>1. CASE o = n
      BY <3>1
    <3>2. CASE o # n
      <4>1. o \in 0..(n - 1)
        BY <2>1, <3>2
      <4> QED
        BY <1>3, <4>1 DEF Leading
    <3> QED
      BY <3>1, <3>2
  <2> QED
    BY <1>3, <2>1, <2>2
<1>5. /\ n \in 0..R /\ \A o \in 0..(n - 1) : S!Peek(o) \in chars
      /\ n < R => S!Peek(n) \notin chars
  BY <1>3, <1>4 DEF Leading
<1> DEFINE P(m) == /\ \A o \in 0..(m - 1) : S!Peek(o) \in chars
                   /\ m < R => S!Peek(m) \notin chars
<1>6. \E m \in 0..R : P(m)
  BY <1>5
<1>7. S!RunOf(chars) = CHOOSE m \in 0..R : P(m)
  BY DEF S!RunOf
<1>8. S!RunOf(chars) \in 0..R /\ P(S!RunOf(chars))
  <2> HIDE DEF P, R
  <2> QED
    BY <1>6, <1>7
<1> QED
  BY <1>8

LEMMA Characters ==
  ASSUME S!TypeOK
  PROVE  \A o \in 0..(S!Rest - 1) : S!Peek(o) \in S!TokenChars
<1> SUFFICES ASSUME NEW o \in 0..(S!Rest - 1) PROVE S!Peek(o) \in S!TokenChars
  OBVIOUS
<1>1. DOMAIN text = 1..Len(text)
  BY LenProperties DEF S!TypeOK
<1>2. pos + o + 1 \in 1..Len(text)
  BY LenProperties DEF S!TypeOK, S!Rest
<1> QED
  BY <1>1, <1>2 DEF S!Peek, S!TokenChars

LEMMA Escapes == \A c \in {"n", "t", S!Quote} : S!Escaped(c) \in S!TokenChars
<1>1. \A c : c = "n" => S!Escaped(c) = "\n"
  BY DEF S!Escaped, S!Quote
<1>2. \A c : c = "t" => S!Escaped(c) = "\t"
  BY DEF S!Escaped, S!Quote
<1>3. \A c : c = S!Quote => S!Escaped(c) = S!Quote
  BY DEF S!Escaped, S!Quote
<1> QED
  BY <1>1, <1>2, <1>3 DEF S!TokenChars

\* What parse_string has found; behind the quote there is the text no more.
Strings ==
  {w \in [how : {"fails", "ends", "throws"}, chars : Seq(S!TokenChars), length : Int] :
     w.how = "ends" => w.length \in 1..S!Rest}

LEMMA InStrings ==
  \A h \in {"fails", "ends", "throws"}, s \in Seq(S!TokenChars), l \in Int :
    (h = "ends" => l \in 1..S!Rest) => [how |-> h, chars |-> s, length |-> l] \in Strings
BY DEF Strings

\* A character goes before what is read behind it.
LEMMA CharacterBefore ==
  \A c \in S!TokenChars, w \in Strings : [w EXCEPT !.chars = <<c>> \o @] \in Strings
<1> SUFFICES ASSUME NEW c \in S!TokenChars, NEW w \in Strings
    PROVE [w EXCEPT !.chars = <<c>> \o @] \in Strings
  OBVIOUS
<1> DEFINE z == <<c>> \o w.chars
           r == [w EXCEPT !.chars = z]
<1>1. /\ w \in [how : {"fails", "ends", "throws"}, chars : Seq(S!TokenChars), length : Int]
      /\ w.how = "ends" => w.length \in 1..S!Rest
  BY DEF Strings
<1>2. z \in Seq(S!TokenChars)
  BY <1>1
<1> HIDE DEF z
<1>3. /\ r \in [how : {"fails", "ends", "throws"}, chars : Seq(S!TokenChars), length : Int]
      /\ r.how = "ends" => r.length \in 1..S!Rest
  BY <1>1, <1>2
<1>4. r \in Strings
  BY <1>3 DEF Strings
<1>5. [w EXCEPT !.chars = <<c>> \o @] = [w EXCEPT !.chars = <<c>> \o w.chars]
  BY Zenon
<1> QED
  BY <1>4, <1>5, Zenon DEF z

\* What parse_string finds from the character o on, with what it finds from
\* the next one and from the one behind that.
Before(c, w) == [w EXCEPT !.chars = <<c>> \o @]

StringBody(o, a, b) ==
  LET R == S!Rest
      Ends(how, n) == [how |-> how, chars |-> <<>>, length |-> n]
  IN IF o >= R THEN Ends("fails", o + 1)
     ELSE IF S!Peek(o) \in {S!Quote, S!NUL} THEN Ends("ends", o + 1)
     ELSE IF S!Peek(o) = "\\" /\ o + 1 >= R THEN Ends("throws", 0)
     ELSE IF S!Peek(o) = "\\" /\ S!Peek(o + 1) \notin {"n", "t", S!Quote} THEN Ends("fails", 0)
     ELSE IF S!Peek(o) = "\\" THEN Before(S!Escaped(S!Peek(o + 1)), b)
     ELSE Before(S!Peek(o), a)

LEMMA BodyInStrings ==
  ASSUME S!TypeOK, S!Rest \in Nat \ {0}
  PROVE  /\ \A o \in 1..(S!Rest + 1), a \in Strings, b \in Strings : StringBody(o, a, b) \in Strings
         /\ \A o \in 1..(S!Rest + 1) : \A a, b, c, d :
              o >= S!Rest => StringBody(o, a, b) = StringBody(o, c, d)
<1> DEFINE R == S!Rest
           Ends(how, o) == [how |-> how, chars |-> <<>>, length |-> o]
<1>1. ASSUME NEW o \in 1..(R + 1), NEW a \in Strings, NEW b \in Strings
      PROVE  StringBody(o, a, b) \in Strings
  <2> DEFINE none == <<>>
  <2>0. none \in Seq(S!TokenChars)
    OBVIOUS
  <2> HIDE DEF none
  <2>1. \A how \in {"fails", "throws"} : \A x \in Int : [how |-> how, chars |-> none, length |-> x] \in Strings
    BY <2>0, InStrings
  <2>2. o < R => [how |-> "ends", chars |-> none, length |-> o + 1] \in Strings
    <3>1. o < R => o + 1 \in 1..R /\ o + 1 \in Int
      OBVIOUS
    <3> QED
      BY <2>0, <3>1, InStrings
  <2>3. \A c \in S!TokenChars, w \in Strings : Before(c, w) \in Strings
    BY CharacterBefore DEF Before
  <2>4. \A x \in 0..(R - 1) : S!Peek(x) \in S!TokenChars
    BY Characters
  <2>5. \A c \in {"n", "t", S!Quote} : S!Escaped(c) \in S!TokenChars
    BY Escapes
  <2>6. o + 1 \in Int /\ 0 \in Int /\ (o < R <=> ~(o >= R)) /\ (o < R => o \in 0..(R - 1))
    OBVIOUS
  <2> USE DEF none
  <2>7. CASE o >= R
    BY <2>1, <2>6, <2>7 DEF StringBody
  <2>8. CASE o < R /\ S!Peek(o) \in {S!Quote, S!NUL}
    BY <2>2, <2>6, <2>8, Zenon DEF StringBody
  <2>9. CASE o < R /\ S!Peek(o) \notin {S!Quote, S!NUL} /\ S!Peek(o) = "\\"
    BY <2>1, <2>3, <2>5, <2>6, <2>9, Zenon DEF StringBody
  <2>10. CASE o < R /\ S!Peek(o) \notin {S!Quote, S!NUL} /\ S!Peek(o) # "\\"
    BY <2>3, <2>4, <2>6, <2>10, Zenon DEF StringBody
  <2> QED
    BY <2>6, <2>7, <2>8, <2>9, <2>10, Zenon
<1>2. ASSUME NEW o \in 1..(R + 1), o >= R, NEW a, NEW b, NEW c, NEW d
      PROVE  StringBody(o, a, b) = StringBody(o, c, d)
  BY <1>2, Zenon DEF StringBody
<1> QED
  BY <1>1, <1>2, Zenon

\* parse_string on every rest of the line, as it is defined.
LEMMA StringUnfolds ==
  ASSUME S!TypeOK, S!Rest \in Nat \ {0}
  PROVE  \A o \in 1..(S!Rest + 1) :
           S!StringFrom[o] = StringBody(o, S!StringFrom[o + 1], S!StringFrom[o + 2])
<1> DEFINE R == S!Rest
           Ends(how, o) == [how |-> how, chars |-> <<>>, length |-> o]
           Elem(f, o) ==
             IF o >= R THEN Ends("fails", o + 1)
             ELSE IF S!Peek(o) \in {S!Quote, S!NUL} THEN Ends("ends", o + 1)
             ELSE IF S!Peek(o) = "\\" /\ o + 1 >= R THEN Ends("throws", 0)
             ELSE IF S!Peek(o) = "\\" /\ S!Peek(o + 1) \notin {"n", "t", S!Quote}
                  THEN Ends("fails", 0)
             ELSE LET wide == IF S!Peek(o) = "\\" THEN 2 ELSE 1
                      c == IF wide = 2 THEN S!Escaped(S!Peek(o + 1)) ELSE S!Peek(o)
                      more == f[o + wide]
                  IN [more EXCEPT !.chars = <<c>> \o @]
           F(f) == [o \in 1..(R + 1) |-> Elem(f, o)]
           from == CHOOSE f : f = F(f)
<1>1. S!StringFrom = from
  BY Zenon DEF S!StringFrom
<1>2. ASSUME NEW f, NEW o \in 1..(R + 1)
      PROVE  Elem(f, o) = StringBody(o, f[o + 1], f[o + 2])
  <2>1. CASE S!Peek(o) = "\\"
    BY <2>1, Zenon DEF StringBody, Before
  <2>2. CASE S!Peek(o) # "\\"
    <3>1. 1 # 2
      OBVIOUS
    <3> QED
      BY <2>2, <3>1, Zenon DEF StringBody, Before
  <2> QED
    BY <2>1, <2>2, Zenon
<1>3. /\ \A o \in 1..(R + 1), a \in Strings, b \in Strings : StringBody(o, a, b) \in Strings
      /\ \A o \in 1..(R + 1) : \A a, b, c, d : o >= R => StringBody(o, a, b) = StringBody(o, c, d)
  BY BodyInStrings
<1> HIDE DEF Elem
<1> DEFINE V == Strings \X Strings
           \* What is read from the character x places before the end, and
           \* from the one behind it.
           first == <<StringBody(R + 1, Ends("fails", 0), Ends("fails", 0)), Ends("fails", 0)>>
           step == [p \in (1..R) \X V |-> <<StringBody(R + 1 - p[1], p[2][1], p[2][2]), p[2][1]>>]
<1>4. Ends("fails", 0) \in Strings
  <2> DEFINE none == <<>>
  <2>1. none \in Seq(S!TokenChars)
    OBVIOUS
  <2> HIDE DEF none
  <2>2. [how |-> "fails", chars |-> none, length |-> 0] \in Strings
    BY <2>1, InStrings
  <2> QED
    BY <2>2 DEF none
<1>5. R \in Nat /\ R > 0 /\ R + 1 \in 1..(R + 1)
  OBVIOUS
<1>6. first \in V
  <2> HIDE DEF Ends
  <2>1. StringBody(R + 1, Ends("fails", 0), Ends("fails", 0)) \in Strings
    BY <1>3, <1>4, <1>5
  <2> QED
    BY <2>1, <1>4
<1> HIDE DEF Ends
<1>7. step \in [(1..R) \X V -> V]
  <2> SUFFICES ASSUME NEW i \in 1..R, NEW a \in Strings, NEW b \in Strings
      PROVE <<StringBody(R + 1 - i, a, b), a>> \in V
    OBVIOUS
  <2>1. R + 1 - i \in 1..(R + 1)
    OBVIOUS
  <2> QED
    BY <1>3, <2>1
<1>8. PICK p \in [0..R -> V] : Iterates(p, R, first, step)
  <2> HIDE DEF V, first, step, R
  <2> QED
    BY <1>5, <1>6, <1>7, Recursion
<1> DEFINE g == [o \in 1..(R + 1) |-> p[R + 1 - o][1]]
<1>9. \A i \in 0..R : p[i] = IF i = 0 THEN first ELSE step[<<i, p[i - 1]>>]
  BY <1>8 DEF Iterates
<1>10. \A i \in 1..R : p[i][1] = StringBody(R + 1 - i, p[i - 1][1], p[i - 1][2]) /\ p[i][2] = p[i - 1][1]
  <2> SUFFICES ASSUME NEW i \in 1..R
      PROVE p[i][1] = StringBody(R + 1 - i, p[i - 1][1], p[i - 1][2]) /\ p[i][2] = p[i - 1][1]
    OBVIOUS
  <2>1. i - 1 \in 0..R /\ i \in 0..R /\ i # 0
    BY <1>5
  <2> DEFINE q == p[i - 1]
  <2>2. q \in V
    BY <1>8, <2>1
  <2>3. p[i] = step[<<i, q>>]
    BY <1>9, <2>1
  <2> HIDE DEF q
  <2>4. step[<<i, q>>] = <<StringBody(R + 1 - i, q[1], q[2]), q[1]>>
    BY <2>2
  <2>5. p[i] = <<StringBody(R + 1 - i, q[1], q[2]), q[1]>>
    BY <2>3, <2>4
  <2> HIDE DEF step
  <2> QED
    BY <2>5 DEF q
<1> HIDE DEF first, step
<1>11. g \in [1..(R + 1) -> Strings]
  <2>1. \A o \in 1..(R + 1) : R + 1 - o \in 0..R
    BY <1>5
  <2> QED
    BY <1>8, <2>1
<1>12. g = F(g)
  <2> SUFFICES ASSUME NEW o \in 1..(R + 1) PROVE g[o] = Elem(g, o)
    OBVIOUS
  <2> SUFFICES g[o] = StringBody(o, g[o + 1], g[o + 2])
    BY <1>2
  <2>1. CASE o = R + 1
    <3>0. R + 1 - o = 0 /\ 0 \in 0..R
      BY <1>5, <2>1
    <3>1. g[o] = p[0][1] /\ p[0] = first
      BY <1>9, <3>0
    <3>2. g[o] = StringBody(R + 1, Ends("fails", 0), Ends("fails", 0))
      BY <3>1 DEF first
    <3>3. o >= R
      BY <2>1, <1>5
    <3> HIDE DEF g, R
    <3> QED
      BY <1>3, <3>2, <3>3, <2>1
  <2>2. CASE o = R
    <3>1. g[o] = p[1][1] /\ 1 \in 1..R /\ R + 1 - 1 = o
      BY <1>5, <2>2
    <3>2. g[o] = StringBody(o, p[1 - 1][1], p[1 - 1][2])
      BY <1>10, <3>1
    <3>3. o >= R
      BY <2>2, <1>5
    <3> HIDE DEF g, R
    <3> QED
      BY <1>3, <3>2, <3>3, <2>1
  <2>3. CASE o < R
    <3> DEFINE i == R + 1 - o
    <3>1. i \in 1..R /\ i - 1 \in 1..R /\ R + 1 - i = o /\ o + 1 \in 1..(R + 1) /\ o + 2 \in 1..(R + 1)
           /\ R + 1 - (o + 1) = i - 1 /\ R + 1 - (o + 2) = (i - 1) - 1
      BY <1>5, <2>3
    <3>2. g[o] = p[i][1] /\ g[o + 1] = p[i - 1][1] /\ g[o + 2] = p[(i - 1) - 1][1]
      BY <3>1
    <3> HIDE DEF g, i
    <3>3. p[i - 1][2] = p[(i - 1) - 1][1]
      BY <1>10, <3>1
    <3> QED
      BY <1>10, <3>1, <3>2, <3>3
  <2> QED
    BY <2>1, <2>2, <2>3, <1>5
<1>13. from = F(from)
  BY <1>12
<1>15. \A o \in 1..(R + 1) : from[o] = StringBody(o, from[o + 1], from[o + 2])
  <2> HIDE DEF from
  <2> QED
    BY <1>2, <1>13
<1> QED
  BY <1>1, <1>15

\* When it ends, it ends inside the line, and has found characters.
LEMMA StringEnds ==
  ASSUME S!TypeOK, S!Rest \in Nat \ {0}
  PROVE  \A o \in 1..(S!Rest + 1) : S!StringFrom[o] \in Strings
<1> DEFINE R == S!Rest
           from == S!StringFrom
           Ends(how, o) == [how |-> how, chars |-> <<>>, length |-> o]
<1>1. R \in Nat /\ R > 0
  OBVIOUS
<1>2. \A o \in 1..(R + 1) : from[o] = StringBody(o, from[o + 1], from[o + 2])
  BY StringUnfolds
<1>3. /\ \A o \in 1..(R + 1), a \in Strings, b \in Strings : StringBody(o, a, b) \in Strings
      /\ \A o \in 1..(R + 1) : \A a, b, c, d : o >= R => StringBody(o, a, b) = StringBody(o, c, d)
  BY BodyInStrings
<1>4. Ends("fails", 0) \in Strings
  <2> DEFINE none == <<>>
  <2>1. none \in Seq(S!TokenChars)
    OBVIOUS
  <2> HIDE DEF none
  <2>2. [how |-> "fails", chars |-> none, length |-> 0] \in Strings
    BY <2>1, InStrings
  <2> QED
    BY <2>2 DEF none
<1> HIDE DEF from, Ends
<1> DEFINE N == {x \in 0..R : \A y \in 0..x : from[R + 1 - y] \in Strings}
<1>16. ASSUME NEW o \in 1..(R + 1), o >= R
       PROVE  from[o] \in Strings
  <2>1. from[o] = StringBody(o, Ends("fails", 0), Ends("fails", 0))
    BY <1>3, <1>2, <1>16
  <2> QED
    BY <1>3, <1>4, <2>1
<1>17. 0 \in N
  <2>1. \A y \in 0..0 : R + 1 - y = R + 1
    BY <1>1
  <2>2. from[R + 1] \in Strings
    BY <1>1, <1>16
  <2> QED
    BY <1>1, <2>1, <2>2
<1>18. ASSUME NEW x \in 1..R, x - 1 \in N
       PROVE  x \in N
  <2>1. from[R + 1 - x] \in Strings
    <3> DEFINE o == R + 1 - x
    <3>1. o \in 1..R /\ o \in 1..(R + 1)
      BY <1>1
    <3>2. CASE o < R
      <4>1. /\ o + 1 = R + 1 - (x - 1) /\ o + 2 = R + 1 - (x - 2)
            /\ x - 1 \in 0..(x - 1) /\ x - 2 \in 0..(x - 1)
        BY <1>1, <3>2
      <4> HIDE DEF o
      <4>2. from[o + 1] \in Strings /\ from[o + 2] \in Strings
        BY <1>18, <4>1
      <4> QED
        BY <1>3, <1>2, <3>1, <4>2 DEF o
    <3>3. CASE o >= R
      BY <1>16, <3>1, <3>3
    <3> QED
      BY <1>1, <3>1, <3>2, <3>3
  <2>2. \A y \in 0..x : y = x \/ y \in 0..(x - 1)
    OBVIOUS
  <2>3. \A y \in 0..(x - 1) : from[R + 1 - y] \in Strings
    BY <1>18
  <2> QED
    BY <2>1, <2>2, <2>3
<1>19. R \in N
  <2>1. N \subseteq 0..R
    OBVIOUS
  <2>2. N = 0..R
    <3> HIDE DEF N, R
    <3> QED
      BY <1>1, <1>17, <1>18, <2>1, UpwardInduction
  <2>3. R \in 0..R
    BY <1>1
  <2> QED
    BY <2>2, <2>3, Zenon
<1>20. \A o \in 1..(R + 1) : from[o] \in Strings
  <2> SUFFICES ASSUME NEW o \in 1..(R + 1) PROVE from[o] \in Strings
    OBVIOUS
  <2>1. R + 1 - o \in 0..R /\ R + 1 - (R + 1 - o) = o /\ R \in 0..R
    BY <1>1
  <2> HIDE DEF R
  <2>2. R + 1 - o \in 0..R /\ from[R + 1 - (R + 1 - o)] \in Strings
    BY <1>19, <2>1
  <2> QED
    BY <2>1, <2>2
<1> QED
  BY <1>20 DEF from

LEMMA Remaining ==
  ASSUME S!TypeOK
  PROVE  S!Rest \in Nat /\ (S!Scanning => S!Rest \in Nat \ {0} /\ 0 \in 0..(S!Rest - 1))
BY LenProperties DEF S!TypeOK, S!Rest, S!Scanning

-----------------------------------------------------------------------------
(* The line read again.                                                     *)

\* The characters a text and its escapes can stand for.
ReadChars == {text[i] : i \in DOMAIN text} \cup {S!Escaped(text[i]) : i \in DOMAIN text}

\* One character more of the inside of a string that begins behind a.
OneMore(a, b, chars) ==
  IF text[b] = "\\" THEN chars
  ELSE Append(chars,
              IF b > a + 1 /\ text[b - 1] = "\\" THEN S!Escaped(text[b]) ELSE text[b])

\* The inside of a string can be read character by character.
LEMMA UnescapedReads ==
  ASSUME S!TypeOK, NEW a \in 0..Len(text)
  PROVE  /\ Unescaped(a)[a] = <<>>
         /\ \A b \in (a + 1)..Len(text) : Unescaped(a)[b] = OneMore(a, b, Unescaped(a)[b - 1])
         /\ \A b \in a..Len(text) : Unescaped(a)[b] \in Seq(ReadChars)
<1> DEFINE L == Len(text)
           n == L - a
           V == Seq(ReadChars)
           none == <<>>
           step == [p \in (1..n) \X V |-> OneMore(a, a + p[1], p[2])]
           Elem(f, b) ==
             IF b = a THEN <<>>
             ELSE IF text[b] = "\\" THEN f[b - 1]
             ELSE Append(f[b - 1],
                         IF b > a + 1 /\ text[b - 1] = "\\" THEN S!Escaped(text[b]) ELSE text[b])
           F(f) == [b \in a..L |-> Elem(f, b)]
           chars == CHOOSE f : f = F(f)
<1>1. L \in Nat /\ n \in Nat /\ a \in Nat /\ DOMAIN text = 1..L
  BY LenProperties DEF S!TypeOK
<1>2. Unescaped(a) = chars
  BY Zenon DEF Unescaped
<1>3. \A b \in (a + 1)..L, w \in V : OneMore(a, b, w) \in V
  <2> SUFFICES ASSUME NEW b \in (a + 1)..L, NEW w \in V PROVE OneMore(a, b, w) \in V
    OBVIOUS
  <2>1. b \in DOMAIN text
    BY <1>1
  <2>2. text[b] \in ReadChars /\ S!Escaped(text[b]) \in ReadChars
    BY <2>1 DEF ReadChars
  <2>3. \A c \in ReadChars : Append(w, c) \in V
    OBVIOUS
  <2> QED
    BY <2>2, <2>3 DEF OneMore
<1>4. none \in V
  OBVIOUS
<1>5. step \in [(1..n) \X V -> V]
  <2>1. \A i \in 1..n : a + i \in (a + 1)..L
    BY <1>1
  <2> HIDE DEF V, n, L
  <2> QED
    BY <1>3, <2>1
<1>6. PICK p \in [0..n -> V] : Iterates(p, n, none, step)
  <2> HIDE DEF V, none, step, n
  <2> QED
    BY <1>1, <1>4, <1>5, Recursion
<1> DEFINE g == [b \in a..L |-> p[b - a]]
<1>7. p[0] = <<>> /\ \A i \in 1..n : p[i] = OneMore(a, a + i, p[i - 1])
  <2>1. \A i \in 0..n : p[i] = IF i = 0 THEN none ELSE step[<<i, p[i - 1]>>]
    BY <1>6 DEF Iterates
  <2>2. p[0] = <<>>
    BY <1>1, <2>1
  <2>3. ASSUME NEW i \in 1..n
        PROVE  p[i] = OneMore(a, a + i, p[i - 1])
    <3>1. i \in 0..n /\ i # 0 /\ i - 1 \in 0..n
      BY <1>1
    <3>2. p[i - 1] \in V /\ p[i] = step[<<i, p[i - 1]>>]
      BY <1>6, <2>1, <3>1
    <3> QED
      BY <3>2
  <2> QED
    BY <2>2, <2>3
<1>8. g = F(g)
  <2> SUFFICES ASSUME NEW b \in a..L PROVE g[b] = Elem(g, b)
    OBVIOUS
  <2>1. CASE b = a
    BY <1>1, <1>7, <2>1
  <2>2. CASE b # a
    <3>1. b - a \in 1..n /\ a + (b - a) = b /\ b - 1 \in a..L /\ (b - a) - 1 = (b - 1) - a
      BY <1>1, <2>2
    <3>2. g[b] = OneMore(a, b, p[(b - 1) - a])
      BY <1>7, <3>1
    <3>3. g[b - 1] = p[(b - 1) - a]
      BY <3>1
    <3> HIDE DEF g
    <3> QED
      BY <2>2, <3>2, <3>3 DEF OneMore
  <2> QED
    BY <2>1, <2>2
<1>9. chars = F(chars)
  BY <1>8
<1> HIDE DEF chars, g
<1>10. chars[a] = <<>>
  BY <1>1, <1>9
<1>11. \A b \in (a + 1)..L : chars[b] = OneMore(a, b, chars[b - 1])
  <2> SUFFICES ASSUME NEW b \in (a + 1)..L PROVE chars[b] = OneMore(a, b, chars[b - 1])
    OBVIOUS
  <2>1. b \in a..L /\ b # a
    BY <1>1
  <2>2. chars[b] = Elem(chars, b)
    BY <1>9, <2>1
  <2> QED
    BY <2>1, <2>2 DEF OneMore
<1> DEFINE N == {i \in 0..n : chars[a + i] \in V}
<1>12. 0 \in N
  BY <1>1, <1>4, <1>10
<1>13. ASSUME NEW i \in 1..n, i - 1 \in N
       PROVE  i \in N
  <2>1. a + i \in (a + 1)..L /\ (a + i) - 1 = a + (i - 1) /\ i \in 0..n
    BY <1>1
  <2> HIDE DEF V
  <2> QED
    BY <1>3, <1>11, <1>13, <2>1
<1>14. N = 0..n
  <2>1. N \subseteq 0..n
    OBVIOUS
  <2> HIDE DEF N, n
  <2> QED
    BY <1>1, <1>12, <1>13, <2>1, UpwardInduction
<1>15. \A b \in a..L : chars[b] \in V
  <2> SUFFICES ASSUME NEW b \in a..L PROVE chars[b] \in V
    OBVIOUS
  <2>1. b - a \in 0..n /\ a + (b - a) = b
    BY <1>1
  <2> HIDE DEF n, V
  <2> QED
    BY <1>14, <2>1
<1> QED
  BY <1>2, <1>10, <1>11, <1>15

\* A backslash is dropped, the character behind it is what it stands for.
LEMMA UnescapedCases ==
  ASSUME S!TypeOK, NEW a \in 0..Len(text), NEW b \in a..(Len(text) - 1)
  PROVE  /\ text[b + 1] = "\\" => Unescaped(a)[b + 1] = Unescaped(a)[b]
         /\ text[b + 1] # "\\" /\ b > a /\ text[b] = "\\" =>
              Unescaped(a)[b + 1] = Append(Unescaped(a)[b], S!Escaped(text[b + 1]))
         /\ text[b + 1] # "\\" /\ text[b] # "\\" =>
              Unescaped(a)[b + 1] = Append(Unescaped(a)[b], text[b + 1])
<1> DEFINE c == b + 1
           u == Unescaped(a)
<1>1. c \in (a + 1)..Len(text) /\ c - 1 = b /\ (c > a + 1 <=> b > a)
  BY LenProperties DEF S!TypeOK
<1> HIDE DEF u, c
<1>2. u[c] = OneMore(a, c, u[c - 1])
  BY <1>1, UnescapedReads DEF u
<1>3. u[c] = IF text[c] = "\\" THEN u[b]
             ELSE Append(u[b], IF c > a + 1 /\ text[b] = "\\" THEN S!Escaped(text[c]) ELSE text[c])
  BY <1>1, <1>2, Zenon DEF OneMore
<1>4. text[c] = "\\" => u[c] = u[b]
  BY <1>3, Zenon
<1>5. text[c] # "\\" /\ b > a /\ text[b] = "\\" => u[c] = Append(u[b], S!Escaped(text[c]))
  BY <1>1, <1>3, Zenon
<1>6. text[c] # "\\" /\ text[b] # "\\" => u[c] = Append(u[b], text[c])
  BY <1>3, Zenon
<1> QED
  BY <1>4, <1>5, <1>6 DEF c, u

\* The cases of parse_string: the end of the line, of the string, an escape,
\* any other character.
LEMMA BodyCases ==
  ASSUME NEW o \in Int, S!Rest \in Int, NEW a, NEW b
  PROVE  /\ o >= S!Rest => StringBody(o, a, b).how = "fails"
         /\ o < S!Rest /\ S!Peek(o) \in {S!Quote, S!NUL} =>
              StringBody(o, a, b).length = o + 1 /\ StringBody(o, a, b).chars = <<>>
         /\ o < S!Rest /\ S!Peek(o) \notin {S!Quote, S!NUL} /\ S!Peek(o) = "\\" =>
              \/ StringBody(o, a, b).how # "ends"
              \/ /\ o + 1 < S!Rest /\ S!Peek(o + 1) \in {"n", "t", S!Quote}
                 /\ StringBody(o, a, b) = Before(S!Escaped(S!Peek(o + 1)), b)
         /\ o < S!Rest /\ S!Peek(o) \notin {S!Quote, S!NUL} /\ S!Peek(o) # "\\" =>
              StringBody(o, a, b) = Before(S!Peek(o), a)
<1> DEFINE Ends(how, n) == [how |-> how, chars |-> <<>>, length |-> n]
           B == StringBody(o, a, b)
<1>1. (o < S!Rest <=> ~(o >= S!Rest)) /\ (o + 1 < S!Rest <=> ~(o + 1 >= S!Rest))
  OBVIOUS
<1>2. \A how, n : Ends(how, n).how = how /\ Ends(how, n).chars = <<>> /\ Ends(how, n).length = n
  OBVIOUS
<1>3. "fails" # "ends" /\ "throws" # "ends"
  OBVIOUS
<1>4. B = IF o >= S!Rest THEN Ends("fails", o + 1)
          ELSE IF S!Peek(o) \in {S!Quote, S!NUL} THEN Ends("ends", o + 1)
          ELSE IF S!Peek(o) = "\\" /\ o + 1 >= S!Rest THEN Ends("throws", 0)
          ELSE IF S!Peek(o) = "\\" /\ S!Peek(o + 1) \notin {"n", "t", S!Quote} THEN Ends("fails", 0)
          ELSE IF S!Peek(o) = "\\" THEN Before(S!Escaped(S!Peek(o + 1)), b)
          ELSE Before(S!Peek(o), a)
  BY DEF StringBody
<1> HIDE DEF B, Ends
<1>5. o >= S!Rest => B.how = "fails"
  BY <1>2, <1>4, Zenon
<1>6. o < S!Rest /\ S!Peek(o) \in {S!Quote, S!NUL} => B.length = o + 1 /\ B.chars = <<>>
  <2> SUFFICES ASSUME o < S!Rest, S!Peek(o) \in {S!Quote, S!NUL}
      PROVE B.length = o + 1 /\ B.chars = <<>>
    OBVIOUS
  <2>1. B = Ends("ends", o + 1)
    BY <1>1, <1>4, Zenon
  <2> QED
    BY <1>2, <2>1, Zenon
<1>7. ASSUME o < S!Rest, S!Peek(o) \notin {S!Quote, S!NUL}, S!Peek(o) = "\\", B.how = "ends"
      PROVE  /\ o + 1 < S!Rest /\ S!Peek(o + 1) \in {"n", "t", S!Quote}
             /\ B = Before(S!Escaped(S!Peek(o + 1)), b)
  <2>1. o + 1 < S!Rest
    <3> SUFFICES ASSUME o + 1 >= S!Rest PROVE FALSE
      BY <1>1, Zenon
    <3>1. B = Ends("throws", 0)
      BY <1>1, <1>4, <1>7, Zenon
    <3> QED
      BY <1>2, <1>3, <1>7, <3>1, Zenon
  <2>2. S!Peek(o + 1) \in {"n", "t", S!Quote}
    <3> SUFFICES ASSUME S!Peek(o + 1) \notin {"n", "t", S!Quote} PROVE FALSE
      OBVIOUS
    <3>1. B = Ends("fails", 0)
      BY <1>1, <1>4, <1>7, <2>1, Zenon
    <3> QED
      BY <1>2, <1>3, <1>7, <3>1, Zenon
  <2> QED
    BY <1>1, <1>4, <1>7, <2>1, <2>2, Zenon
<1>8. o < S!Rest /\ S!Peek(o) \notin {S!Quote, S!NUL} /\ S!Peek(o) # "\\" => B = Before(S!Peek(o), a)
  BY <1>1, <1>4, Zenon
<1> QED
  BY <1>5, <1>6, <1>7, <1>8 DEF B

\* What parse_string finds from the character o on.
StringReads(o) ==
  LET w == S!StringFrom[o]
      inside == Unescaped(pos + 1)
  IN w.how = "ends" /\ S!Peek(o - 1) # "\\" =>
       /\ w.length \in (o + 1)..S!Rest
       /\ S!Peek(w.length - 1) \in {S!Quote, S!NUL}
       /\ inside[pos + w.length - 1] = inside[pos + o] \o w.chars

LEMMA StringRead ==
  ASSUME S!TypeOK, S!Rest \in Nat \ {0}
  PROVE  \A o \in 1..S!Rest : StringReads(o)
<1> DEFINE R == S!Rest
           from == S!StringFrom
           inside == Unescaped(pos + 1)
<1>1. /\ R \in Nat /\ R > 0 /\ pos \in Nat /\ Len(text) \in Nat /\ R = Len(text) - pos
      /\ pos + 1 \in 0..Len(text)
  BY LenProperties DEF S!TypeOK, S!Rest
<1>2. \A o \in 1..(R + 1) : from[o] = StringBody(o, from[o + 1], from[o + 2]) /\ from[o] \in Strings
  BY StringUnfolds, StringEnds
<1>3. /\ inside[pos + 1] = <<>>
      /\ \A b \in (pos + 2)..Len(text) : inside[b] = OneMore(pos + 1, b, inside[b - 1])
      /\ \A b \in (pos + 1)..Len(text) : inside[b] \in Seq(ReadChars)
  <2>1. (pos + 1) + 1 = pos + 2
    BY <1>1
  <2> QED
    BY <1>1, <2>1, UnescapedReads
<1> HIDE DEF from, inside, R
<1>4. ASSUME NEW o \in 1..(R + 1), o >= R
      PROVE  from[o].how # "ends"
  <2>1. o \in Int /\ S!Rest \in Int /\ o >= S!Rest
    BY <1>1, <1>4 DEF R
  <2>2. StringBody(o, from[o + 1], from[o + 2]).how = "fails"
    BY <2>1, BodyCases
  <2> QED
    BY <1>2, <2>2
<1>5. ASSUME NEW o \in 1..R, o < R, from[o].how = "ends", S!Peek(o) \in {S!Quote, S!NUL}
      PROVE  StringReads(o)
  <2>1. from[o].length = o + 1 /\ from[o].chars = <<>>
    <3>1. o \in Int /\ S!Rest \in Int /\ o < S!Rest /\ o \in 1..(R + 1)
      BY <1>1, <1>5 DEF R
    <3>2. /\ StringBody(o, from[o + 1], from[o + 2]).length = o + 1
          /\ StringBody(o, from[o + 1], from[o + 2]).chars = <<>>
      BY <1>5, <3>1, BodyCases
    <3> QED
      BY <1>2, <3>1, <3>2
  <2>2. o + 1 \in (o + 1)..R /\ o + 1 - 1 = o /\ pos + (o + 1) - 1 = pos + o /\ pos + o \in (pos + 1)..Len(text)
    BY <1>1, <1>5
  <2>3. inside[pos + o] \o <<>> = inside[pos + o]
    BY <1>3, <2>2
  <2> QED
    BY <1>5, <2>1, <2>2, <2>3 DEF StringReads, from, inside, R
<1>6. ASSUME NEW o \in 1..R, o < R, from[o].how = "ends", S!Peek(o - 1) # "\\",
             S!Peek(o) = "\\", o + 2 <= R => StringReads(o + 2)
      PROVE  StringReads(o)
  <2>1. S!Peek(o) \notin {S!Quote, S!NUL}
    BY <1>6 DEF S!Quote, S!NUL
  <2>2. /\ o + 1 < R /\ S!Peek(o + 1) \in {"n", "t", S!Quote}
        /\ from[o] = Before(S!Escaped(S!Peek(o + 1)), from[o + 2])
    <3>1. o \in Int /\ S!Rest \in Int /\ o < S!Rest /\ o \in 1..(R + 1)
      BY <1>1, <1>6 DEF R
    <3>2. from[o] = StringBody(o, from[o + 1], from[o + 2])
      BY <1>2, <3>1
    <3>3. /\ o + 1 < S!Rest /\ S!Peek(o + 1) \in {"n", "t", S!Quote}
          /\ StringBody(o, from[o + 1], from[o + 2]) = Before(S!Escaped(S!Peek(o + 1)), from[o + 2])
      BY <1>6, <2>1, <3>1, <3>2, BodyCases
    <3> QED
      BY <3>2, <3>3 DEF R
  <2> DEFINE c == S!Escaped(S!Peek(o + 1))
             w == from[o + 2]
  <2>3. o + 2 \in 1..R /\ o + 2 \in 1..(R + 1) /\ o + 2 - 1 = o + 1
    BY <1>1, <2>2
  <2>4. w \in Strings
    BY <1>2, <2>3
  <2>5. from[o].how = w.how /\ from[o].length = w.length /\ from[o].chars = <<c>> \o w.chars
    BY <2>2, <2>4 DEF Before, Strings
  <2>6. S!Peek(o + 1) # "\\"
    BY <2>2 DEF S!Quote
  <2>7. /\ w.length \in (o + 3)..R /\ S!Peek(w.length - 1) \in {S!Quote, S!NUL}
        /\ inside[pos + w.length - 1] = inside[pos + (o + 2)] \o w.chars
    <3>1. (o + 2) + 1 = o + 3 /\ o + 2 <= R
      BY <1>1, <2>3
    <3>2. w.how = "ends" /\ S!Peek((o + 2) - 1) # "\\"
      BY <1>6, <2>3, <2>5, <2>6
    <3>3. StringReads(o + 2)
      BY <1>6, <3>1
    <3>4. /\ w.length \in ((o + 2) + 1)..R /\ S!Peek(w.length - 1) \in {S!Quote, S!NUL}
          /\ inside[pos + w.length - 1] = inside[pos + (o + 2)] \o w.chars
      BY <3>2, <3>3, Zenon DEF StringReads, from, inside, R
    <3> QED
      BY <3>1, <3>4
  <2>8. inside[pos + (o + 2)] = Append(inside[pos + o], c)
    <3> DEFINE b == pos + o
               d == pos + o + 1
    <3>1. /\ b \in (pos + 1)..(Len(text) - 1) /\ d \in (pos + 1)..(Len(text) - 1)
          /\ d = b + 1 /\ d > pos + 1 /\ pos + (o + 2) = d + 1 /\ pos + (o + 1) + 1 = d + 1
      BY <1>1, <2>2
    <3>2. text[b + 1] = "\\" /\ text[d + 1] = S!Peek(o + 1)
      BY <1>6, <3>1 DEF S!Peek
    <3> HIDE DEF b, d
    <3>3. inside[d] = inside[b]
      BY <1>1, <3>1, <3>2, UnescapedCases DEF inside
    <3>4. text[d + 1] # "\\" /\ text[d] = "\\"
      BY <2>6, <3>1, <3>2
    <3>5. inside[d + 1] = Append(inside[d], S!Escaped(text[d + 1]))
      BY <1>1, <3>1, <3>4, UnescapedCases DEF inside
    <3> QED
      BY <3>1, <3>2, <3>3, <3>5 DEF b
  <2>9. inside[pos + w.length - 1] = inside[pos + o] \o (<<c>> \o w.chars)
    <3>1. inside[pos + o] \in Seq(ReadChars)
      BY <1>1, <1>3
    <3>2. w.chars \in Seq(S!TokenChars)
      BY <2>4 DEF Strings
    <3> DEFINE s == inside[pos + o]
               z == w.chars
               U == ReadChars \cup S!TokenChars \cup {c}
    <3>3. s \in Seq(U) /\ z \in Seq(U) /\ c \in U
      BY <3>1, <3>2
    <3> HIDE DEF s, z, c, U
    <3>4. Append(s, c) \o z = s \o (<<c>> \o z)
      BY <3>3
    <3> QED
      BY <2>7, <2>8, <3>4 DEF s, z
  <2>10. w.length \in (o + 1)..R
    BY <1>1, <2>7
  <2> QED
    BY <2>5, <2>7, <2>9, <2>10 DEF StringReads, from, inside, R
<1>7. ASSUME NEW o \in 1..R, o < R, from[o].how = "ends", S!Peek(o - 1) # "\\",
             S!Peek(o) # "\\", S!Peek(o) \notin {S!Quote, S!NUL}, StringReads(o + 1)
      PROVE  StringReads(o)
  <2> DEFINE c == S!Peek(o)
             w == from[o + 1]
  <2>1. from[o] = Before(c, w)
    <3>1. o \in Int /\ S!Rest \in Int /\ o < S!Rest /\ o \in 1..(R + 1)
      BY <1>1, <1>7 DEF R
    <3>2. StringBody(o, from[o + 1], from[o + 2]) = Before(S!Peek(o), from[o + 1])
      BY <1>7, <3>1, BodyCases
    <3> QED
      BY <1>2, <3>1, <3>2
  <2>2. o + 1 \in 1..(R + 1) /\ o + 1 - 1 = o
    BY <1>1
  <2>3. w \in Strings
    BY <1>2, <2>2
  <2>4. from[o].how = w.how /\ from[o].length = w.length /\ from[o].chars = <<c>> \o w.chars
    BY <2>1, <2>3 DEF Before, Strings
  <2>5. /\ w.length \in (o + 2)..R /\ S!Peek(w.length - 1) \in {S!Quote, S!NUL}
        /\ inside[pos + w.length - 1] = inside[pos + (o + 1)] \o w.chars
    <3>1. (o + 1) + 1 = o + 2
      BY <1>1
    <3>2. w.how = "ends" /\ S!Peek((o + 1) - 1) # "\\"
      BY <1>7, <2>2, <2>4
    <3>3. /\ w.length \in ((o + 1) + 1)..R /\ S!Peek(w.length - 1) \in {S!Quote, S!NUL}
          /\ inside[pos + w.length - 1] = inside[pos + (o + 1)] \o w.chars
      BY <1>7, <3>2, Zenon DEF StringReads, from, inside, R
    <3> QED
      BY <3>1, <3>3
  <2>6. inside[pos + (o + 1)] = Append(inside[pos + o], c)
    <3> DEFINE b == pos + o
    <3>1. /\ b \in (pos + 1)..(Len(text) - 1) /\ pos + (o + 1) = b + 1
          /\ pos + o + 1 = b + 1 /\ pos + (o - 1) + 1 = b
      BY <1>1, <1>7
    <3>2. text[b + 1] = c /\ text[b] # "\\"
      BY <1>7, <3>1 DEF S!Peek
    <3> HIDE DEF b
    <3>3. inside[b + 1] = Append(inside[b], text[b + 1])
      BY <1>1, <1>7, <3>1, <3>2, UnescapedCases DEF inside
    <3> QED
      BY <3>1, <3>2, <3>3 DEF b
  <2>7. inside[pos + w.length - 1] = inside[pos + o] \o (<<c>> \o w.chars)
    <3>1. inside[pos + o] \in Seq(ReadChars)
      BY <1>1, <1>3
    <3>2. w.chars \in Seq(S!TokenChars)
      BY <2>3 DEF Strings
    <3> DEFINE s == inside[pos + o]
               z == w.chars
               U == ReadChars \cup S!TokenChars \cup {c}
    <3>3. s \in Seq(U) /\ z \in Seq(U) /\ c \in U
      BY <3>1, <3>2
    <3> HIDE DEF s, z, c, U
    <3>4. Append(s, c) \o z = s \o (<<c>> \o z)
      BY <3>3
    <3> QED
      BY <2>5, <2>6, <3>4 DEF s, z
  <2>8. w.length \in (o + 1)..R
    BY <1>1, <2>5
  <2> QED
    BY <2>4, <2>5, <2>7, <2>8 DEF StringReads, from, inside, R
<1>8. ASSUME NEW o \in 1..R, o + 1 <= R => StringReads(o + 1), o + 2 <= R => StringReads(o + 2)
      PROVE  StringReads(o)
  <2> SUFFICES ASSUME from[o].how = "ends", S!Peek(o - 1) # "\\" PROVE StringReads(o)
    BY DEF StringReads, from
  <2>1. o < R /\ o + 1 <= R
    BY <1>1, <1>4
  <2> QED
    BY <1>5, <1>6, <1>7, <1>8, <2>1
<1> DEFINE N == {x \in 0..R : \A y \in 0..x : R - y >= 1 => StringReads(R - y)}
<1>9. 0 \in N
  <2> SUFFICES ASSUME NEW y \in 0..0 PROVE StringReads(R - y)
    BY <1>1
  <2>1. R - y = R /\ R \in 1..(R + 1) /\ R >= R
    BY <1>1
  <2>2. from[R].how # "ends"
    BY <1>4, <2>1
  <2> QED
    BY <2>1, <2>2 DEF StringReads, from
<1>10. ASSUME NEW x \in 1..R, x - 1 \in N
       PROVE  x \in N
  <2> SUFFICES ASSUME NEW y \in 0..x, R - y >= 1 PROVE StringReads(R - y)
    BY <1>1
  <2>1. CASE y # x
    BY <1>1, <1>10, <2>1
  <2>2. CASE y = x
    <3> DEFINE o == R - x
    <3>1. o \in 1..R /\ o + 1 = R - (x - 1) /\ x - 1 \in 0..(x - 1) /\ R - (x - 1) >= 1
      BY <1>1, <2>2
    <3>2. StringReads(o + 1)
      BY <1>10, <3>1
    <3>3. o + 2 <= R => StringReads(o + 2)
      <4> SUFFICES ASSUME o + 2 <= R PROVE StringReads(o + 2)
        OBVIOUS
      <4>1. x - 2 \in 0..(x - 1) /\ o + 2 = R - (x - 2) /\ R - (x - 2) >= 1
        BY <1>1, <2>2
      <4> QED
        BY <1>10, <4>1
    <3> HIDE DEF o
    <3>4. StringReads(o)
      BY <1>8, <3>1, <3>2, <3>3
    <3> QED
      BY <2>2, <3>4 DEF o
  <2> QED
    BY <2>1, <2>2
<1>11. N = 0..R
  <2>1. N \subseteq 0..R
    OBVIOUS
  <2> HIDE DEF N
  <2> QED
    BY <1>1, <1>9, <1>10, <2>1, UpwardInduction
<1> QED
  <2> SUFFICES ASSUME NEW o \in 1..R PROVE StringReads(o)
    BY DEF R
  <2>1. R - o \in 0..R /\ R - o \in 0..(R - o) /\ R - (R - o) = o /\ R - (R - o) >= 1
    BY <1>1
  <2> QED
    BY <1>11, <2>1

\* A string token is what stands in the line, quotes included.
LEMMA StringWritten ==
  ASSUME S!TypeOK, S!String, NEW t, t.type = "STRING", t.text = S!StringFrom[1].chars
  PROVE  WrittenAs(t, pos, pos + S!StringFrom[1].length)
<1> DEFINE w == S!StringFrom[1]
           inside == Unescaped(pos + 1)
<1>1. S!Rest \in Nat \ {0} /\ pos \in Nat /\ Len(text) \in Nat /\ S!Rest = Len(text) - pos
  BY Remaining, LenProperties DEF S!String, S!TypeOK, S!Rest
<1>2. S!Peek(0) = S!Quote /\ w.how = "ends"
  BY DEF S!String, S!IsString
<1>3. 1 \in 1..S!Rest /\ 1 \in 1..(S!Rest + 1) /\ 1 - 1 = 0 /\ S!Quote # "\\"
  BY <1>1 DEF S!Quote
<1>4. StringReads(1)
  BY <1>1, <1>3, StringRead
<1>5. /\ w.length \in (1 + 1)..S!Rest
      /\ S!Peek(w.length - 1) \in {S!Quote, S!NUL}
      /\ inside[pos + w.length - 1] = inside[pos + 1] \o w.chars
  BY <1>2, <1>3, <1>4 DEF StringReads
<1>6. inside[pos + 1] = <<>>
  <2>1. pos + 1 \in 0..Len(text)
    BY <1>1
  <2> QED
    BY <2>1, UnescapedReads
<1>7. w.chars \in Seq(S!TokenChars)
  BY <1>1, <1>3, StringEnds DEF Strings
<1>8. <<>> \o w.chars = w.chars
  BY <1>7
<1> HIDE DEF w, inside
<1>9. pos + 2 <= pos + w.length /\ text[pos + 1] = S!Quote /\ text[pos + w.length] \in {S!Quote, S!NUL}
  <2>1. pos + (w.length - 1) + 1 = pos + w.length /\ pos + 0 + 1 = pos + 1 /\ pos + 2 <= pos + w.length
    BY <1>1, <1>5
  <2> QED
    BY <1>2, <1>5, <2>1 DEF S!Peek
<1>10. t.text = inside[(pos + w.length) - 1]
  <2>1. t.text = w.chars
    BY DEF w
  <2>2. inside[pos + w.length - 1] = w.chars
    BY <1>5, <1>6, <1>8, Zenon
  <2>3. pos + w.length - 1 = (pos + w.length) - 1
    BY <1>1, <1>5
  <2> QED
    BY <2>1, <2>2, <2>3
<1> QED
  BY <1>9, <1>10 DEF WrittenAs, w, inside

-----------------------------------------------------------------------------
(* The tokens.                                                              *)

LEMMA Pairs == \A c, d : S!PairType(c, d) \in S!SymbolTypes \cup {"SKIP"}
BY DEF S!PairType, S!SymbolTypes

LEMMA Singles == \A c : S!CharType(c) \in S!SymbolTypes \cup {"SKIP"}
BY DEF S!CharType, S!SymbolTypes

LEMMA Dots == S!CharType(".") = "DOT" /\ \A d : S!PairType(".", d) = "SKIP"
BY DEF S!CharType, S!PairType

LEMMA Kinds ==
  /\ "SKIP" \notin S!SymbolTypes /\ "ID" \notin S!SymbolTypes
  /\ "." \notin S!NameChars /\ "." \notin S!Blanks /\ "." # S!Quote
  /\ S!Digits \subseteq S!NameChars
BY DEF S!SymbolTypes, S!NameChars, S!Blanks, S!Quote, S!Digits

\* The characters a parser takes are such as tokens are made of.
LEMMA TakenTyped ==
  ASSUME S!TypeOK, NEW n \in 0..S!Rest
  PROVE  /\ S!Taken(n) \in Seq(S!TokenChars) /\ Len(S!Taken(n)) = n
         /\ \A k \in 1..n : S!Taken(n)[k] = S!Peek(k - 1)
<1>1. DOMAIN text = 1..Len(text) /\ Len(text) \in Nat /\ pos \in 0..Len(text)
  BY LenProperties DEF S!TypeOK
<1>2. text \in Seq(S!TokenChars)
  BY <1>1, IsASeq DEF S!TokenChars, S!TypeOK
<1>3. pos + 1 \in 1..(Len(text) + 1) /\ pos + n \in pos..Len(text) /\ (pos + n) - (pos + 1) + 1 = n
  BY <1>1 DEF S!Rest
<1>4. /\ SubSeq(text, pos + 1, pos + n) \in Seq(S!TokenChars)
      /\ Len(SubSeq(text, pos + 1, pos + n)) = n
      /\ \A k \in 1..n : SubSeq(text, pos + 1, pos + n)[k] = text[pos + 1 + k - 1]
  BY <1>1, <1>2, <1>3, SubSeqProperties
<1>5. \A k \in 1..n : pos + 1 + k - 1 = pos + (k - 1) + 1
  BY <1>1
<1> QED
  BY <1>4, <1>5 DEF S!Taken, S!Peek

\* A name that begins with a digit ends in front of a dot.
Named(n, t) ==
  t.type = "ID" /\ t.text[1] \in S!Digits =>
    /\ \A k \in DOMAIN t.text : t.text[k] \in S!NameChars
    /\ n < S!Rest /\ S!Peek(n) = "."

\* A parser that succeeds consumes n characters, not beyond the end, and
\* appends the token t, which is written there; a dot where a token begins is
\* one of its own.
TokenStep(n, t) ==
  /\ S!Consume(n, <<t>>)
  /\ WrittenAs(t, pos, pos + n)
  /\ S!Peek(0) = "." => t.type = "DOT"
  /\ Named(n, t)

LEMMA TokenTyped ==
  \A k \in S!SymbolTypes \cup S!WordTypes, s \in Seq(S!TokenChars) :
    S!Token(k, s) \in S!TokenRecord /\ S!Token(k, s).type = k /\ S!Token(k, s).text = s
BY DEF S!Token, S!TokenRecord

\* The characters a parser takes are what is written there.
LEMMA TakenWritten ==
  ASSUME NEW n, NEW t, t.type # "STRING", t.text = S!Taken(n)
  PROVE  WrittenAs(t, pos, pos + n)
BY DEF WrittenAs, S!Taken

LEMMA NoStrings == "STRING" \notin S!SymbolTypes
BY DEF S!SymbolTypes

LEMMA SymbolStep ==
  ASSUME S!TypeOK, S!Symbol
  PROVE  \E n \in 1..S!Rest, t \in S!TokenRecord : TokenStep(n, t)
<1> DEFINE n == S!SymbolLength
           k == IF n = 2 THEN S!PairType(S!Peek(0), S!Peek(1)) ELSE S!CharType(S!Peek(0))
           t == S!Token(k, S!Taken(n))
<1>1. S!Rest \in Nat \ {0} /\ S!Scanning
  BY Remaining DEF S!Symbol
<1>2. /\ n \in 1..S!Rest
      /\ k \in S!SymbolTypes
      /\ S!Peek(0) = "." => k = "DOT"
  <2>1. CASE S!Rest > 1 /\ S!PairType(S!Peek(0), S!Peek(1)) # "SKIP"
    <3>1. n = 2
      BY <2>1 DEF S!SymbolLength
    <3>2. k = S!PairType(S!Peek(0), S!Peek(1))
      BY <3>1
    <3> QED
      BY <1>1, <2>1, <3>1, <3>2, Pairs, Dots
  <2>2. CASE ~(S!Rest > 1 /\ S!PairType(S!Peek(0), S!Peek(1)) # "SKIP") /\ S!CharType(S!Peek(0)) # "SKIP"
    <3>1. n = 1
      BY <2>2 DEF S!SymbolLength
    <3>2. k = S!CharType(S!Peek(0))
      BY <3>1
    <3> QED
      BY <1>1, <2>2, <3>1, <3>2, Singles, Dots
  <2>3. CASE ~(S!Rest > 1 /\ S!PairType(S!Peek(0), S!Peek(1)) # "SKIP") /\ ~(S!CharType(S!Peek(0)) # "SKIP")
    <3>1. n = 0
      BY <2>3 DEF S!SymbolLength
    <3> QED
      BY <3>1 DEF S!Symbol
  <2> QED
    BY <2>1, <2>2, <2>3
<1>3. S!Consume(n, <<t>>)
  BY Zenon DEF S!Symbol
<1> HIDE DEF n, k
<1>4. S!Taken(n) \in Seq(S!TokenChars)
  BY <1>2, TakenTyped
<1>5. t \in S!TokenRecord /\ t.type = k /\ t.text = S!Taken(n)
  BY <1>2, <1>4, TokenTyped
<1> HIDE DEF t
<1>6. Named(n, t)
  BY <1>2, <1>5, Kinds DEF Named
<1>7. WrittenAs(t, pos, pos + n)
  BY <1>2, <1>5, NoStrings, TakenWritten
<1> QED
  BY <1>2, <1>3, <1>5, <1>6, <1>7 DEF TokenStep

LEMMA NumberStep ==
  ASSUME S!TypeOK, S!Number
  PROVE  \E n \in 1..S!Rest, t \in S!TokenRecord : TokenStep(n, t)
<1> DEFINE n == S!NumberLength
           dots == {o \in 0..(n - 1) : S!Peek(o) = "."}
           k == IF dots = {} THEN "INTEGER" ELSE "FLOAT"
           t == S!Token(k, S!Taken(n))
<1>1. S!Rest \in Nat \ {0} /\ S!Scanning
  BY Remaining DEF S!Number
<1>2. n \in 1..S!Rest /\ S!Peek(0) # "."
  <2> DEFINE m == S!RunOf(S!Digits \cup {"."})
  <2>1. m \in 0..S!Rest
    BY <1>1, Runs
  <2> HIDE DEF m
  <2>2. n > 0
    BY DEF S!Number
  <2>3. n = IF S!Peek(0) # "." /\ m > 0 /\ S!Peek(m - 1) \in S!Digits THEN m ELSE 0
    BY DEF S!NumberLength, m
  <2> QED
    BY <1>1, <2>1, <2>2, <2>3
<1>3. S!Consume(n, <<t>>)
  BY Zenon DEF S!Number
<1>4. k \in S!WordTypes /\ k # "ID" /\ k # "STRING"
  BY DEF S!WordTypes
<1> HIDE DEF n, k
<1>5. S!Taken(n) \in Seq(S!TokenChars)
  BY <1>2, TakenTyped
<1>6. t \in S!TokenRecord /\ t.type = k /\ t.text = S!Taken(n)
  BY <1>4, <1>5, TokenTyped
<1> HIDE DEF t
<1>7. WrittenAs(t, pos, pos + n)
  BY <1>4, <1>6, TakenWritten
<1> QED
  BY <1>2, <1>3, <1>4, <1>6, <1>7 DEF TokenStep, Named

LEMMA StringStep ==
  ASSUME S!TypeOK, S!String
  PROVE  \E n \in 1..S!Rest, t \in S!TokenRecord : TokenStep(n, t)
<1> DEFINE w == S!StringFrom[1]
           n == w.length
           s == w.chars
           t == S!Token("STRING", s)
<1>1. w \in Strings
  <2>1. S!Rest \in Nat \ {0} /\ 1 \in 1..(S!Rest + 1)
    BY Remaining DEF S!String
  <2> QED
    BY <2>1, StringEnds
<1>2. S!Consume(n, <<t>>) /\ w.how = "ends" /\ S!Peek(0) = S!Quote
  BY DEF S!String, S!IsString
<1> HIDE DEF w
<1>3. n \in 1..S!Rest /\ s \in Seq(S!TokenChars)
  BY <1>1, <1>2 DEF Strings
<1> HIDE DEF n, s
<1>4. t \in S!TokenRecord /\ t.type = "STRING" /\ t.text = s
  BY <1>3, TokenTyped DEF S!WordTypes
<1> HIDE DEF t
<1>5. WrittenAs(t, pos, pos + n)
  BY <1>4, StringWritten DEF s, n, w
<1> QED
  BY <1>2, <1>3, <1>4, <1>5, Kinds DEF TokenStep, Named

\* A name may begin with a digit because no number begins there; then the
\* digits and dots that parse_number has seen end in a dot, and the name ends
\* at the first dot among them.
LEMMA NameStep ==
  ASSUME S!TypeOK, S!Name
  PROVE  \E n \in 1..S!Rest, t \in S!TokenRecord : TokenStep(n, t)
<1> DEFINE n == S!NameLength
           t == S!Token("ID", S!Taken(n))
           m == S!RunOf(S!Digits \cup {"."})
<1>1. S!Rest \in Nat \ {0} /\ S!Scanning
  BY Remaining DEF S!Name
<1>2. /\ n \in 0..S!Rest
      /\ \A o \in 0..(n - 1) : S!Peek(o) \in S!NameChars
      /\ n < S!Rest => S!Peek(n) \notin S!NameChars
  BY <1>1, Runs DEF S!NameLength
<1>3. /\ m \in 0..S!Rest
      /\ \A o \in 0..(m - 1) : S!Peek(o) \in S!Digits \cup {"."}
      /\ m < S!Rest => S!Peek(m) \notin S!Digits \cup {"."}
  BY <1>1, Runs
<1>4. S!Consume(n, <<t>>) /\ n > 0 /\ n # S!Rest
  BY DEF S!Name, S!NameThrows
<1>5. S!Peek(0) # "." /\ m > 0 => S!Peek(m - 1) \notin S!Digits
  <2>1. 0 = IF S!Peek(0) # "." /\ m > 0 /\ S!Peek(m - 1) \in S!Digits THEN m ELSE 0
    BY DEF S!NumberLength, S!Name
  <2> HIDE DEF m
  <2> QED
    BY <1>3, <2>1
<1> HIDE DEF n, m
<1>6. n \in 1..S!Rest /\ n < S!Rest /\ 0 \in 0..(n - 1)
  BY <1>1, <1>2, <1>4
<1>7. S!Peek(0) \in S!NameChars /\ S!Peek(0) # "."
  BY <1>2, <1>6, Kinds
<1>8. /\ S!Taken(n) \in Seq(S!TokenChars) /\ Len(S!Taken(n)) = n
      /\ \A k \in 1..n : S!Taken(n)[k] = S!Peek(k - 1)
  BY <1>2, TakenTyped
<1>9. t \in S!TokenRecord /\ t.type = "ID" /\ t.text = S!Taken(n)
  BY <1>8, TokenTyped DEF S!WordTypes
<1> HIDE DEF t
<1>10. S!Peek(0) \in S!Digits => S!Peek(n) = "."
  <2> SUFFICES ASSUME S!Peek(0) \in S!Digits PROVE S!Peek(n) = "."
    OBVIOUS
  <2>1. m > 0
    BY <1>1, <1>3
  <2>2. m - 1 \in 0..(m - 1)
    BY <1>3, <2>1
  <2>3. S!Peek(m - 1) = "."
    BY <1>3, <1>5, <1>7, <2>1, <2>2
  <2>4. m - 1 \notin 0..(n - 1)
    BY <1>2, <2>3, Kinds
  <2>5. n \in 0..(m - 1)
    BY <1>6, <1>3, <2>1, <2>4
  <2>6. S!Peek(n) \in S!Digits \cup {"."} /\ S!Peek(n) \notin S!NameChars
    BY <1>2, <1>3, <1>6, <2>5
  <2> QED
    BY <2>6, Kinds
<1>11. Named(n, t)
  <2> SUFFICES ASSUME t.text[1] \in S!Digits
      PROVE (\A k \in DOMAIN t.text : t.text[k] \in S!NameChars) /\ S!Peek(n) = "."
    BY <1>6 DEF Named
  <2>1. 1 \in 1..n /\ 1 - 1 = 0 /\ \A k \in 1..n : k - 1 \in 0..(n - 1)
    BY <1>6
  <2>2. S!Peek(0) \in S!Digits
    BY <1>8, <1>9, <2>1
  <2>3. DOMAIN t.text = 1..n
    BY <1>8, <1>9, LenProperties
  <2> QED
    BY <1>2, <1>8, <1>9, <1>10, <2>1, <2>2, <2>3
<1>12. WrittenAs(t, pos, pos + n)
  BY <1>9, TakenWritten
<1> QED
  BY <1>4, <1>6, <1>7, <1>9, <1>11, <1>12 DEF TokenStep

LEMMA TokenSteps ==
  ASSUME S!TypeOK, S!Symbol \/ S!Number \/ S!String \/ S!Name
  PROVE  \E n \in 1..S!Rest, t \in S!TokenRecord : TokenStep(n, t)
BY SymbolStep, NumberStep, StringStep, NameStep

\* A blank is passed and nothing is appended; a dot is no blank.
LEMMA SkipStep ==
  ASSUME S!TypeOK, S!Skip
  PROVE  /\ pos' = pos + 1 /\ pos + 1 \in 0..Len(text) /\ S!Peek(0) # "."
         /\ tokens' = tokens /\ UNCHANGED <<text, scan>> /\ S!Peek(0) \in S!Blanks
<1>1. tokens \o <<>> = tokens
  BY DEF S!TypeOK
<1>2. S!Rest \in Nat \ {0}
  BY Remaining DEF S!Skip
<1>3. pos + 1 \in 0..Len(text)
  BY <1>2, LenProperties DEF S!TypeOK, S!Rest
<1> QED
  BY <1>1, <1>3, Kinds DEF S!Skip, S!Consume

LEMMA ScanTypes ==
  ASSUME S!TypeOK, S!Next
  PROVE  /\ S!TypeOK' /\ scan = "scanning" /\ text' = text
         /\ Len(tokens') >= Len(tokens)
         /\ scan' = "done" => pos' = Len(text')
<1>1. text' = text /\ scan = "scanning"
  BY DEF S!Next, S!Symbol, S!Number, S!String, S!Skip, S!Name, S!Reject, S!Finish, S!Consume, S!Scanning
<1>2. S!TokenChars' = S!TokenChars
  BY <1>1 DEF S!TokenChars
<1>3. S!TokenRecord' = S!TokenRecord
  BY <1>2 DEF S!TokenRecord
<1>4. Len(text) \in Nat /\ pos \in 0..Len(text) /\ Len(tokens) \in Nat /\ tokens \in Seq(S!TokenRecord)
  BY LenProperties DEF S!TypeOK
<1>5. CASE S!Symbol \/ S!Number \/ S!String \/ S!Name
  <2>1. PICK n \in 1..S!Rest, t \in S!TokenRecord : TokenStep(n, t)
    BY <1>5, TokenSteps
  <2>2. pos' = pos + n /\ tokens' = tokens \o <<t>> /\ scan' = scan
    BY <2>1 DEF TokenStep, S!Consume
  <2>3. pos + n \in 0..Len(text)
    BY <1>4 DEF S!Rest
  <2>4. tokens \o <<t>> \in Seq(S!TokenRecord) /\ Len(tokens \o <<t>>) = Len(tokens) + 1
    BY <1>4
  <2> QED
    BY <1>1, <1>3, <1>4, <2>2, <2>3, <2>4 DEF S!TypeOK
<1>6. CASE S!Skip
  <2> HIDE DEF S!Skip
  <2>1. /\ pos' = pos + 1 /\ pos + 1 \in 0..Len(text)
        /\ tokens' = tokens /\ scan' = scan
    BY <1>6, SkipStep
  <2> QED
    BY <1>1, <1>3, <1>4, <2>1 DEF S!TypeOK
<1>7. CASE S!Reject \/ S!Finish
  <2>1. pos' = pos /\ tokens' = tokens /\ scan' \in {"done", "rejected"}
    BY <1>7 DEF S!Reject, S!Finish
  <2>2. scan' = "done" => pos = Len(text)
    BY <1>4, <1>7 DEF S!Reject, S!Finish
  <2> QED
    BY <1>1, <1>3, <1>4, <2>1, <2>2 DEF S!TypeOK
<1> QED
  BY <1>5, <1>6, <1>7 DEF S!Next

-----------------------------------------------------------------------------
(* The types of the variables.                                              *)

\* Also the open trees are a sequence, and the line is read to its end before
\* a tree is begun.
Types ==
  /\ TypeOK
  /\ \E U : open \in Seq(U)
  /\ scan = "done" => pos = Len(text)
  /\ open = <<>> /\ result = T!NoTree => taken = 0
  /\ scan # "done" => open = <<>> /\ result = T!NoTree

LEMMA InitTypes == Init => Types
<1> SUFFICES ASSUME Init PROVE Types
  OBVIOUS
<1>1. text \in Seq(STRING) /\ Len(text) \in Nat
  BY TextsAssumption, LenProperties DEF Init
<1>2. S!TypeOK
  BY <1>1 DEF Init, S!Init, S!TypeOK
<1>3. taken \in 0..Len(tokens)
  BY DEF Init, S!Init
<1>4. T!TreesTyped
  <2>1. open = <<>> /\ result = T!NoTree
    BY DEF Init
  <2>2. DOMAIN open = {}
    BY <2>1
  <2> QED
    BY <2>1, <2>2 DEF T!TreesTyped, T!NoTree, T!Tree
<1>5. open \in Seq({})
  BY DEF Init
<1> QED
  BY <1>2, <1>3, <1>4, <1>5 DEF Types, TypeOK, Init, S!Init

LEMMA ScanStep ==
  ASSUME Types, Scan
  PROVE  Types'
<1>1. S!TypeOK /\ S!Next /\ UNCHANGED tree
  BY DEF Types, TypeOK, Scan
<1>2. /\ S!TypeOK' /\ scan = "scanning" /\ text' = text
      /\ Len(tokens') >= Len(tokens)
      /\ scan' = "done" => pos' = Len(text')
  BY <1>1, ScanTypes
<1>3. open = <<>> /\ result = T!NoTree /\ open' = open /\ result' = result /\ taken' = taken
  BY <1>1, <1>2 DEF Types, tree
<1>4. taken' \in 0..Len(tokens')
  BY <1>1, <1>2, <1>3, LenProperties DEF Types, TypeOK, S!TypeOK
<1>5. T!TreesTyped'
  <2>1. DOMAIN open' = {}
    BY <1>3
  <2> QED
    BY <1>3, <2>1 DEF T!TreesTyped, T!NoTree, T!Tree
<1> QED
  BY <1>2, <1>3, <1>4, <1>5 DEF Types, TypeOK, T!NoTree

\* A sequence, one place of which is replaced, and one that another follows.
LEMMA Grown ==
  ASSUME NEW U, NEW s \in Seq(U), NEW x
  PROVE  /\ Append(s, x) \in Seq(U \cup {x}) /\ Len(Append(s, x)) = Len(s) + 1
         /\ DOMAIN Append(s, x) = 1..(Len(s) + 1)
         /\ \A i \in 1..Len(s) : Append(s, x)[i] = s[i]
         /\ Append(s, x)[Len(s) + 1] = x
<1>1. s \in Seq(U \cup {x})
  OBVIOUS
<1> QED
  BY <1>1, AppendProperties

LEMMA Replaced ==
  ASSUME NEW U, NEW s \in Seq(U), s # <<>>, NEW x
  PROVE  LET r == [s EXCEPT ![Len(s)] = x]
         IN /\ r \in Seq(U \cup {x}) /\ DOMAIN r = 1..Len(s)
            /\ \A i \in 1..Len(s) : r[i] = IF i = Len(s) THEN x ELSE s[i]
<1>1. Len(s) \in 1..Len(s) /\ Len(s) \in Nat /\ DOMAIN s = 1..Len(s) /\ \A i \in 1..Len(s) : s[i] \in U
  BY EmptySeq, LenProperties, ElementOfSeq
<1> DEFINE n == Len(s)
           r == [s EXCEPT ![n] = x]
<1>2. r = [i \in 1..n |-> IF i = n THEN x ELSE s[i]]
  BY <1>1
<1> HIDE DEF r, n
<1>3. \A i \in 1..n : r[i] = IF i = n THEN x ELSE s[i]
  BY <1>2
<1>4. r \in Seq(U \cup {x}) /\ DOMAIN r = 1..n
  <2>1. n \in Nat /\ DOMAIN r = 1..n /\ r = [i \in 1..n |-> r[i]]
    BY <1>1, <1>2 DEF n
  <2>2. \A i \in 1..n : r[i] \in U \cup {x}
    BY <1>1, <1>3 DEF n
  <2>3. [i \in 1..n |-> r[i]] \in Seq(U \cup {x})
    BY <2>1, <2>2, IsASeq
  <2> QED
    BY <2>1, <2>3, Zenon
<1> QED
  BY <1>3, <1>4 DEF r, n

LEMMA Shape ==
  ASSUME Types, open # <<>>
  PROVE  /\ Len(open) \in Nat \ {0} /\ DOMAIN open = 1..Len(open)
         /\ result = T!NoTree /\ scan = "done" /\ pos = Len(text)
         /\ taken \in 0..Len(tokens) /\ Len(tokens) \in Nat
         /\ \A i \in 1..Len(open) :
              open[i].type \in IF i = 1 THEN {"MASTER"} ELSE {"BRACKETS", "BRACES"}
<1>1. PICK U : open \in Seq(U)
  BY DEF Types
<1>2. Len(open) \in Nat \ {0} /\ DOMAIN open = 1..Len(open)
  BY <1>1, EmptySeq, LenProperties
<1>3. Len(tokens) \in Nat
  BY LenProperties DEF Types, TypeOK, S!TypeOK
<1> QED
  BY <1>2, <1>3 DEF Types, TypeOK, T!TreesTyped

LEMMA Added == \A t, x : T!Add(t, x).type = t.type
BY DEF T!Add, T!Tree

\* What is left to show of a step of parse_tree.
LEMMA TreeStep ==
  ASSUME Types, open # <<>>, UNCHANGED <<text, pos, tokens, scan>>,
         taken' \in 0..Len(tokens),
         NEW U, open' \in Seq(U),
         \A i \in DOMAIN open' :
           open'[i].type \in IF i = 1 THEN {"MASTER"} ELSE {"BRACKETS", "BRACES"},
         \/ open' # <<>> /\ result' = result
         \/ open' = <<>> /\ result'.type = "MASTER" /\ taken' = Len(tokens)
  PROVE  Types'
<1>1. result = T!NoTree /\ scan = "done" /\ pos = Len(text) /\ T!NoTree.type = "NONE"
  BY Shape DEF T!NoTree, T!Tree
<1>2. S!TypeOK'
  BY DEF Types, TypeOK, S!TypeOK, S!TokenRecord, S!TokenChars
<1>3. T!TreesTyped'
  BY <1>1 DEF T!TreesTyped, T!NoTree
<1>4. TypeOK'
  BY <1>1, <1>2, <1>3 DEF TypeOK
<1> QED
  BY <1>1, <1>4 DEF Types, T!NoTree

LEMMA AddTokenStep ==
  ASSUME Types, T!AddToken, UNCHANGED <<text, pos, scan>>
  PROVE  Types'
<1> DEFINE x == T!Add(open[Len(open)], tokens[taken + 1])
<1>1. /\ open # <<>> /\ taken < Len(tokens) /\ taken' = taken + 1
      /\ open' = [open EXCEPT ![Len(open)] = x]
      /\ tokens' = tokens /\ result' = result
  BY DEF T!AddToken, T!AtToken
<1>2. PICK U : open \in Seq(U)
  BY DEF Types
<1>3. x.type = open[Len(open)].type
  BY Added
<1> HIDE DEF x
<1>4. /\ open' \in Seq(U \cup {x}) /\ DOMAIN open' = 1..Len(open)
      /\ \A i \in 1..Len(open) : open'[i] = IF i = Len(open) THEN x ELSE open[i]
  BY <1>1, <1>2, Replaced
<1>5. \A i \in DOMAIN open' :
        open'[i].type \in IF i = 1 THEN {"MASTER"} ELSE {"BRACKETS", "BRACES"}
  BY <1>1, <1>3, <1>4, Shape
<1>6. open' # <<>> /\ taken' \in 0..Len(tokens)
  BY <1>1, <1>4, Shape
<1> QED
  BY <1>1, <1>4, <1>5, <1>6, TreeStep

LEMMA OpenTreeStep ==
  ASSUME Types, T!OpenTree, UNCHANGED <<text, pos, scan>>
  PROVE  Types'
<1> DEFINE x == T!Tree(T!TreeType(T!Peek), <<>>)
<1>1. /\ open # <<>> /\ taken < Len(tokens) /\ taken' = taken + 1
      /\ open' = Append(open, x)
      /\ tokens' = tokens /\ result' = result
  BY DEF T!OpenTree, T!AtToken
<1>2. PICK U : open \in Seq(U)
  BY DEF Types
<1>3. x.type \in {"BRACKETS", "BRACES"}
  BY DEF T!Tree, T!TreeType
<1> HIDE DEF x
<1>4. /\ open' \in Seq(U \cup {x}) /\ DOMAIN open' = 1..(Len(open) + 1)
      /\ \A i \in 1..Len(open) : open'[i] = open[i]
      /\ open'[Len(open) + 1] = x
  BY <1>1, <1>2, Grown
<1>5. \A i \in DOMAIN open' :
        open'[i].type \in IF i = 1 THEN {"MASTER"} ELSE {"BRACKETS", "BRACES"}
  <2> SUFFICES ASSUME NEW i \in 1..(Len(open) + 1)
      PROVE open'[i].type \in IF i = 1 THEN {"MASTER"} ELSE {"BRACKETS", "BRACES"}
    BY <1>4
  <2>1. Len(open) \in Nat \ {0}
    BY <1>1, Shape
  <2>2. CASE i = Len(open) + 1
    BY <1>3, <1>4, <2>1, <2>2
  <2>3. CASE i # Len(open) + 1
    <3>1. i \in 1..Len(open)
      BY <2>1, <2>3
    <3> QED
      BY <1>1, <1>4, <3>1, Shape
  <2> QED
    BY <2>2, <2>3
<1>6. open' # <<>> /\ taken' \in 0..Len(tokens)
  BY <1>1, <1>4, Shape
<1> QED
  BY <1>1, <1>4, <1>5, <1>6, TreeStep

LEMMA Returned ==
  ASSUME Types, open # <<>>, T!Return
  PROVE  /\ \E U : open' \in Seq(U)
         /\ \A i \in DOMAIN open' :
              open'[i].type \in IF i = 1 THEN {"MASTER"} ELSE {"BRACKETS", "BRACES"}
         /\ \/ Len(open) # 1 /\ open' # <<>> /\ result' = result
            \/ Len(open) = 1 /\ open' = <<>> /\ result'.type = "MASTER"
         /\ Len(open') = Len(open) - 1
         /\ \A i \in 1..(Len(open) - 1) : open'[i].type = open[i].type
<1> DEFINE n == Len(open)
<1>1. n \in Nat \ {0}
  BY Shape
<1>2. CASE n = 1
  <2>1. open' = <<>> /\ result' = open[1]
    BY <1>2 DEF T!Return, T!Top
  <2>2. result'.type = "MASTER"
    <3>1. 1 \in 1..Len(open)
      BY <1>1
    <3> QED
      BY <2>1, <3>1, Shape
  <2>3. open' \in Seq({}) /\ DOMAIN open' = {} /\ Len(open') = 0 /\ 1..(1 - 1) = {}
    BY <2>1
  <2> QED
    BY <1>2, <2>1, <2>2, <2>3
<1>3. CASE n # 1
  <2> DEFINE s == SubSeq(open, 1, n - 2)
             x == T!Add(open[n - 1], open[n])
  <2>1. open' = Append(s, x) /\ result' = result
    BY <1>3 DEF T!Return, T!Top
  <2>2. PICK U : open \in Seq(U)
    BY DEF Types
  <2>3. \A i \in 1..(n - 2) : open[i] \in U
    BY <2>2, <1>1, ElementOfSeq
  <2>4. /\ s \in Seq(U) /\ Len(s) = n - 2
        /\ \A i \in 1..(n - 2) : s[i] = open[i]
    <3> HIDE DEF n
    <3>1. n - 2 \in Nat
      BY ONLY <1>1, <1>3
    <3>2. /\ 1 \in Int /\ n - 2 \in Int /\ (n - 2) - 1 + 1 = n - 2
          /\ (IF 1 <= n - 2 THEN (n - 2) - 1 + 1 ELSE 0) = n - 2
          /\ \A i \in 1..(n - 2) : 1 + i - 1 = i
      BY ONLY <3>1
    <3> QED
      BY <2>3, <3>2, SubSeqProperties
  <2>5. x.type = open[n - 1].type
    BY Added
  <2> HIDE DEF s, x
  <2>6. /\ open' \in Seq(U \cup {x}) /\ DOMAIN open' = 1..((n - 2) + 1)
        /\ \A i \in 1..(n - 2) : open'[i] = s[i]
        /\ open'[(n - 2) + 1] = x /\ Len(open') = (n - 2) + 1
    BY <2>1, <2>4, Grown
  <2>7. (n - 2) + 1 = n - 1 /\ n - 1 \in 1..n
    BY <1>1, <1>3
  <2>10. \A i \in 1..(n - 1) : open'[i].type = open[i].type
    <3> SUFFICES ASSUME NEW i \in 1..(n - 1) PROVE open'[i].type = open[i].type
      OBVIOUS
    <3>1. i = n - 1 \/ i \in 1..(n - 2)
      BY <1>1
    <3> HIDE DEF n
    <3> QED
      BY <2>4, <2>5, <2>6, <2>7, <3>1
  <2>8. \A i \in DOMAIN open' :
          open'[i].type \in IF i = 1 THEN {"MASTER"} ELSE {"BRACKETS", "BRACES"}
    <3> SUFFICES ASSUME NEW i \in 1..(n - 1)
        PROVE open'[i].type \in IF i = 1 THEN {"MASTER"} ELSE {"BRACKETS", "BRACES"}
      BY <2>6, <2>7
    <3>1. i \in 1..Len(open)
      BY <1>1
    <3> QED
      BY <2>10, <3>1, Shape
  <2>9. open' # <<>>
    BY <2>6, <2>7
  <2> QED
    BY <1>3, <2>1, <2>6, <2>7, <2>8, <2>9, <2>10
<1> QED
  BY <1>2, <1>3

\* The call that fills the tree of the line waits for no token that there is.
LEMMA CloseTreeStep ==
  ASSUME Types, T!CloseTree, UNCHANGED <<text, pos, scan>>
  PROVE  Types'
<1>1. /\ open # <<>> /\ taken < Len(tokens) /\ taken' = taken + 1
      /\ T!Return /\ tokens' = tokens
      /\ tokens[taken + 1].type = T!Until(open[Len(open)].type)
  BY DEF T!CloseTree, T!AtToken, T!Peek, T!Top
<1>2. taken' \in 0..Len(tokens) /\ taken + 1 \in 1..Len(tokens)
  BY <1>1, Shape
<1>3. tokens[taken + 1] \in S!TokenRecord
  BY <1>2, ElementOfSeq DEF Types, TypeOK, S!TypeOK
<1>4. tokens[taken + 1].type # "SKIP"
  BY <1>3, Kinds DEF S!TokenRecord, S!WordTypes
<1>5. Len(open) # 1
  <2> SUFFICES ASSUME Len(open) = 1 PROVE FALSE
    OBVIOUS
  <2>1. open[1].type = "MASTER"
    BY <1>1, Shape
  <2> QED
    BY <1>1, <1>4, <2>1 DEF T!Until
<1>6. PICK U : open' \in Seq(U)
  BY <1>1, Returned
<1>7. /\ \A i \in DOMAIN open' :
           open'[i].type \in IF i = 1 THEN {"MASTER"} ELSE {"BRACKETS", "BRACES"}
      /\ open' # <<>> /\ result' = result
  BY <1>1, <1>5, Returned
<1> QED
  BY <1>1, <1>2, <1>6, <1>7, TreeStep

LEMMA EndOfTokensStep ==
  ASSUME Types, T!EndOfTokens, UNCHANGED <<text, pos, scan>>
  PROVE  Types'
<1>1. /\ open # <<>> /\ taken = Len(tokens) /\ taken' = taken
      /\ T!Return /\ tokens' = tokens
  BY DEF T!EndOfTokens
<1>2. taken' \in 0..Len(tokens)
  BY <1>1, Shape
<1>3. PICK U : open' \in Seq(U)
  BY <1>1, Returned
<1>4. /\ \A i \in DOMAIN open' :
           open'[i].type \in IF i = 1 THEN {"MASTER"} ELSE {"BRACKETS", "BRACES"}
      /\ \/ open' # <<>> /\ result' = result
         \/ open' = <<>> /\ result'.type = "MASTER"
  BY <1>1, Returned
<1> QED
  BY <1>1, <1>2, <1>3, <1>4, TreeStep

LEMMA StartTreeStep ==
  ASSUME Types, StartTree
  PROVE  Types'
<1>1. /\ scan = "done" /\ pos = Len(text) /\ result = T!NoTree
      /\ open' = <<T!Master>> /\ UNCHANGED <<text, pos, tokens, scan, taken, result>>
  BY DEF StartTree, Types
<1> DEFINE m == T!Master
<1>2. m.type = "MASTER"
  BY DEF T!Master, T!Tree
<1> HIDE DEF m
<1>3. open' = <<m>>
  BY <1>1 DEF m
<1>4. open' \in Seq({m}) /\ DOMAIN open' = 1..1 /\ open'[1] = m /\ open' # <<>>
  BY <1>3
<1>5. S!TypeOK' /\ taken' \in 0..Len(tokens')
  BY <1>1 DEF Types, TypeOK, S!TypeOK, S!TokenRecord, S!TokenChars
<1>6. T!TreesTyped'
  BY <1>1, <1>2, <1>4 DEF Types, TypeOK, T!TreesTyped, T!NoTree
<1>7. TypeOK'
  BY <1>1, <1>5, <1>6 DEF TypeOK
<1> QED
  BY <1>1, <1>4, <1>7 DEF Types, T!NoTree

LEMMA NextTypes == Types /\ [Next]_vars => Types'
<1> SUFFICES ASSUME Types, [Next]_vars PROVE Types'
  OBVIOUS
<1>1. CASE Scan
  BY <1>1, ScanStep
<1>2. CASE StartTree
  BY <1>2, StartTreeStep
<1>3. CASE Build
  BY <1>3, AddTokenStep, OpenTreeStep, CloseTreeStep, EndOfTokensStep DEF Build, T!Next
<1>4. CASE UNCHANGED vars
  BY <1>4 DEF vars, Types, TypeOK, S!TypeOK, S!TokenRecord, S!TokenChars,
               T!TreesTyped, T!NoTree
<1> QED
  BY <1>1, <1>2, <1>3, <1>4 DEF Next

\* The types of the variables: no parser passes the end of the line, no token
\* has the type of a parser that makes none, and the tree of the line returns
\* only when all tokens are in it, whichever brackets they are.
THEOREM TypeCorrect == Spec => []TypeOK
<1>1. Types => TypeOK
  BY DEF Types
<1> QED
  BY <1>1, InitTypes, NextTypes, PTL DEF Spec

-----------------------------------------------------------------------------
(* Names that begin with a digit.                                           *)

LEMMA SameCharacters == S!Digits' = S!Digits /\ S!NameChars' = S!NameChars
BY DEF S!Digits, S!NameChars

LEMMA DigitNamesToken ==
  ASSUME S!TypeOK, DigitNames, NEW n \in 1..S!Rest, NEW t \in S!TokenRecord,
         TokenStep(n, t)
  PROVE  DigitNames'
<1> DEFINE m == Len(tokens)
<1>1. /\ m \in Nat /\ DOMAIN tokens = 1..m /\ tokens \in Seq(S!TokenRecord)
      /\ Len(text) \in Nat /\ pos \in 0..Len(text)
  BY LenProperties DEF S!TypeOK
<1>2. text' = text /\ pos' = pos + n /\ tokens' = tokens \o <<t>>
  BY DEF TokenStep, S!Consume
<1>3. /\ Len(tokens') = m + 1 /\ DOMAIN tokens' = 1..(m + 1) /\ tokens'[m + 1] = t
      /\ \A i \in 1..m : tokens'[i] = tokens[i]
  BY <1>1, <1>2
<1>4. S!Peek(0) = "." => t.type = "DOT"
  BY DEF TokenStep
<1>5. Named(n, t)
  BY DEF TokenStep
<1> HIDE DEF m
<1> SUFFICES ASSUME NEW i \in 1..(m + 1), tokens'[i].type = "ID", tokens'[i].text[1] \in S!Digits
    PROVE  /\ \A k \in DOMAIN tokens'[i].text : tokens'[i].text[k] \in S!NameChars
           /\ IF i < m + 1 THEN tokens'[i + 1].type = "DOT"
              ELSE pos' < Len(text') /\ text'[pos' + 0 + 1] = "."
  BY <1>3, SameCharacters DEF DigitNames, S!Peek
<1>6. CASE i = m + 1
  <2>1. /\ \A k \in DOMAIN t.text : t.text[k] \in S!NameChars
        /\ n < S!Rest /\ S!Peek(n) = "."
    BY <1>3, <1>5, <1>6 DEF Named
  <2>2. pos + n < Len(text) /\ text[pos + n + 1] = "."
    BY <1>1, <2>1 DEF S!Rest, S!Peek
  <2>3. pos + n + 0 + 1 = pos + n + 1 /\ ~(m + 1 < m + 1)
    BY <1>1
  <2> QED
    BY <1>2, <1>3, <1>6, <2>1, <2>2, <2>3
<1>7. CASE i # m + 1
  <2>1. i \in 1..m /\ i < m + 1 /\ tokens'[i] = tokens[i]
    BY <1>1, <1>3, <1>7
  <2>2. /\ \A k \in DOMAIN tokens[i].text : tokens[i].text[k] \in S!NameChars
        /\ IF i < m THEN tokens[i + 1].type = "DOT" ELSE S!Peek(0) = "."
    BY <1>1, <2>1 DEF DigitNames, m
  <2>3. tokens'[i + 1].type = "DOT"
    <3>1. CASE i < m
      <4>1. i + 1 \in 1..m
        BY <1>1, <2>1, <3>1
      <4> QED
        BY <1>3, <2>2, <3>1, <4>1
    <3>2. CASE ~(i < m)
      <4>1. i = m
        BY <1>1, <2>1, <3>2
      <4> QED
        BY <1>3, <1>4, <2>2, <3>2, <4>1
    <3> QED
      BY <3>1, <3>2
  <2> QED
    BY <2>1, <2>2, <2>3
<1> QED
  BY <1>6, <1>7

\* At the dot behind such a name no blank can be passed.
LEMMA DigitNamesSkip ==
  ASSUME S!TypeOK, DigitNames, S!Skip
  PROVE  DigitNames'
<1>1. S!Peek(0) # "." /\ tokens' = tokens
  BY SkipStep
<1> SUFFICES ASSUME NEW i \in DOMAIN tokens, tokens[i].type = "ID", tokens[i].text[1] \in S!Digits
    PROVE  /\ \A k \in DOMAIN tokens[i].text : tokens[i].text[k] \in S!NameChars
           /\ i < Len(tokens) /\ tokens[i + 1].type = "DOT"
  BY <1>1, SameCharacters DEF DigitNames
<1> QED
  BY <1>1 DEF DigitNames

LEMMA NextDigitNames == Types /\ DigitNames /\ [Next]_vars => DigitNames'
<1> SUFFICES ASSUME Types, DigitNames, [Next]_vars PROVE DigitNames'
  OBVIOUS
<1>1. S!TypeOK
  BY DEF Types, TypeOK
<1>2. CASE UNCHANGED <<text, pos, tokens>>
  BY <1>2, SameCharacters DEF DigitNames, S!Peek
<1>3. CASE Scan
  <2>1. S!Next
    BY <1>3 DEF Scan
  <2>2. CASE S!Symbol \/ S!Number \/ S!String \/ S!Name
    BY <1>1, <2>2, TokenSteps, DigitNamesToken
  <2>3. CASE S!Skip
    BY <1>1, <2>3, DigitNamesSkip
  <2>4. CASE S!Reject \/ S!Finish
    BY <1>2, <2>4 DEF S!Reject, S!Finish
  <2> QED
    BY <2>1, <2>2, <2>3, <2>4 DEF S!Next
<1>4. CASE StartTree
  BY <1>2, <1>4 DEF StartTree
<1>5. CASE Build
  BY <1>2, <1>5 DEF Build, T!Next, T!AddToken, T!OpenTree, T!CloseTree, T!EndOfTokens
<1>6. CASE UNCHANGED vars
  BY <1>2, <1>6 DEF vars
<1> QED
  BY <1>3, <1>4, <1>5, <1>6 DEF Next

\* A name begins with a digit only in front of a dot that ends what could have
\* been a number, and that dot becomes a token of its own: nothing else can be
\* read there.
THEOREM DigitsBeforeDots == Spec => []DigitNames
<1>1. Init => DigitNames
  BY DEF Init, S!Init, DigitNames
<1> QED
  BY <1>1, InitTypes, NextTypes, NextDigitNames, PTL DEF Spec

-----------------------------------------------------------------------------
(* Every character of the line.                                             *)

\* What the parsers of characters change does not concern the line.
LEMMA SameLine ==
  ASSUME text' = text
  PROVE  /\ \A a, b : Blank(a, b)' <=> Blank(a, b)
         /\ \A t, a, b : WrittenAs(t, a, b)' <=> WrittenAs(t, a, b)
<1>1. \A a, b : Blank(a, b)' <=> Blank(a, b)
  BY DEF Blank, S!Blanks
<1>2. \A a : Unescaped(a)' = Unescaped(a)
  BY DEF Unescaped, S!Escaped, S!Quote
<1>3. \A t, a, b : WrittenAs(t, a, b)' <=> WrittenAs(t, a, b)
  BY <1>2 DEF WrittenAs, S!Quote, S!NUL
<1> QED
  BY <1>1, <1>3

\* The places ends are where the tokens ts end in the part of the line that is
\* consumed.
Ends(ends, ts) ==
  /\ ends[0] = 0
  /\ \A i \in 1..Len(ts) : \E a \in ends[i - 1]..ends[i] :
       Blank(ends[i - 1], a) /\ WrittenAs(ts[i], a, ends[i])
  /\ Blank(ends[Len(ts)], pos)

Retold == \E ends \in [0..Len(tokens) -> 0..pos] : Ends(ends, tokens)

\* What is known of the tokens ts and of the places they end at, in the line a
\* step does not change, is what the step leaves behind when it leaves ts.
LEMMA RetoldBy ==
  ASSUME NEW ends, NEW ts, NEW q,
         text' = text, tokens' = ts, pos' = q,
         ends \in [0..Len(ts) -> 0..q],
         ends[0] = 0,
         \A i \in 1..Len(ts) : \E a \in ends[i - 1]..ends[i] :
           Blank(ends[i - 1], a) /\ WrittenAs(ts[i], a, ends[i]),
         Blank(ends[Len(ts)], q)
  PROVE  Retold'
<1>1. \A i \in 1..Len(ts) : \E a \in ends[i - 1]..ends[i] :
        Blank(ends[i - 1], a)' /\ WrittenAs(ts[i], a, ends[i])'
  BY SameLine
<1>2. Blank(ends[Len(ts)], q)'
  BY SameLine
<1>3. Ends(ends, tokens)'
  BY <1>1, <1>2 DEF Ends, Blank, WrittenAs
<1> QED
  BY <1>3 DEF Retold

LEMMA RetoldToken ==
  ASSUME S!TypeOK, Retold, NEW n \in 1..S!Rest, NEW t \in S!TokenRecord, TokenStep(n, t)
  PROVE  Retold'
<1> DEFINE m == Len(tokens)
<1>1. /\ m \in Nat /\ pos \in Nat /\ n \in Nat \ {0} /\ DOMAIN tokens = 1..m
      /\ tokens \in Seq(S!TokenRecord)
  BY LenProperties DEF S!TypeOK, S!Rest
<1>2. PICK ts, q : ts = tokens \o <<t>> /\ q = pos + n
  OBVIOUS
<1>3. pos' = q /\ tokens' = ts /\ text' = text /\ WrittenAs(t, pos, q)
  BY <1>2 DEF TokenStep, S!Consume
<1>4. PICK ends \in [0..m -> 0..pos] : Ends(ends, tokens)
  BY DEF Retold
<1>5. Len(ts) = m + 1 /\ ts[m + 1] = t /\ \A i \in 1..m : ts[i] = tokens[i]
  BY <1>1, <1>2
<1>6. PICK new : new = [i \in 0..(m + 1) |-> IF i = m + 1 THEN q ELSE ends[i]]
  OBVIOUS
<1>7. new \in [0..(m + 1) -> 0..q]
  <2> SUFFICES ASSUME NEW i \in 0..(m + 1) PROVE (IF i = m + 1 THEN q ELSE ends[i]) \in 0..q
    BY <1>6
  <2>1. i # m + 1 => ends[i] \in 0..pos
    BY <1>1, <1>4
  <2> QED
    BY <1>1, <1>2, <2>1
<1>8. new[m + 1] = q /\ \A i \in 0..m : new[i] = ends[i]
  BY <1>1, <1>6
<1>9. new[0] = 0
  BY <1>1, <1>4, <1>8 DEF Ends
<1>10. ASSUME NEW i \in 1..(m + 1)
       PROVE  \E a \in new[i - 1]..new[i] : Blank(new[i - 1], a) /\ WrittenAs(ts[i], a, new[i])
  <2>1. CASE i = m + 1
    <3>1. new[i] = q /\ new[i - 1] = ends[m] /\ ts[i] = t /\ ends[m] \in 0..pos
      BY <1>1, <1>4, <1>5, <1>8, <2>1
    <3>2. pos \in ends[m]..q /\ Blank(ends[m], pos)
      BY <1>1, <1>2, <1>4, <3>1 DEF Ends
    <3> QED
      BY <1>3, <3>1, <3>2
  <2>2. CASE i # m + 1
    <3>1. i \in 1..m /\ i \in 0..m /\ i - 1 \in 0..m
      BY <1>1, <2>2
    <3>2. new[i] = ends[i] /\ new[i - 1] = ends[i - 1] /\ ts[i] = tokens[i]
      BY <1>5, <1>8, <3>1
    <3> QED
      BY <1>4, <3>1, <3>2 DEF Ends
  <2> QED
    BY <2>1, <2>2
<1>11. Blank(new[m + 1], q)
  BY <1>1, <1>2, <1>8 DEF Blank
<1> HIDE DEF m
<1> QED
  BY <1>3, <1>5, <1>7, <1>9, <1>10, <1>11, RetoldBy

LEMMA RetoldSkip ==
  ASSUME S!TypeOK, Retold, S!Skip
  PROVE  Retold'
<1>1. PICK ts, q : ts = tokens /\ q = pos + 1
  OBVIOUS
<1>2. pos' = q /\ tokens' = ts /\ text' = text /\ S!Peek(0) \in S!Blanks
  BY <1>1, SkipStep
<1>3. pos \in Nat /\ Len(tokens) \in Nat /\ pos + 0 + 1 = pos + 1
  BY LenProperties DEF S!TypeOK
<1>4. PICK ends \in [0..Len(tokens) -> 0..pos] : Ends(ends, tokens)
  BY DEF Retold
<1>5. ends \in [0..Len(ts) -> 0..q]
  BY <1>1, <1>3, <1>4
<1>6. Blank(ends[Len(ts)], q)
  <2>1. text[pos + 1] \in S!Blanks
    BY <1>2, <1>3 DEF S!Peek
  <2>2. ends[Len(tokens)] \in 0..pos
    BY <1>3, <1>4
  <2>3. \A i \in (ends[Len(tokens)] + 1)..(pos + 1) : i = pos + 1 \/ i \in (ends[Len(tokens)] + 1)..pos
    BY <1>3, <2>2
  <2> QED
    BY <1>1, <1>4, <2>1, <2>3 DEF Ends, Blank
<1>7. /\ ends[0] = 0
      /\ \A i \in 1..Len(ts) : \E a \in ends[i - 1]..ends[i] :
           Blank(ends[i - 1], a) /\ WrittenAs(ts[i], a, ends[i])
  BY <1>1, <1>4 DEF Ends
<1> QED
  BY <1>2, <1>5, <1>6, <1>7, RetoldBy

LEMMA RetoldSame ==
  ASSUME Retold, UNCHANGED <<text, pos, tokens>>
  PROVE  Retold'
<1>1. PICK ts, q : ts = tokens /\ q = pos
  OBVIOUS
<1>2. PICK ends \in [0..Len(tokens) -> 0..pos] : Ends(ends, tokens)
  BY DEF Retold
<1> QED
  BY <1>1, <1>2, RetoldBy DEF Ends

LEMMA NextRetold == Types /\ Retold /\ [Next]_vars => Retold'
<1> SUFFICES ASSUME Types, Retold, [Next]_vars PROVE Retold'
  OBVIOUS
<1>1. S!TypeOK
  BY DEF Types, TypeOK
<1>2. CASE S!Symbol \/ S!Number \/ S!String \/ S!Name
  <2>1. PICK n \in 1..S!Rest, t \in S!TokenRecord : TokenStep(n, t)
    BY <1>1, <1>2, TokenSteps
  <2> QED
    BY <1>1, <2>1, RetoldToken
<1>3. CASE S!Skip
  BY <1>1, <1>3, RetoldSkip
<1>4. CASE S!Reject \/ S!Finish \/ StartTree \/ Build \/ UNCHANGED vars
  <2>1. UNCHANGED <<text, pos, tokens>>
    BY <1>4 DEF S!Reject, S!Finish, StartTree, Build, vars, T!Next, T!AddToken, T!OpenTree,
                T!CloseTree, T!EndOfTokens
  <2> QED
    BY <2>1, RetoldSame
<1> QED
  BY <1>2, <1>3, <1>4 DEF Next, Scan, S!Next

\* The sets of places at which so many tokens may end exist.
LEMMA ReachedSteps ==
  ASSUME S!TypeOK
  PROVE  /\ Reached[0] = {0}
         /\ \A i \in 1..Len(tokens) :
              Reached[i] = {b \in 0..pos :
                              \E p \in Reached[i - 1] : \E a \in p..b :
                                Blank(p, a) /\ WrittenAs(tokens[i], a, b)}
<1> DEFINE n == Len(tokens)
           V == SUBSET (0..pos)
           first == {0}
           More(i, before) == {b \in 0..pos :
                                 \E p \in before : \E a \in p..b :
                                   Blank(p, a) /\ WrittenAs(tokens[i], a, b)}
           step == [p \in (1..n) \X V |-> More(p[1], p[2])]
           F(f) == [i \in 0..n |-> IF i = 0 THEN {0}
                                   ELSE LET before == f[i - 1]
                                        IN {b \in 0..pos :
                                              \E p \in before : \E a \in p..b :
                                                Blank(p, a) /\ WrittenAs(tokens[i], a, b)}]
           reached == CHOOSE f : f = F(f)
<1>1. n \in Nat /\ pos \in Nat
  BY LenProperties DEF S!TypeOK
<1>2. Reached = reached
  BY Zenon DEF Reached
<1>3. first \in V
  BY <1>1
<1>4. \A i, before : More(i, before) \in V
  OBVIOUS
<1>5. \A f : F(f) = [i \in 0..n |-> IF i = 0 THEN {0} ELSE More(i, f[i - 1])]
  BY Zenon
<1> HIDE DEF More, F
<1>6. step \in [(1..n) \X V -> V]
  <2> HIDE DEF V
  <2> QED
    BY <1>4
<1>7. PICK f \in [0..n -> V] : Iterates(f, n, first, step)
  <2> HIDE DEF V, first, step, n
  <2> QED
    BY <1>1, <1>3, <1>6, Recursion
<1>8. f = F(f)
  <2>1. \A i \in 0..n : f[i] = IF i = 0 THEN first ELSE step[<<i, f[i - 1]>>]
    BY <1>7 DEF Iterates
  <2>2. ASSUME NEW i \in 0..n
        PROVE  f[i] = IF i = 0 THEN {0} ELSE More(i, f[i - 1])
    <3>1. CASE i = 0
      BY <2>1, <3>1
    <3>2. CASE i # 0
      <4>1. i \in 1..n /\ i - 1 \in 0..n
        BY <1>1, <3>2
      <4>2. f[i - 1] \in V
        BY <1>7, <4>1
      <4>3. step[<<i, f[i - 1]>>] = More(i, f[i - 1])
        BY <4>1, <4>2
      <4> QED
        BY <2>1, <3>2, <4>3
    <3> QED
      BY <3>1, <3>2
  <2>3. f = [i \in 0..n |-> IF i = 0 THEN {0} ELSE More(i, f[i - 1])]
    <3> HIDE DEF n, V
    <3> QED
      BY <1>7, <2>2
  <2> QED
    BY <1>5, <2>3
<1>9. reached = F(reached)
  BY <1>8
<1> HIDE DEF reached
<1>10. \A i \in 0..n : reached[i] = IF i = 0 THEN {0} ELSE More(i, reached[i - 1])
  <2>1. reached = [i \in 0..n |-> IF i = 0 THEN {0} ELSE More(i, reached[i - 1])]
    BY <1>5, <1>9
  <2> QED
    BY <2>1
<1>11. reached[0] = {0}
  BY <1>1, <1>10
<1>12. \A i \in 1..n : reached[i] = More(i, reached[i - 1])
  BY <1>1, <1>10
<1> QED
  BY <1>2, <1>11, <1>12 DEF More

LEMMA RetoldCharacters ==
  ASSUME S!TypeOK, Retold
  PROVE  EveryCharacter
<1> DEFINE n == Len(tokens)
<1>1. n \in Nat /\ pos \in Nat
  BY LenProperties DEF S!TypeOK
<1>2. PICK ends \in [0..n -> 0..pos] : Ends(ends, tokens)
  BY DEF Retold
<1> DEFINE N == {i \in 0..n : ends[i] \in Reached[i]}
<1>3. 0 \in N
  BY <1>1, <1>2, ReachedSteps DEF Ends
<1>4. ASSUME NEW i \in 1..n, i - 1 \in N
      PROVE  i \in N
  <2>1. i \in 0..n /\ ends[i] \in 0..pos /\ ends[i - 1] \in Reached[i - 1]
    BY <1>1, <1>2, <1>4
  <2>2. \E a \in ends[i - 1]..ends[i] : Blank(ends[i - 1], a) /\ WrittenAs(tokens[i], a, ends[i])
    BY <1>2 DEF Ends
  <2>3. ends[i] \in Reached[i]
    BY <2>1, <2>2, ReachedSteps
  <2> QED
    BY <2>1, <2>3
<1>5. N = 0..n
  <2>1. N \subseteq 0..n
    OBVIOUS
  <2> HIDE DEF N, n
  <2> QED
    BY <1>1, <1>3, <1>4, <2>1, UpwardInduction
<1>6. ends[n] \in Reached[n] /\ Blank(ends[n], pos)
  <2>1. n \in 0..n
    BY <1>1
  <2> QED
    BY <1>2, <1>5, <2>1 DEF Ends
<1> QED
  BY <1>6 DEF EveryCharacter

\* Whatever the line is, and as far as it is read: the tokens, written out
\* again with blanks between them, are the line, character by character.
THEOREM EveryCharacterKept == Spec => []EveryCharacter
<1>1. Init => Retold
  <2> SUFFICES ASSUME Init PROVE Retold
    OBVIOUS
  <2> DEFINE none == [i \in 0..0 |-> 0]
  <2>1. pos = 0 /\ tokens = <<>> /\ Len(tokens) = 0
    BY DEF Init, S!Init
  <2>2. none \in [0..Len(tokens) -> 0..pos]
    BY <2>1
  <2>3. none[0] = 0
    OBVIOUS
  <2>4. Ends(none, tokens)
    BY <2>1, <2>3 DEF Ends, Blank
  <2> QED
    BY <2>2, <2>4 DEF Retold
<1>2. Types /\ Retold => EveryCharacter
  BY RetoldCharacters DEF Types, TypeOK
<1> QED
  BY <1>1, <1>2, InitTypes, NextTypes, NextRetold, PTL DEF Spec


-----------------------------------------------------------------------------
(* How the running calls of parse_tree nest.                                *)

\* The calls in l have been made at the opening brackets at the places p of ts,
\* the outermost first, and each fills a tree of its bracket's kind.
Opened(l, ts, n, p) ==
  /\ p \in [2..Len(l) -> 1..n]
  /\ \A i, j \in 2..Len(l) : i < j => p[i] < p[j]
  /\ \A i \in 2..Len(l) : /\ ts[p[i]].type \in T!Openers
                          /\ l[i].type = T!TreeType(ts[p[i]].type)

CallsNest == \E p : Opened(open, tokens, taken, p)

\* Calls that stay or return keep their brackets.
LEMMA StillOpened ==
  ASSUME CallsNest, Len(open) \in Nat, Len(open') \in Nat, taken \in Nat, taken' \in Nat,
         Len(open') <= Len(open), taken <= taken', tokens' = tokens,
         \A i \in 2..Len(open') : open'[i].type = open[i].type
  PROVE  CallsNest'
<1> DEFINE n == Len(open)
           m == Len(open')
<1>1. PICK p : Opened(open, tokens, taken, p)
  BY DEF CallsNest
<1> DEFINE q == [i \in 2..m |-> p[i]]
<1>2. \A i \in 2..m : i \in 2..n
  OBVIOUS
<1>3. \A i \in 2..n : p[i] \in 1..taken
  BY <1>1 DEF Opened
<1>4. \A x \in 1..taken : x \in 1..taken'
  OBVIOUS
<1>5. q \in [2..m -> 1..taken']
  <2> HIDE DEF n, m
  <2> QED
    BY <1>2, <1>3, <1>4
<1>6. Opened(open', tokens', taken', q)
  BY <1>1, <1>2, <1>5 DEF Opened
<1> HIDE DEF q
<1> QED
  BY <1>6 DEF CallsNest

\* A new call is behind all others.
LEMMA OneMoreOpened ==
  ASSUME CallsNest, Len(open) \in Nat \ {0}, taken \in Nat, tokens' = tokens,
         T!Peek \in T!Openers, taken' = taken + 1, Len(open') = Len(open) + 1,
         \A i \in 1..Len(open) : open'[i] = open[i],
         open'[Len(open) + 1].type = T!TreeType(T!Peek)
  PROVE  CallsNest'
<1> DEFINE n == Len(open)
<1>1. PICK p : Opened(open, tokens, taken, p)
  BY DEF CallsNest
<1> DEFINE q == [i \in 2..(n + 1) |-> IF i = n + 1 THEN taken + 1 ELSE p[i]]
<1>2. \A i \in 2..(n + 1) : i # n + 1 => i \in 2..n /\ i \in 1..n
  OBVIOUS
<1>3. \A i \in 2..n : p[i] \in 1..taken
  BY <1>1 DEF Opened
<1>4. n + 1 \in 2..(n + 1) /\ n \in Nat /\ Len(open') = n + 1
  OBVIOUS
<1> HIDE DEF n
<1>5. \A i \in 2..(n + 1) : q[i] = IF i = n + 1 THEN taken + 1 ELSE p[i]
  OBVIOUS
<1>6. q \in [2..(n + 1) -> 1..(taken + 1)]
  BY <1>2, <1>3
<1> HIDE DEF q
<1>7. \A i, j \in 2..(n + 1) : i < j => q[i] < q[j]
  <2> SUFFICES ASSUME NEW i \in 2..(n + 1), NEW j \in 2..(n + 1), i < j
      PROVE q[i] < q[j]
    OBVIOUS
  <2>1. i # n + 1 /\ i \in 2..n /\ q[i] = p[i] /\ p[i] \in 1..taken
    BY <1>2, <1>3, <1>4, <1>5
  <2>2. CASE j = n + 1
    BY <1>5, <2>1, <2>2
  <2>3. CASE j # n + 1
    <3>1. j \in 2..n /\ q[j] = p[j]
      BY <1>2, <1>5, <2>3
    <3> QED
      BY <1>1, <2>1, <3>1 DEF Opened, n
  <2> QED
    BY <2>2, <2>3
<1>8. \A i \in 2..(n + 1) : /\ tokens[q[i]].type \in T!Openers
                            /\ open'[i].type = T!TreeType(tokens[q[i]].type)
  <2> SUFFICES ASSUME NEW i \in 2..(n + 1)
      PROVE tokens[q[i]].type \in T!Openers /\ open'[i].type = T!TreeType(tokens[q[i]].type)
    OBVIOUS
  <2>1. CASE i = n + 1
    BY <1>5, <2>1 DEF T!Peek, n
  <2>2. CASE i # n + 1
    <3>1. i \in 2..n /\ i \in 1..n /\ q[i] = p[i]
      BY <1>2, <1>5, <2>2
    <3> QED
      BY <1>1, <3>1 DEF Opened, n
  <2> QED
    BY <2>1, <2>2
<1>9. Opened(open', tokens', taken', q)
  BY <1>4, <1>6, <1>7, <1>8 DEF Opened
<1> QED
  BY <1>9 DEF CallsNest

\* Nothing is open before the tree is begun.
LEMMA NoneOpened ==
  ASSUME NEW l, NEW ts, NEW n, Len(l) \in 0..1
  PROVE  \E p : Opened(l, ts, n, p)
<1> DEFINE none == [i \in 2..Len(l) |-> 1]
<1>1. 2..Len(l) = {}
  OBVIOUS
<1>2. Opened(l, ts, n, none)
  BY <1>1 DEF Opened
<1> QED
  BY <1>2

LEMMA TreeNests ==
  ASSUME Types, CallsNest, T!Next
  PROVE  CallsNest'
<1>1. open # <<>>
  BY DEF T!Next, T!AddToken, T!OpenTree, T!CloseTree, T!EndOfTokens, T!AtToken
<1>2. Len(open) \in Nat \ {0} /\ taken \in Nat
  BY <1>1, Shape
<1>3. PICK U : open \in Seq(U)
  BY DEF Types
<1>4. \A i \in 2..Len(open) : i \in 1..Len(open)
  OBVIOUS
<1>5. CASE T!AddToken
  <2> DEFINE x == T!Add(open[Len(open)], tokens[taken + 1])
  <2>1. open' = [open EXCEPT ![Len(open)] = x] /\ taken' = taken + 1 /\ tokens' = tokens
    BY <1>5 DEF T!AddToken
  <2>2. x.type = open[Len(open)].type
    BY Added
  <2> HIDE DEF x
  <2>3. /\ open' \in Seq(U \cup {x}) /\ DOMAIN open' = 1..Len(open)
        /\ \A i \in 1..Len(open) : open'[i] = IF i = Len(open) THEN x ELSE open[i]
    BY <1>1, <1>3, <2>1, Replaced
  <2>4. Len(open') = Len(open)
    BY <1>2, <2>3, LenProperties
  <2>5. \A i \in 2..Len(open') : open'[i].type = open[i].type
    BY <1>4, <2>2, <2>3, <2>4
  <2>6. taken' \in Nat /\ taken <= taken' /\ Len(open') \in Nat /\ Len(open') <= Len(open)
    BY <1>2, <2>1, <2>4
  <2> QED
    BY <1>2, <2>1, <2>5, <2>6, StillOpened
<1>6. CASE T!OpenTree
  <2> DEFINE x == T!Tree(T!TreeType(T!Peek), <<>>)
  <2>1. open' = Append(open, x) /\ taken' = taken + 1 /\ tokens' = tokens /\ T!Peek \in T!Openers
    BY <1>6 DEF T!OpenTree
  <2>2. x.type = T!TreeType(T!Peek)
    BY DEF T!Tree
  <2> HIDE DEF x
  <2>3. /\ Len(open') = Len(open) + 1
        /\ \A i \in 1..Len(open) : open'[i] = open[i]
        /\ open'[Len(open) + 1] = x
    BY <1>3, <2>1, Grown
  <2> QED
    BY <1>2, <2>1, <2>2, <2>3, OneMoreOpened
<1>7. CASE T!CloseTree \/ T!EndOfTokens
  <2>1. T!Return /\ tokens' = tokens /\ taken' \in {taken, taken + 1}
    BY <1>7 DEF T!CloseTree, T!EndOfTokens
  <2>2. /\ Len(open') = Len(open) - 1
        /\ \A i \in 1..(Len(open) - 1) : open'[i].type = open[i].type
    BY <1>1, <2>1, Returned
  <2>3. \A i \in 2..Len(open') : i \in 1..(Len(open) - 1)
    BY <1>2, <2>2
  <2>4. taken' \in Nat /\ taken <= taken' /\ Len(open') \in Nat /\ Len(open') <= Len(open)
    BY <1>2, <2>1, <2>2
  <2> QED
    BY <1>2, <2>1, <2>2, <2>3, <2>4, StillOpened
<1> QED
  BY <1>5, <1>6, <1>7 DEF T!Next

LEMMA NextNests == Types /\ CallsNest /\ [Next]_vars => CallsNest'
<1> SUFFICES ASSUME Types, CallsNest, [Next]_vars PROVE CallsNest'
  OBVIOUS
<1>1. CASE Scan
  <2>1. scan = "scanning" /\ open' = open
    BY <1>1, ScanTypes DEF Types, TypeOK, Scan, tree
  <2>2. open' = <<>>
    BY <2>1 DEF Types
  <2>3. Len(open') \in 0..1
    BY <2>2
  <2> QED
    BY <2>3, NoneOpened DEF CallsNest
<1>2. CASE StartTree
  <2> DEFINE m == T!Master
  <2>1. open' = <<m>>
    BY <1>2 DEF StartTree
  <2> HIDE DEF m
  <2>2. Len(open') \in 0..1
    BY <2>1
  <2> QED
    BY <2>2, NoneOpened DEF CallsNest
<1>3. CASE Build
  BY <1>3, TreeNests DEF Build
<1>4. CASE UNCHANGED vars
  BY <1>4 DEF vars, CallsNest, Opened
<1> QED
  BY <1>1, <1>2, <1>3, <1>4 DEF Next

\* Every call of parse_tree that runs, but for that of the line, has been made
\* at an opening bracket of its own, which comes behind those of the calls
\* around it and is of the kind whose closing bracket the call waits for: so
\* the calls are never deeper than the brackets that were opened.
THEOREM CallsNestAsBrackets == Spec => []CallsNest
<1>1. Init => CallsNest
  <2> SUFFICES ASSUME Init PROVE CallsNest
    OBVIOUS
  <2>1. open = <<>>
    BY DEF Init
  <2>2. Len(open) \in 0..1
    BY <2>1
  <2> QED
    BY <2>2, NoneOpened DEF CallsNest
<1> QED
  BY <1>1, InitTypes, NextTypes, NextNests, PTL DEF Spec

=============================================================================
