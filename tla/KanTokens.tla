----------------------------- MODULE KanTokens -----------------------------
(***************************************************************************)
(* How a line of text becomes tokens: parse_tokens and the parsers of      *)
(* Tokenizers::default_all_incl (parser.hpp, parser.cpp).                  *)
(*                                                                         *)
(* The parsers are tried in the order of their list on the text behind the *)
(* position; the first that succeeds appends its token and moves the       *)
(* position.  A character is a string of length one, a text a sequence of  *)
(* characters, and NUL the character with the code 0.                      *)
(***************************************************************************)
EXTENDS Integers, Sequences

VARIABLES
  text,   \* the line
  pos,    \* how many of its characters are consumed
  tokens, \* the tokens found so far
  scan    \* "scanning", "done" or "rejected"

NUL == "NUL"

Digits == {"0", "1", "2", "3", "4", "5", "6", "7", "8", "9"}

\* allowed_chars of parse_id.
NameChars ==
  Digits \cup
  {"_", "q", "w", "e", "r", "t", "y", "u", "i", "o", "p", "a", "s", "d", "f",
   "g", "h", "j", "k", "l", "z", "x", "c", "v", "b", "n", "m",
   "Q", "W", "E", "R", "T", "Y", "U", "I", "O", "P", "A", "S", "D", "F",
   "G", "H", "J", "K", "L", "Z", "X", "C", "V", "B", "N", "M"}

Blanks == {"\n", "\t", " "}

Quote == "\""

-----------------------------------------------------------------------------
(* The parsers, as the number of characters they consume: 0 is failure.     *)

Rest == Len(text) - pos

\* The character o places behind the position.
Peek(o) == text[pos + o + 1]

\* How many of the next characters are in chars.
RunOf(chars) ==
  CHOOSE n \in 0..Rest :
    /\ \A o \in 0..(n - 1) : Peek(o) \in chars
    /\ n < Rest => Peek(n) \notin chars

\* The two-character tokens of the list, none of them POW.
PairType(c, d) ==
  CASE c = "=" /\ d = "=" -> "EQUALEQUAL"
    [] c = ">" /\ d = "=" -> "GREATER_OR_EQUAL"
    [] c = "<" /\ d = "=" -> "LESSER_OR_EQUAL"
    [] c = "!" /\ d = "=" -> "NOT_EQUAL"
    [] c = "<" /\ d = "<" -> "LEFT_SHIFT"
    [] c = ">" /\ d = ">" -> "RIGHT_SHIFT"
    [] OTHER -> "SKIP"

\* The one-character tokens, none of them LESSER or GREATER.
CharType(c) ==
  CASE c = "(" -> "OPEN_BRACKET" [] c = ")" -> "CLOSE_BRACKET"
    [] c = "{" -> "OPEN_BRACE"   [] c = "}" -> "CLOSE_BRACE"
    [] c = "=" -> "EQUAL"        [] c = "+" -> "PLUS"
    [] c = "-" -> "MINUS"        [] c = "*" -> "MUL"
    [] c = "/" -> "DIV"          [] c = "|" -> "BIN_OR"
    [] c = "^" -> "BIN_XOR"      [] c = "&" -> "BIN_AND"
    [] c = "~" -> "BIN_NOT"      [] c = ":" -> "COLON"
    [] c = ";" -> "SEMICOLON"    [] c = "," -> "COMMA"
    [] c = "." -> "DOT"          [] OTHER -> "SKIP"

\* Variant: a single = is tried before ==.
SymbolLength_EqualFirst ==
  IF CharType(Peek(0)) # "SKIP" THEN 1
  ELSE IF Rest > 1 /\ PairType(Peek(0), Peek(1)) # "SKIP" THEN 2
  ELSE 0

\* A pair goes before its first character.
SymbolLength ==
  IF Rest > 1 /\ PairType(Peek(0), Peek(1)) # "SKIP" THEN 2
  ELSE IF CharType(Peek(0)) # "SKIP" THEN 1
  ELSE 0

\* parse_number takes every digit and dot there is and fails if a dot is last.
NumberLength ==
  LET n == RunOf(Digits \cup {"."})
  IN IF Peek(0) # "." /\ n > 0 /\ Peek(n - 1) \in Digits THEN n ELSE 0

Escaped(c) ==
  CASE c = "n" -> "\n" [] c = "t" -> "\t" [] c = Quote -> Quote

\* parse_string from the character o on: what it has read, and how it ends.
\* An escape at the end of the text throws.
StringFrom ==
  LET Ends(how, o) == [how |-> how, chars |-> <<>>, length |-> o]
      from[o \in 1..(Rest + 1)] ==
        IF o >= Rest THEN Ends("fails", o + 1)
        ELSE IF Peek(o) \in {Quote, NUL} THEN Ends("ends", o + 1)
        ELSE IF Peek(o) = "\\" /\ o + 1 >= Rest THEN Ends("throws", 0)
        ELSE IF Peek(o) = "\\" /\ Peek(o + 1) \notin {"n", "t", Quote}
             THEN Ends("fails", 0)
        ELSE LET wide == IF Peek(o) = "\\" THEN 2 ELSE 1
                 c == IF wide = 2 THEN Escaped(Peek(o + 1)) ELSE Peek(o)
                 more == from[o + wide]
             IN [more EXCEPT !.chars = <<c>> \o @]
  IN from

IsString == Peek(0) = Quote

\* parse_id looks at the character behind the name before it knows whether
\* there is one.
NameLength == RunOf(NameChars)

NameThrows == NameLength = Rest

-----------------------------------------------------------------------------
(* parse_tokens.                                                            *)

Token(type, chars) == [type |-> type, text |-> chars]

\* KanParse says which lines there are.
Init ==
  /\ pos = 0
  /\ tokens = <<>>
  /\ scan = "scanning"

Scanning == scan = "scanning" /\ pos < Len(text)

\* The parser consumed n characters and appended the tokens new.
Consume(n, new) ==
  /\ pos' = pos + n
  /\ tokens' = tokens \o new
  /\ UNCHANGED <<text, scan>>

\* The next n characters.
Taken(n) == SubSeq(text, pos + 1, pos + n)

Symbol ==
  /\ Scanning
  /\ SymbolLength > 0
  /\ LET n == SymbolLength
         type == IF n = 2 THEN PairType(Peek(0), Peek(1)) ELSE CharType(Peek(0))
     IN Consume(n, <<Token(type, Taken(n))>>)

Number ==
  /\ Scanning
  /\ SymbolLength = 0
  /\ NumberLength > 0
  /\ LET n == NumberLength
         dots == {o \in 0..(n - 1) : Peek(o) = "."}
     IN Consume(n, <<Token(IF dots = {} THEN "INTEGER" ELSE "FLOAT", Taken(n))>>)

\* Variant: the quote that ends the string is not consumed.
String_KeepsQuote ==
  /\ Scanning
  /\ IsString
  /\ StringFrom[1].how = "ends"
  /\ Consume(StringFrom[1].length - 1, <<Token("STRING", StringFrom[1].chars)>>)

String ==
  /\ Scanning
  /\ IsString
  /\ StringFrom[1].how = "ends"
  /\ Consume(StringFrom[1].length, <<Token("STRING", StringFrom[1].chars)>>)

\* Variant: the blank is looked at and not passed.
Skip_Stays ==
  /\ Scanning
  /\ Peek(0) \in Blanks
  /\ Consume(0, <<>>)

Skip ==
  /\ Scanning
  /\ Peek(0) \in Blanks
  /\ Consume(1, <<>>)

\* Variant: names are tried before numbers.
Name_First ==
  /\ Scanning
  /\ NameLength > 0
  /\ ~NameThrows
  /\ Consume(NameLength, <<Token("ID", Taken(NameLength))>>)

\* A number comes before a name that begins with a digit.
Name ==
  /\ Scanning
  /\ NumberLength = 0
  /\ NameLength > 0
  /\ ~NameThrows
  /\ Consume(NameLength, <<Token("ID", Taken(NameLength))>>)

\* No parser knows the character, or one looks behind the end of the text.
Reject ==
  /\ Scanning
  /\ SymbolLength = 0 /\ NumberLength = 0
  /\ \/ IsString /\ StringFrom[1].how # "ends"
     \/ ~IsString /\ Peek(0) \notin Blanks \cup NameChars
     \/ NameLength > 0 /\ NameThrows
  /\ scan' = "rejected"
  /\ UNCHANGED <<text, pos, tokens>>

Finish ==
  /\ scan = "scanning"
  /\ pos >= Len(text)
  /\ scan' = "done"
  /\ UNCHANGED <<text, pos, tokens>>

Next == Symbol \/ Number \/ String \/ Skip \/ Name \/ Reject \/ Finish

-----------------------------------------------------------------------------
(* Properties.                                                              *)

SymbolTypes ==
  {"EQUALEQUAL", "GREATER_OR_EQUAL", "LESSER_OR_EQUAL", "NOT_EQUAL", "LEFT_SHIFT",
   "RIGHT_SHIFT", "OPEN_BRACKET", "CLOSE_BRACKET", "OPEN_BRACE", "CLOSE_BRACE",
   "EQUAL", "PLUS", "MINUS", "MUL", "DIV", "BIN_OR", "BIN_XOR", "BIN_AND",
   "BIN_NOT", "COLON", "SEMICOLON", "COMMA", "DOT"}

WordTypes == {"INTEGER", "FLOAT", "STRING", "ID"}

\* Tokens are made of characters of the line and of what escapes stand for.
TokenChars == {text[i] : i \in DOMAIN text} \cup {"\n", "\t", Quote}

TokenRecord == [type : SymbolTypes \cup WordTypes, text : Seq(TokenChars)]

\* The types of the variables; the position never passes the end of the text.
TypeOK ==
  /\ text \in Seq(STRING)
  /\ pos \in 0..Len(text)
  /\ tokens \in Seq(TokenRecord)
  /\ scan \in {"scanning", "done", "rejected"}

=============================================================================
