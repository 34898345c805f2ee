----------------------------- MODULE KanNumbers -----------------------------
(***************************************************************************)
(* Numbers: what compile_literal makes of the text of one (compiler.cpp)   *)
(* and what the operators do with two (std/int.hpp).                       *)
(*                                                                         *)
(* An IntObject holds a float.  A number is an integer as long as a float  *)
(* is exact.  All other floats are one: fractions, minus zero, the         *)
(* infinities, what is no number, integers that may have been rounded, and *)
(* whatever an operation with an undefined result gives.                   *)
(***************************************************************************)
EXTENDS Integers, Sequences, FiniteSets

\* A float holds every integer up to this one.
Exact == 2^24

Other == Exact + 1

Numbers == -Exact..Other

\* An integer as a float.
Rounded(n) == IF n \in -Exact..Exact THEN n ELSE Other

-----------------------------------------------------------------------------
(* The text of a number.                                                    *)

LargestInt == 2 * (2^30 - 1) + 1

TooLarge == -1

Digit ==
  [c \in {"0", "1", "2", "3", "4", "5", "6", "7", "8", "9"} |->
     CASE c = "0" -> 0 [] c = "1" -> 1 [] c = "2" -> 2 [] c = "3" -> 3 [] c = "4" -> 4
       [] c = "5" -> 5 [] c = "6" -> 6 [] c = "7" -> 7 [] c = "8" -> 8 [] c = "9" -> 9]

CharAt(text, i) == SubSeq(text, i, i)

\* stoi, for a text that parse_number has found: the digits up to the first dot.
Whole(text) ==
  LET dots == {i \in 1..Len(text) : CharAt(text, i) = "."}
      end  == IF dots = {} THEN Len(text)
              ELSE (CHOOSE i \in dots : \A j \in dots : i <= j) - 1
      upTo[i \in 0..end] ==
        IF i = 0 THEN 0
        ELSE LET before == upTo[i - 1]
                 d == Digit[CharAt(text, i)]
             IN IF before = TooLarge \/ before > (LargestInt - d) \div 10
                THEN TooLarge ELSE 10 * before + d
  IN upTo[end]

\* Only a text with a dot is a FLOAT.
IsFloat(text) == \E i \in 1..Len(text) : CharAt(text, i) = "."

\* stof stops at a second dot.
Fractional(text) ==
  \E i \in 1..Len(text) :
    /\ CharAt(text, i) \notin {"0", "."}
    /\ Cardinality({j \in 1..i : CharAt(text, j) = "."}) = 1

\* stoi throws; stof takes any number of digits a line is likely to have.
OutOfRange(text) == ~IsFloat(text) /\ Whole(text) = TooLarge

\* The float that a text becomes.
NumberOf(text) ==
  IF Whole(text) = TooLarge \/ Fractional(text) THEN Other ELSE Rounded(Whole(text))

-----------------------------------------------------------------------------
(* The operators.                                                           *)

\* The bits of a number in two's complement; the last is the sign.
Width == 26

Bit(n, i) == (n \div 2^i) % 2

\* The number with these bits.
FromBits(bit) ==
  LET upTo[i \in 0..(Width - 1)] ==
        IF i = 0 THEN bit[0]
        ELSE upTo[i - 1] + (IF i = Width - 1 THEN -bit[i] ELSE bit[i]) * 2^i
  IN upTo[Width - 1]

\* Two numbers may have more bits together than a float holds.
BitwiseOf(op, l, r) ==
  Rounded(
    FromBits([i \in 0..(Width - 1) |->
                LET both == Bit(l, i) + Bit(r, i)
                IN CASE op = "BIN_ORB"  -> IF both > 0 THEN 1 ELSE 0
                     [] op = "BIN_ANDB" -> IF both = 2 THEN 1 ELSE 0
                     [] op = "BIN_XORB" -> IF both = 1 THEN 1 ELSE 0]))

\* Minus zero is zero times or divided by something negative.
Product(l, r) ==
  IF l * r = 0 /\ (l < 0 \/ r < 0) THEN Other ELSE Rounded(l * r)

Quotient(l, r) ==
  LET q == IF r > 0 THEN l \div r ELSE (-l) \div (-r)
  IN IF r = 0 \/ (l = 0 /\ r < 0) THEN Other
     ELSE IF q * r = l THEN q ELSE Other

\* Undefined for a negative number, a negative count and one of 32 or more.
LeftShift(l, r) ==
  IF r \in 0..24 /\ l \in 0..(Exact \div 2^r) THEN l * 2^r ELSE Other

RightShift(l, r) ==
  CASE r \in 0..24  -> l \div 2^r
    [] r \in 25..31 -> IF l < 0 THEN -1 ELSE 0
    [] OTHER        -> Other

\* KanInt_PerformBinOperation.
Performed(op, l, r) ==
  IF Other \in {l, r} THEN Other
  ELSE CASE op = "PLUSB"        -> Rounded(l + r)
         [] op = "MINUSB"       -> Rounded(l - r)
         [] op = "MULB"         -> Product(l, r)
         [] op = "DIVB"         -> Quotient(l, r)
         [] op = "LEFT_SHIFTB"  -> LeftShift(l, r)
         [] op = "RIGHT_SHIFTB" -> RightShift(l, r)
         [] OTHER               -> BitwiseOf(op, l, r)

\* KanInt_PerformUnaryOperation.
Applied(op, n) ==
  CASE op = "UPLUS" -> n
    [] op = "UMINUS" -> IF n \in {0, Other} THEN Other ELSE -n
    [] op = "BIN_NOTB" -> IF n = Other THEN Other ELSE Rounded(-n - 1)

=============================================================================
