-------------------------- MODULE KanStreamProofs --------------------------
(***************************************************************************)
(* Proofs about KanStream, for all commands and functions, blocks in       *)
(* blocks to any depth and every size of the copying buffer: the types of  *)
(* its variables, that the machine reads every command the compiler wrote, *)
(* passes the end of the stream only behind one that does not fit, and     *)
(* that the stream implements the log.                                     *)
(***************************************************************************)
EXTENDS KanStream, KanInduction, SequenceTheorems

-----------------------------------------------------------------------------
(* Integers and their bytes.                                                *)

Bytestrings == Seq(Byte256)

LEMMA Joined ==
  /\ <<>> \in Bytestrings
  /\ \A s, t \in Bytestrings :
       /\ s \o t \in Bytestrings /\ Len(s \o t) = Len(s) + Len(t)
       /\ \A i \in 1..Len(s) : (s \o t)[i] = s[i]
       /\ \A i \in 1..Len(t) : (s \o t)[Len(s) + i] = t[i]
BY DEF Bytestrings

LEMMA Lengths ==
  \A s \in Bytestrings : Len(s) \in Nat /\ DOMAIN s = 1..Len(s)
                           /\ \A i \in 1..Len(s) : s[i] \in Byte256
BY LenProperties, ElementOfSeq DEF Bytestrings

LEMMA Powers == 256^0 = 1 /\ 256^1 = 256 /\ 256^2 = 65536 /\ 256^3 = 256 * 65536
  BY SMT

\* int_to_bytes leaves a byte of a cleared buffer alone only where it is zero.
LEMMA OneByte ==
  ASSUME NEW n \in Nat
  PROVE  Integral(n, 1) = <<n % 256>> /\ Integral(n, 1) \in Bytestrings /\ Len(Integral(n, 1)) = 1
<1>1. Cast(n, 1) = n % 256 /\ n % 256 \in 0..255
  BY Powers DEF Cast
<1>2. Integral(n, 1) = [i \in 1..1 |-> ((n % 256) \div 256^(i - 1)) % 256]
  BY <1>1 DEF Integral, IntToBytes
<1>3. \A i \in 1..1 : ((n % 256) \div 256^(i - 1)) % 256 = n % 256
  BY <1>1, Powers
<1>4. Integral(n, 1) = [i \in 1..1 |-> n % 256]
  BY <1>2, <1>3
<1>5. Integral(n, 1) = <<n % 256>>
  BY <1>4
<1> DEFINE b == n % 256
<1>6. b \in Byte256
  BY <1>1 DEF Byte256
<1> HIDE DEF b
<1>7. <<b>> \in Bytestrings /\ Len(<<b>>) = 1
  BY <1>6 DEF Bytestrings
<1> QED
  BY <1>5, <1>7 DEF b

\* The bytes of a number, the last first.
Digit(n, i) == (n \div 256^(i - 1)) % 256

LEMMA Digits ==
  ASSUME NEW n \in Nat, NEW i \in 1..4
  PROVE  /\ Digit(n, i) \in Byte256
         /\ n \div 256^(i - 1) = 0 => Digit(n, i) = 0
<1>1. CASE i = 1
  BY <1>1, Powers DEF Digit, Byte256
<1>2. CASE i = 2
  BY <1>2, Powers DEF Digit, Byte256
<1>3. CASE i = 3
  BY <1>3, Powers DEF Digit, Byte256
<1>4. CASE i = 4
  BY <1>4, Powers DEF Digit, Byte256
<1> QED
  BY <1>1, <1>2, <1>3, <1>4

LEMMA CastType == ASSUME NEW n \in Nat, NEW bytes \in 1..4 PROVE Cast(n, bytes) \in Nat
<1>1. CASE bytes = 4
  BY <1>1 DEF Cast
<1>2. CASE bytes = 1
  BY <1>2, Powers DEF Cast
<1>3. CASE bytes = 2
  BY <1>3, Powers DEF Cast
<1>4. CASE bytes = 3
  BY <1>4, Powers DEF Cast
<1> QED
  BY <1>1, <1>2, <1>3, <1>4

LEMMA ManyBytes ==
  ASSUME NEW n \in Nat, NEW bytes \in 1..4
  PROVE  /\ Integral(n, bytes) = [i \in 1..bytes |-> Digit(Cast(n, bytes), i)]
         /\ Integral(n, bytes) \in Bytestrings /\ Len(Integral(n, bytes)) = bytes
<1> DEFINE m == Cast(n, bytes)
           f == [i \in 1..bytes |-> IF i = 1 \/ m \div 256^(i - 1) # 0
                                    THEN (m \div 256^(i - 1)) % 256
                                    ELSE [j \in 1..bytes |-> 0][i]]
<1>1. Integral(n, bytes) = f
  BY DEF Integral, IntToBytes
<1>2. m \in Nat
  BY CastType
<1> HIDE DEF m
<1>3. \A i \in 1..bytes : f[i] = Digit(m, i) /\ Digit(m, i) \in Byte256
  <2> SUFFICES ASSUME NEW i \in 1..bytes PROVE f[i] = Digit(m, i) /\ Digit(m, i) \in Byte256
    OBVIOUS
  <2>1. i \in 1..4
    OBVIOUS
  <2>2. /\ Digit(m, i) \in Byte256
        /\ m \div 256^(i - 1) = 0 => Digit(m, i) = 0
    BY <1>2, <2>1, Digits
  <2>3. CASE i = 1 \/ m \div 256^(i - 1) # 0
    BY <2>2, <2>3 DEF Digit
  <2>4. CASE ~(i = 1 \/ m \div 256^(i - 1) # 0)
    BY <2>2, <2>4
  <2> QED
    BY <2>3, <2>4, <2>2
<1>4. f = [i \in 1..bytes |-> Digit(m, i)]
  BY <1>3
<1> HIDE DEF f
<1>5. [i \in 1..bytes |-> Digit(m, i)] \in Bytestrings /\ Len([i \in 1..bytes |-> Digit(m, i)]) = bytes
  BY <1>3 DEF Bytestrings
<1> QED
  BY <1>1, <1>4, <1>5 DEF m

\* Reading two bytes.
LEMMA TwoRead ==
  ASSUME NEW b \in Bytestrings, Len(b) = 2
  PROVE  BytesToInt(b) = b[1] + 256 * b[2]
<1> DEFINE F(f) == [i \in 1..Len(b) |-> IF i = Len(b) THEN b[i] ELSE b[i] + 256 * f[i + 1]]
           from == CHOOSE f : f = F(f)
           g == [i \in 1..2 |-> IF i = 2 THEN b[2] ELSE b[1] + 256 * b[2]]
<1>1. g = F(g)
  OBVIOUS
<1>2. from = F(from)
  BY <1>1
<1>3. BytesToInt(b) = from[1]
  BY DEF BytesToInt
<1> HIDE DEF from
<1>4. from[2] = b[2] /\ from[1] = b[1] + 256 * from[2]
  BY <1>2
<1> QED
  BY <1>3, <1>4

LEMMA FourRead ==
  ASSUME NEW b \in Bytestrings, Len(b) = 4, b[4] <= 127
  PROVE  BytesToInt(b) = b[1] + 256 * (b[2] + 256 * (b[3] + 256 * b[4]))
<1> DEFINE F(f) == [i \in 1..Len(b) |-> IF i = Len(b) THEN b[i] ELSE b[i] + 256 * f[i + 1]]
           from == CHOOSE f : f = F(f)
           g == [i \in 1..4 |-> IF i = 4 THEN b[4]
                                ELSE IF i = 3 THEN b[3] + 256 * b[4]
                                ELSE IF i = 2 THEN b[2] + 256 * (b[3] + 256 * b[4])
                                ELSE b[1] + 256 * (b[2] + 256 * (b[3] + 256 * b[4]))]
<1>1. g = F(g)
  OBVIOUS
<1>2. from = F(from)
  BY <1>1
<1>3. BytesToInt(b) = from[1]
  <2>1. ~(Len(b) = 4 /\ b[4] > 127)
    <3>1. b[4] \in Byte256
      BY Lengths
    <3> QED
      BY <3>1 DEF Byte256
  <2>2. BytesToInt(b) = IF Len(b) = 4 /\ b[4] > 127 THEN Huge ELSE from[1]
    BY DEF BytesToInt
  <2> QED
    BY <2>1, <2>2
<1> HIDE DEF from
<1>4. /\ from[4] = b[4] /\ from[3] = b[3] + 256 * from[4]
      /\ from[2] = b[2] + 256 * from[3] /\ from[1] = b[1] + 256 * from[2]
  BY <1>2
<1> QED
  BY <1>3, <1>4

\* What is written to two or four bytes is read again.
LEMMA TwoBytes ==
  ASSUME NEW n \in Nat, n < 65536
  PROVE  BytesToInt(Integral(n, 2)) = n
<1>1. Cast(n, 2) = n
  BY Powers DEF Cast
<1> DEFINE b == Integral(n, 2)
<1>2. b = [i \in 1..2 |-> Digit(n, i)] /\ b \in Bytestrings /\ Len(b) = 2
  BY <1>1, ManyBytes
<1> HIDE DEF b
<1>3. b[1] = n % 256 /\ b[2] = (n \div 256) % 256
  BY <1>2, Powers DEF Digit
<1>4. BytesToInt(b) = b[1] + 256 * b[2]
  BY ONLY <1>2, TwoRead
<1>5. (n % 256) + 256 * ((n \div 256) % 256) = n
  OBVIOUS
<1> QED
  BY <1>3, <1>4, <1>5 DEF b

Bound == 128 * 256 * 65536

LEMMA Parts ==
  \A n \in Nat : n < Bound =>
    /\ (n \div (256 * 65536)) % 256 <= 127
    /\ (n % 256) + 256 * (((n \div 256) % 256)
         + 256 * (((n \div 65536) % 256) + 256 * ((n \div (256 * 65536)) % 256))) = n
<1> SUFFICES ASSUME NEW n \in Nat, n < Bound
    PROVE  /\ (n \div (256 * 65536)) % 256 <= 127
           /\ (n % 256) + 256 * (((n \div 256) % 256)
                + 256 * (((n \div 65536) % 256) + 256 * ((n \div (256 * 65536)) % 256))) = n
  OBVIOUS
<1> DEFINE a == n \div 256
           c == n \div 65536
           d == n \div (256 * 65536)
<1>1. n \in Nat /\ n < 128 * 256 * 65536
  BY SMT DEF Bound
<1>2. a \in Nat /\ n = 256 * a + (n % 256)
  BY SMT
<1>3. c \in Nat /\ a = 256 * c + (a % 256)
  BY <1>1, SMT
<1>4. d \in Nat /\ c = 256 * d + (c % 256)
  BY <1>1, SMT
<1>5. d < 128 /\ d % 256 = d
  BY <1>1, <1>4, SMT
<1> QED
  BY <1>2, <1>3, <1>4, <1>5, SMT

LEMMA FourBytes ==
  ASSUME NEW n \in 0..Huge
  PROVE  BytesToInt(Integral(n, 4)) = n
<1>0. n \in Nat /\ n < Bound
  BY SMT DEF Huge, Bound
<1>1. Cast(n, 4) = n
  BY DEF Cast
<1> DEFINE b == Integral(n, 4)
<1>2. b = [i \in 1..4 |-> Digit(n, i)] /\ b \in Bytestrings /\ Len(b) = 4
  BY <1>0, <1>1, ManyBytes
<1> HIDE DEF b
<1>3. /\ b[1] = n % 256 /\ b[2] = (n \div 256) % 256
      /\ b[3] = (n \div 65536) % 256 /\ b[4] = (n \div (256 * 65536)) % 256
  BY <1>2, <1>0, Powers DEF Digit
<1>4. /\ (n \div (256 * 65536)) % 256 <= 127
      /\ (n % 256) + 256 * (((n \div 256) % 256)
           + 256 * (((n \div 65536) % 256) + 256 * ((n \div (256 * 65536)) % 256))) = n
  BY ONLY <1>0, Parts
<1>5. b[4] <= 127
  BY ONLY <1>3, <1>4
<1>6. BytesToInt(b) = b[1] + 256 * (b[2] + 256 * (b[3] + 256 * b[4]))
  BY ONLY <1>2, <1>5, FourRead
<1> QED
  BY ONLY <1>3, <1>4, <1>6 DEF b

-----------------------------------------------------------------------------
(* The commands that bytes spell.                                           *)

Names == {Opcodes[b] : b \in DOMAIN Opcodes} \cup {"NOP", "STRAY"}

ItemRecord ==
  [op : Names, n : 0..Huge, text : Bytestrings, names : Seq(Bytestrings), body : Bytestrings]

Table == {Opcodes[b] : b \in DOMAIN Opcodes}

Tabled(op) == op \in Table

Blockless(op) == op \in Table \ {"DEFINE_FUNCTION"}

\* A command without a block, as its operands are written.
Command(c) ==
  /\ c \in ItemRecord /\ Blockless(c.op)
  /\ c.op \in SizedOps => c = Item(c.op, 0, c.text, <<>>, <<>>)
  /\ c.op = "PUSH_INTEGRAL" =>
       Len(c.text) = 1 /\ c = Item("PUSH_INTEGRAL", c.n, c.text, <<>>, <<>>)
  /\ c.op = "CALLB" => c = Item("CALLB", c.n, <<>>, <<>>, <<>>)
  /\ c.op \in SizedOps \cup {"PUSH_INTEGRAL", "CALLB"} \/ c = Plain(c.op)

\* The bytes in front of the body of a function.
Header(f, size) ==
  Integral(Opcode("DEFINE_FUNCTION"), 1) \o Integral(size, 4)
    \o Integral(Len(f.text), 1) \o Integral(Len(f.names), 1) \o f.text

FunctionBytes(c) ==
  (Header(c, Len(c.body)) \o SignatureStream(c.names).data) \o c.body

\* The bytes b are all of the command c that a reader in step would find there.
Spells(b, c) ==
  /\ c \in ItemRecord
  /\ b \in Bytestrings /\ b # <<>>
  /\ CASE c.op = "DEFINE_FUNCTION" ->
            c = Item(c.op, 0, c.text, c.names, c.body) /\ b = FunctionBytes(c)
       [] c.op \in Reading \ {"DEFINE_FUNCTION"} -> Command(c) /\ b = Encode(c)
       [] OTHER -> /\ Len(b) = 1 /\ c = Plain(c.op)
                   /\ c.op = "STRAY" \/ c.op = OpName(b[1])

\* The bytes b stand in d behind the first o.
At(d, o, b) == o + Len(b) <= Len(d) /\ \A i \in 1..Len(b) : d[o + i] = b[i]

Piece(d, from, to, c) ==
  \E b \in Bytestrings : Spells(b, c) /\ At(d, from, b) /\ to = from + Len(b)

\* Cut at these places, the bytes d spell the commands of the log.
Divides(cut, d, log) ==
  /\ cut \in [0..Len(log) -> Nat]
  /\ cut[0] = 0 /\ cut[Len(log)] = Len(d)
  /\ \A j, k \in 0..Len(log) : j <= k => cut[j] <= cut[k]
  /\ \A k \in 1..Len(log) : Piece(d, cut[k - 1], cut[k], log[k])

Divided(d, log) == \E cut : Divides(cut, d, log)

Logs == Seq(ItemRecord)

LEMMA PieceInFront ==
  ASSUME NEW s \in Bytestrings, NEW t \in Bytestrings, NEW o \in Nat, NEW p, NEW c,
         Piece(s, o, p, c)
  PROVE  Piece(s \o t, o, p, c)
<1>1. PICK b \in Bytestrings : Spells(b, c) /\ At(s, o, b) /\ p = o + Len(b)
  BY DEF Piece
<1>2. At(s \o t, o, b)
  <2>1. /\ Len(s) \in Nat /\ Len(t) \in Nat /\ Len(b) \in Nat
        /\ Len(s \o t) = Len(s) + Len(t) /\ \A i \in 1..Len(s) : (s \o t)[i] = s[i]
    BY Lengths, Joined
  <2>2. o + Len(b) <= Len(s) /\ \A i \in 1..Len(b) : s[o + i] = b[i]
    BY <1>1 DEF At
  <2>3. \A i \in 1..Len(b) : (s \o t)[o + i] = b[i]
    <3> SUFFICES ASSUME NEW i \in 1..Len(b) PROVE (s \o t)[o + i] = b[i]
      OBVIOUS
    <3>1. o + i \in 1..Len(s)
      BY <2>1, <2>2
    <3> QED
      BY <2>1, <2>2, <3>1
  <2> QED
    BY <2>1, <2>2, <2>3 DEF At
<1> QED
  BY <1>1, <1>2 DEF Piece

LEMMA PieceBehind ==
  ASSUME NEW s \in Bytestrings, NEW t \in Bytestrings, NEW o \in Nat, NEW p, NEW c,
         Piece(t, o, p, c)
  PROVE  Piece(s \o t, Len(s) + o, Len(s) + p, c)
<1>1. PICK b \in Bytestrings : Spells(b, c) /\ At(t, o, b) /\ p = o + Len(b)
  BY DEF Piece
<1>0. /\ Len(s) \in Nat /\ Len(t) \in Nat /\ Len(b) \in Nat
      /\ Len(s \o t) = Len(s) + Len(t) /\ \A i \in 1..Len(t) : (s \o t)[Len(s) + i] = t[i]
  BY Lengths, Joined
<1>2. At(s \o t, Len(s) + o, b)
  <2>2. o + Len(b) <= Len(t) /\ \A i \in 1..Len(b) : t[o + i] = b[i]
    BY <1>1 DEF At
  <2>3. \A i \in 1..Len(b) : (s \o t)[(Len(s) + o) + i] = b[i]
    <3> SUFFICES ASSUME NEW i \in 1..Len(b) PROVE (s \o t)[(Len(s) + o) + i] = b[i]
      OBVIOUS
    <3>1. o + i \in 1..Len(t) /\ (Len(s) + o) + i = Len(s) + (o + i)
      BY <1>0, <2>2
    <3> QED
      BY <1>0, <2>2, <3>1
  <2> QED
    BY <1>0, <2>2, <2>3 DEF At
<1>3. Len(s) + p = (Len(s) + o) + Len(b)
  BY <1>0, <1>1
<1> QED
  BY <1>1, <1>2, <1>3 DEF Piece

\* Two pieces of code behind each other.
LEMMA DividedJoined ==
  ASSUME NEW s \in Bytestrings, NEW l \in Logs, Divided(s, l),
         NEW t \in Bytestrings, NEW m \in Logs, Divided(t, m)
  PROVE  Divided(s \o t, l \o m)
<1>1. PICK cut : Divides(cut, s, l)
  BY DEF Divided
<1>2. PICK more : Divides(more, t, m)
  BY DEF Divided
<1> DEFINE n == Len(l)
           both == [k \in 0..(n + Len(m)) |-> IF k <= n THEN cut[k] ELSE Len(s) + more[k - n]]
<1>3. /\ n \in Nat /\ Len(m) \in Nat /\ Len(l \o m) = n + Len(m)
      /\ \A k \in 1..n : (l \o m)[k] = l[k]
      /\ \A k \in 1..Len(m) : (l \o m)[n + k] = m[k]
  BY LenProperties DEF Logs
<1>4. Len(s) \in Nat /\ Len(t) \in Nat /\ Len(s \o t) = Len(s) + Len(t)
  BY Lengths, Joined
<1>5. /\ cut \in [0..n -> Nat] /\ cut[0] = 0 /\ cut[n] = Len(s)
      /\ \A k \in 1..n : Piece(s, cut[k - 1], cut[k], l[k])
      /\ \A j, k \in 0..n : j <= k => cut[j] <= cut[k]
  BY <1>1 DEF Divides
<1>6. /\ more \in [0..Len(m) -> Nat] /\ more[0] = 0 /\ more[Len(m)] = Len(t)
      /\ \A k \in 1..Len(m) : Piece(t, more[k - 1], more[k], m[k])
      /\ \A j, k \in 0..Len(m) : j <= k => more[j] <= more[k]
  BY <1>2 DEF Divides
<1> HIDE DEF n
<1>7. both \in [0..Len(l \o m) -> Nat]
  <2> SUFFICES ASSUME NEW k \in 0..(n + Len(m))
      PROVE (IF k <= n THEN cut[k] ELSE Len(s) + more[k - n]) \in Nat
    BY <1>3
  <2>1. CASE k <= n
    BY <1>3, <1>5, <2>1
  <2>2. CASE ~(k <= n)
    <3>1. k - n \in 0..Len(m)
      BY <1>3, <2>2
    <3>2. more[k - n] \in Nat
      BY <1>6, <3>1
    <3> QED
      BY <1>4, <2>2, <3>2
  <2> QED
    BY <2>1, <2>2
<1>8. both[0] = 0 /\ both[Len(l \o m)] = Len(s \o t)
  <2>1. both[0] = 0
    BY <1>3, <1>5
  <2>2. CASE Len(m) = 0
    BY <1>3, <1>4, <1>5, <1>6, <2>2
  <2>3. CASE Len(m) # 0
    <3>1. n + Len(m) \in 0..(n + Len(m)) /\ ~(n + Len(m) <= n) /\ (n + Len(m)) - n = Len(m)
      BY <1>3, <2>3
    <3> QED
      BY <1>3, <1>4, <1>6, <2>1, <3>1
  <2> QED
    BY <2>1, <2>2, <2>3
<1>9. ASSUME NEW k \in 1..Len(l \o m)
      PROVE  Piece(s \o t, both[k - 1], both[k], (l \o m)[k])
  <2>1. CASE k <= n
    <3>1. k \in 1..n /\ both[k - 1] = cut[k - 1] /\ both[k] = cut[k] /\ cut[k - 1] \in Nat
      BY <1>3, <1>5, <1>9, <2>1
    <3>2. Piece(s, cut[k - 1], cut[k], l[k])
      BY <1>5, <3>1
    <3>3. Piece(s \o t, cut[k - 1], cut[k], l[k])
      BY <3>1, <3>2, PieceInFront
    <3> QED
      BY <1>3, <3>1, <3>3
  <2>2. CASE ~(k <= n)
    <3> DEFINE j == k - n
    <3>1. j \in 1..Len(m) /\ k = n + j /\ j - 1 \in 0..Len(m) /\ j \in 0..Len(m)
      BY <1>3, <1>9, <2>2
    <3> HIDE DEF j
    <3>2. Piece(t, more[j - 1], more[j], m[j]) /\ more[j - 1] \in Nat /\ more[j] \in Nat
      BY <1>6, <3>1
    <3>3. Piece(s \o t, Len(s) + more[j - 1], Len(s) + more[j], m[j])
      BY <3>2, PieceBehind
    <3>4. both[k] = Len(s) + more[j]
      <4>1. k \in 0..(n + Len(m)) /\ ~(k <= n) /\ k - n = j
        BY <1>3, <2>2, <3>1
      <4> QED
        BY <4>1
    <3>5. both[k - 1] = Len(s) + more[j - 1]
      <4>1. CASE j = 1
        <5>1. k - 1 = n /\ n \in 0..(n + Len(m)) /\ j - 1 = 0
          BY <1>3, <3>1, <4>1
        <5> QED
          BY <1>3, <1>4, <1>5, <1>6, <5>1
      <4>2. CASE j # 1
        <5>1. k - 1 \in 0..(n + Len(m)) /\ ~(k - 1 <= n) /\ (k - 1) - n = j - 1
          BY <1>3, <3>1, <4>2
        <5> QED
          BY <5>1
      <4> QED
        BY <4>1, <4>2
    <3>6. (l \o m)[k] = m[j]
      BY <1>3, <3>1
    <3> QED
      BY <3>3, <3>4, <3>5, <3>6
  <2> QED
    BY <2>1, <2>2
<1>10. ASSUME NEW j \in 0..Len(l \o m), NEW k \in 0..Len(l \o m), j <= k
       PROVE  both[j] <= both[k]
  <2>1. j \in 0..(n + Len(m)) /\ k \in 0..(n + Len(m)) /\ j \in Nat /\ k \in Nat
    BY <1>3, <1>10
  <2>2. CASE k <= n
    <3>1. j \in 0..n /\ k \in 0..n /\ both[j] = cut[j] /\ both[k] = cut[k]
      BY <1>3, <1>10, <2>1, <2>2
    <3> QED
      BY <1>5, <1>10, <3>1
  <2>3. CASE j <= n /\ ~(k <= n)
    <3>1. j \in 0..n /\ n \in 0..n /\ k - n \in 0..Len(m)
      BY <1>3, <2>1, <2>3
    <3>2. both[j] = cut[j] /\ both[k] = Len(s) + more[k - n]
      BY <2>1, <2>3
    <3>3. cut[j] <= Len(s) /\ cut[j] \in Nat /\ more[k - n] \in Nat
      BY <1>5, <1>6, <2>3, <3>1
    <3> QED
      BY <1>4, <3>2, <3>3
  <2>4. CASE ~(j <= n)
    <3>1. j - n \in 0..Len(m) /\ k - n \in 0..Len(m) /\ j - n <= k - n /\ ~(k <= n)
      BY <1>3, <1>10, <2>1, <2>4
    <3>2. both[j] = Len(s) + more[j - n] /\ both[k] = Len(s) + more[k - n]
      BY <2>1, <2>4, <3>1
    <3>3. more[j - n] <= more[k - n] /\ more[j - n] \in Nat /\ more[k - n] \in Nat
      BY <1>6, <3>1
    <3> QED
      BY <1>4, <3>2, <3>3
  <2> QED
    BY <2>2, <2>3, <2>4
<1> HIDE DEF both
<1> QED
  BY <1>7, <1>8, <1>9, <1>10 DEF Divides, Divided

LEMMA HugeSize == Huge \in Nat /\ 65536 < Huge /\ 0 \in 0..Huge
BY SMT DEF Huge

LEMMA OpcodeNames ==
  /\ DOMAIN Opcodes = 1..42
  /\ \A b : OpName(b) \in Names
  /\ \A b \in DOMAIN Opcodes : Opcodes[b] \in Names
  /\ "STRAY" \in Names
BY DEF Opcodes, OpName, Names

\* What is compiled to is a command of the table, and is read as itself.
LEMMA OpcodeRead ==
  ASSUME NEW op, Tabled(op)
  PROVE  /\ Integral(Opcode(op), 1) = <<Opcode(op)>>
         /\ Opcode(op) \in Byte256 /\ OpName(Opcode(op)) = op
<1>1. Opcode(op) \in DOMAIN Opcodes /\ Opcodes[Opcode(op)] = op
  <2>1. \E b \in DOMAIN Opcodes : Opcodes[b] = op
    BY DEF Tabled, Table
  <2> QED
    BY <2>1 DEF Opcode
<1>2. Opcode(op) \in 1..42
  BY <1>1, OpcodeNames
<1> DEFINE b == Opcode(op)
<1> HIDE DEF b
<1>3. b \in 1..42
  BY <1>2 DEF b
<1>4. b \in Nat /\ b % 256 = b /\ b \in 0..255
  BY <1>3
<1>5. Integral(b, 1) = <<b>>
  BY <1>4, OneByte
<1>6. OpName(b) = op
  BY <1>1 DEF b, OpName
<1> QED
  BY <1>4, <1>5, <1>6 DEF b, Byte256

LEMMA KnownNames ==
  {"DEFINE_FUNCTION", "JMP_IF_FALSE", "JMP_IF_TRUE", "POP_OBJECT", "RET"}
    \subseteq {Opcodes[b] : b \in DOMAIN Opcodes}
<1>1. /\ Opcodes[27] = "DEFINE_FUNCTION" /\ Opcodes[17] = "JMP_IF_FALSE"
      /\ Opcodes[18] = "JMP_IF_TRUE" /\ Opcodes[21] = "POP_OBJECT" /\ Opcodes[29] = "RET"
      /\ {27, 17, 18, 21, 29} \subseteq DOMAIN Opcodes
  BY DEF Opcodes
<1> HIDE DEF Opcodes
<1> QED
  BY <1>1

LEMMA PlainType ==
  ASSUME NEW op \in Names
  PROVE  Plain(op) \in ItemRecord /\ Plain(op).op = op
<1>1. <<>> \in Bytestrings /\ <<>> \in Seq(Bytestrings)
  BY Joined, EmptySeq
<1> QED
  BY <1>1, HugeSize DEF Plain, Item, ItemRecord

LEMMA DividedEmpty == <<>> \in Logs /\ <<>> \in Bytestrings /\ Divided(<<>>, <<>>)
<1> DEFINE cut == [k \in 0..0 |-> 0]
<1>1. Len(<<>>) = 0 /\ <<>> \in Bytestrings /\ <<>> \in Logs
  BY Joined, EmptySeq DEF Logs
<1>2. cut \in [0..0 -> Nat] /\ cut[0] = 0
  OBVIOUS
<1> HIDE DEF cut
<1>3. Divides(cut, <<>>, <<>>)
  <2>1. /\ cut \in [0..Len(<<>>) -> Nat]
        /\ cut[0] = 0 /\ cut[Len(<<>>)] = Len(<<>>)
        /\ \A j, k \in 0..Len(<<>>) : j <= k => cut[j] <= cut[k]
    BY <1>1, <1>2
  <2>2. 1..Len(<<>>) = {}
    BY <1>1
  <2> QED
    BY <2>1, <2>2 DEF Divides
<1> QED
  BY <1>1, <1>3 DEF Divided

LEMMA DividedSingle ==
  ASSUME NEW b, NEW c, Spells(b, c)
  PROVE  Divided(b, <<c>>) /\ <<c>> \in Logs
<1>1. b \in Bytestrings /\ c \in ItemRecord
  BY DEF Spells
<1>2. <<c>> \in Logs /\ Len(<<c>>) = 1 /\ <<c>>[1] = c
  BY <1>1 DEF Logs
<1> DEFINE cut == [k \in 0..1 |-> IF k = 0 THEN 0 ELSE Len(b)]
<1>3. Len(b) \in Nat
  BY <1>1, Lengths
<1>4. cut \in [0..1 -> Nat] /\ cut[0] = 0 /\ cut[1] = Len(b)
  BY <1>3
<1>8. \A j, k \in 0..1 : j <= k => cut[j] <= cut[k]
  BY <1>3
<1> HIDE DEF cut
<1>5. At(b, 0, b)
  BY <1>3 DEF At
<1>6. Piece(b, cut[0], cut[1], c)
  BY <1>1, <1>3, <1>4, <1>5 DEF Piece
<1>7. \A k \in 1..1 : Piece(b, cut[k - 1], cut[k], <<c>>[k])
  BY <1>2, <1>6
<1> QED
  BY <1>2, <1>4, <1>7, <1>8 DEF Divides, Divided

LEMMA SpelledByte ==
  ASSUME NEW x \in Byte256, NEW op \in Names, op \notin Reading, op = "STRAY" \/ op = OpName(x)
  PROVE  Spells(<<x>>, Plain(op))
<1>1. <<x>> \in Bytestrings /\ <<x>> # <<>> /\ Len(<<x>>) = 1 /\ <<x>>[1] = x
  BY DEF Bytestrings
<1>2. Plain(op) \in ItemRecord /\ Plain(op).op = op
  BY PlainType
<1>3. Plain(op).op # "DEFINE_FUNCTION"
  BY <1>2 DEF Reading
<1> QED
  BY <1>1, <1>2, <1>3 DEF Spells

\* Bytes that are taken for commands, one each.
LEMMA DividedBytes ==
  ASSUME NEW b \in Bytestrings
  PROVE  AsCommands(b) \in Logs /\ Divided(b, AsCommands(b))
<1> DEFINE op(i) == IF OpName(b[i]) \in Reading THEN "STRAY" ELSE OpName(b[i])
           log == AsCommands(b)
<1>1. Len(b) \in Nat /\ DOMAIN b = 1..Len(b) /\ \A i \in 1..Len(b) : b[i] \in Byte256
  BY Lengths
<1>2. \A i \in 1..Len(b) : op(i) \in Names /\ op(i) \notin Reading /\ (op(i) = "STRAY" \/ op(i) = OpName(b[i]))
  BY OpcodeNames DEF Reading
<1>3. log = [i \in 1..Len(b) |-> Plain(op(i))]
  BY <1>1 DEF AsCommands
<1> HIDE DEF op, log
<1>4. \A i \in 1..Len(b) : Plain(op(i)) \in ItemRecord
  BY <1>2, PlainType
<1>5. log \in Logs /\ Len(log) = Len(b) /\ \A i \in 1..Len(b) : log[i] = Plain(op(i))
  BY <1>1, <1>3, <1>4 DEF Logs
<1> DEFINE cut == [k \in 0..Len(b) |-> k]
<1>6. ASSUME NEW k \in 1..Len(log)
      PROVE  Piece(b, cut[k - 1], cut[k], log[k])
  <2>1. k \in 1..Len(b) /\ cut[k - 1] = k - 1 /\ cut[k] = k
    BY <1>1, <1>5, <1>6
  <2>2. Spells(<<b[k]>>, Plain(op(k)))
    BY <1>1, <1>2, <2>1, SpelledByte
  <2>3. <<b[k]>> \in Bytestrings /\ Len(<<b[k]>>) = 1 /\ <<b[k]>>[1] = b[k]
    BY <2>2 DEF Spells
  <2>4. At(b, k - 1, <<b[k]>>)
    <3>1. \A i \in 1..1 : b[(k - 1) + i] = <<b[k]>>[i]
      BY <1>1, <2>1
    <3>2. (k - 1) + 1 <= Len(b)
      BY <1>1, <2>1
    <3> QED
      BY <3>1, <3>2, <2>3 DEF At
  <2>5. k = (k - 1) + Len(<<b[k]>>)
    BY <2>1, <2>3
  <2>6. Piece(b, k - 1, k, log[k])
    BY <1>5, <2>1, <2>2, <2>3, <2>4, <2>5 DEF Piece
  <2> QED
    BY <2>1, <2>6
<1>7. /\ cut \in [0..Len(log) -> Nat] /\ cut[0] = 0 /\ cut[Len(log)] = Len(b)
      /\ \A j, k \in 0..Len(log) : j <= k => cut[j] <= cut[k]
  BY <1>1, <1>5
<1> HIDE DEF cut
<1>8. Divided(b, log)
  BY <1>6, <1>7 DEF Divides, Divided
<1> QED
  BY <1>5, <1>8 DEF log

\* The last byte of the code is POP_OBJECT, and can be taken back.
LEMMA DividedDrop ==
  ASSUME NEW d \in Bytestrings, NEW l \in Logs, Divided(d, l),
         l # <<>>, l[Len(l)] = Plain("POP_OBJECT")
  PROVE  /\ Len(d) \in Nat \ {0} /\ SubSeq(d, 1, Len(d) - 1) \in Bytestrings
         /\ SubSeq(l, 1, Len(l) - 1) \in Logs
         /\ Divided(SubSeq(d, 1, Len(d) - 1), SubSeq(l, 1, Len(l) - 1))
<1> DEFINE n == Len(l)
           e == SubSeq(d, 1, Len(d) - 1)
           m == SubSeq(l, 1, n - 1)
<1>1. n \in Nat \ {0}
  BY EmptySeq DEF Logs
<1>2. PICK cut : Divides(cut, d, l)
  BY DEF Divided
<1>3. /\ cut \in [0..n -> Nat] /\ cut[0] = 0 /\ cut[n] = Len(d)
      /\ \A k \in 1..n : Piece(d, cut[k - 1], cut[k], l[k])
      /\ \A j, k \in 0..n : j <= k => cut[j] <= cut[k]
  BY <1>2 DEF Divides
<1>4. Piece(d, cut[n - 1], cut[n], l[n])
  BY <1>1, <1>3
<1>5. PICK b \in Bytestrings : /\ Spells(b, Plain("POP_OBJECT")) /\ At(d, cut[n - 1], b)
                               /\ cut[n] = cut[n - 1] + Len(b)
  BY <1>4 DEF Piece
<1>6. Len(b) = 1
  <2>1. Plain("POP_OBJECT").op = "POP_OBJECT"
    BY DEF Plain, Item
  <2> QED
    BY <1>5, <2>1 DEF Spells, Reading
<1>7. Len(d) \in Nat /\ cut[n - 1] \in Nat /\ Len(d) = cut[n - 1] + 1
  <2>1. Len(d) \in Nat
    BY Lengths
  <2>2. Len(d) = cut[n - 1] + 1
    BY <1>3, <1>5, <1>6, Zenon
  <2>3. n - 1 \in 0..n
    BY <1>1
  <2>4. cut[n - 1] \in Nat
    BY <1>3, <2>3, Zenon
  <2> QED
    BY <2>1, <2>2, <2>4
<1>8. /\ e \in Bytestrings /\ Len(e) = Len(d) - 1
      /\ \A i \in 1..(Len(d) - 1) : e[i] = d[i]
  BY <1>7 DEF Bytestrings
<1>9. /\ m \in Logs /\ Len(m) = n - 1 /\ \A i \in 1..(n - 1) : m[i] = l[i]
  <2>1. l \in Seq(ItemRecord) /\ \A i \in 1..n : l[i] \in ItemRecord
    BY DEF Logs
  <2> HIDE DEF n
  <2>2. 1 \in Int /\ n - 1 \in Int /\ \A i \in 1..(n - 1) : l[i] \in ItemRecord
    BY <1>1, <2>1
  <2>3. /\ m \in Seq(ItemRecord)
        /\ Len(m) = IF 1 <= n - 1 THEN (n - 1) - 1 + 1 ELSE 0
        /\ \A i \in 1..((n - 1) - 1 + 1) : m[i] = l[1 + i - 1]
    BY ONLY <2>2, SubSeqProperties
  <2> QED
    BY <1>1, <2>3 DEF Logs
<1> HIDE DEF n, e, m
<1> DEFINE less == [k \in 0..(n - 1) |-> cut[k]]
<1>10. /\ less \in [0..Len(m) -> Nat] /\ less[0] = 0 /\ less[Len(m)] = Len(e)
       /\ \A j, k \in 0..Len(m) : j <= k => less[j] <= less[k]
  BY <1>1, <1>3, <1>7, <1>8, <1>9
<1>11. ASSUME NEW k \in 1..Len(m)
       PROVE  Piece(e, less[k - 1], less[k], m[k])
  <2>1. /\ k \in 1..n /\ less[k - 1] = cut[k - 1] /\ less[k] = cut[k] /\ m[k] = l[k]
        /\ cut[k - 1] \in Nat /\ k \in 0..n /\ n - 1 \in 0..n /\ k <= n - 1
    BY <1>1, <1>3, <1>9, <1>11
  <2>2. Piece(d, cut[k - 1], cut[k], l[k])
    BY <1>3, <2>1
  <2>3. PICK c \in Bytestrings : /\ Spells(c, l[k]) /\ At(d, cut[k - 1], c)
                                 /\ cut[k] = cut[k - 1] + Len(c)
    BY <2>2 DEF Piece
  <2>4. cut[k - 1] + Len(c) <= Len(d) - 1
    BY <1>3, <1>7, <2>1, <2>3
  <2>5. Len(c) \in Nat
    BY Lengths
  <2>6. \A i \in 1..Len(c) : d[cut[k - 1] + i] = c[i]
    BY <2>3 DEF At
  <2>7. \A i \in 1..Len(c) : e[cut[k - 1] + i] = c[i]
    <3> SUFFICES ASSUME NEW i \in 1..Len(c) PROVE e[cut[k - 1] + i] = c[i]
      OBVIOUS
    <3>1. cut[k - 1] + i \in 1..(Len(d) - 1)
      <4>1. /\ i \in 1..Len(c) /\ cut[k - 1] \in Nat /\ cut[k - 1] + Len(c) <= Len(d) - 1
            /\ Len(c) \in Nat /\ Len(d) \in Nat
        BY <1>7, <2>1, <2>4, <2>5
      <4> QED
        BY ONLY <4>1
    <3> QED
      BY <1>8, <2>6, <3>1
  <2>8. At(e, cut[k - 1], c)
    BY <1>8, <2>4, <2>7 DEF At
  <2>9. Piece(e, cut[k - 1], cut[k], l[k])
    BY <2>3, <2>8 DEF Piece
  <2> QED
    BY <2>1, <2>9
<1> HIDE DEF less
<1>12. Divided(e, m)
  BY <1>10, <1>11 DEF Divides, Divided
<1>13. Len(d) \in Nat \ {0}
  BY <1>7
<1> QED
  BY <1>8, <1>9, <1>12, <1>13 DEF n, e, m

LEMMA Joined3 ==
  \A a, b, c \in Bytestrings :
    /\ (a \o b) \o c \in Bytestrings /\ Len((a \o b) \o c) = Len(a) + Len(b) + Len(c)
    /\ \A i \in 1..Len(a) : ((a \o b) \o c)[i] = a[i]
    /\ \A i \in 1..Len(b) : ((a \o b) \o c)[Len(a) + i] = b[i]
    /\ \A i \in 1..Len(c) : ((a \o b) \o c)[Len(a) + Len(b) + i] = c[i]
<1> SUFFICES ASSUME NEW a \in Bytestrings, NEW b \in Bytestrings, NEW c \in Bytestrings
    PROVE /\ (a \o b) \o c \in Bytestrings /\ Len((a \o b) \o c) = Len(a) + Len(b) + Len(c)
          /\ \A i \in 1..Len(a) : ((a \o b) \o c)[i] = a[i]
          /\ \A i \in 1..Len(b) : ((a \o b) \o c)[Len(a) + i] = b[i]
          /\ \A i \in 1..Len(c) : ((a \o b) \o c)[Len(a) + Len(b) + i] = c[i]
  OBVIOUS
<1>1. /\ Len(a) \in Nat /\ Len(b) \in Nat /\ Len(c) \in Nat
      /\ a \o b \in Bytestrings /\ Len(a \o b) = Len(a) + Len(b)
  BY Lengths, Joined
<1>2. /\ (a \o b) \o c \in Bytestrings /\ Len((a \o b) \o c) = Len(a \o b) + Len(c)
      /\ \A i \in 1..Len(a \o b) : ((a \o b) \o c)[i] = (a \o b)[i]
      /\ \A i \in 1..Len(c) : ((a \o b) \o c)[Len(a \o b) + i] = c[i]
  BY <1>1, Joined
<1>3. /\ \A i \in 1..Len(a) : (a \o b)[i] = a[i]
      /\ \A i \in 1..Len(b) : (a \o b)[Len(a) + i] = b[i]
  BY Joined
<1> DEFINE ab == a \o b
           abc == ab \o c
<1>4. /\ Len(a) \in Nat /\ Len(b) \in Nat /\ Len(c) \in Nat /\ Len(ab) = Len(a) + Len(b)
      /\ abc \in Bytestrings /\ Len(abc) = Len(ab) + Len(c)
      /\ \A i \in 1..Len(ab) : abc[i] = ab[i]
      /\ \A i \in 1..Len(c) : abc[Len(ab) + i] = c[i]
      /\ \A i \in 1..Len(a) : ab[i] = a[i]
      /\ \A i \in 1..Len(b) : ab[Len(a) + i] = b[i]
  BY <1>1, <1>2, <1>3
<1> HIDE DEF abc
<1> HIDE DEF ab
<1>5. /\ abc \in Bytestrings /\ Len(abc) = Len(a) + Len(b) + Len(c)
      /\ \A i \in 1..Len(a) : abc[i] = a[i]
      /\ \A i \in 1..Len(b) : abc[Len(a) + i] = b[i]
      /\ \A i \in 1..Len(c) : abc[Len(a) + Len(b) + i] = c[i]
  BY ONLY <1>4
<1> QED
  BY <1>5 DEF abc, ab

\* The size of a text is cut to two bytes, and the text with it.
SizeOf(c) == Cast(Len(c.text), 2)

Short(c) == Len(c.text) < 65536

LEMMA SizedBytes ==
  \A c \in ItemRecord : c.op \in SizedOps =>
    /\ SizeOf(c) \in Nat /\ SizeOf(c) <= Len(c.text)
    /\ Short(c) => SizeOf(c) = Len(c.text)
    /\ SubSeq(c.text, 1, SizeOf(c)) \in Bytestrings
    /\ Len(SubSeq(c.text, 1, SizeOf(c))) = SizeOf(c)
    /\ Encode(c) = (Integral(Opcode(c.op), 1) \o Integral(SizeOf(c), 2))
                     \o SubSeq(c.text, 1, SizeOf(c))
<1> SUFFICES ASSUME NEW c \in ItemRecord, c.op \in SizedOps
    PROVE  /\ SizeOf(c) \in Nat /\ SizeOf(c) <= Len(c.text)
           /\ Short(c) => SizeOf(c) = Len(c.text)
           /\ SubSeq(c.text, 1, SizeOf(c)) \in Bytestrings
           /\ Len(SubSeq(c.text, 1, SizeOf(c))) = SizeOf(c)
           /\ Encode(c) = (Integral(Opcode(c.op), 1) \o Integral(SizeOf(c), 2))
                            \o SubSeq(c.text, 1, SizeOf(c))
  BY Zenon
<1>1. c.text \in Bytestrings /\ Len(c.text) \in Nat
  BY Lengths DEF ItemRecord
<1> DEFINE n == Len(c.text)
           m == SizeOf(c)
<1>2. m = n % 65536
  BY Powers DEF SizeOf, Cast
<1>3. n \in Nat
  BY <1>1
<1>4. Encode(c) = (Integral(Opcode(c.op), 1) \o Integral(m, 2)) \o SubSeq(c.text, 1, m)
  <2>1. Encode(c) = Sized(c)
    <3>1. c.op # "PUSH_INTEGRAL" /\ c.op # "CALLB"
      BY DEF SizedOps
    <3> QED
      BY ONLY <3>1, c.op \in SizedOps, Zenon DEF Encode
  <2>2. Sized(c) = (Integral(Opcode(c.op), 1) \o Integral(m, 2)) \o SubSeq(c.text, 1, m)
    BY Zenon DEF Sized, SizeOf
  <2> QED
    BY <2>1, <2>2
<1> HIDE DEF n, m
<1>5. m \in Nat /\ m <= n /\ (Short(c) => m = n)
  <2>1. m \in Nat /\ m <= n /\ (n < 65536 => m = n)
    BY <1>2, <1>3
  <2>2. Short(c) => n < 65536
    BY DEF Short, n
  <2> QED
    BY <2>1, <2>2
<1>6. SubSeq(c.text, 1, m) \in Bytestrings /\ Len(SubSeq(c.text, 1, m)) = m
  <2>1. \A i \in 1..m : c.text[i] \in Byte256
    BY <1>1, <1>5, Lengths DEF n
  <2>2. m \in Nat
    BY <1>5
  <2>3. /\ SubSeq(c.text, 1, m) \in Seq(Byte256)
        /\ Len(SubSeq(c.text, 1, m)) = IF 1 <= m THEN m - 1 + 1 ELSE 0
    BY ONLY <2>1, <2>2, SubSeqProperties
  <2> QED
    BY <2>2, <2>3 DEF Bytestrings
<1> QED
  BY <1>4, <1>5, <1>6 DEF n, m

LEMMA SingleByte ==
  \A x \in Byte256 : <<x>> \in Bytestrings /\ Len(<<x>>) = 1 /\ <<x>>[1] = x
BY DEF Bytestrings

\* Every command without a block is a piece of code.
LEMMA EncodeDivided ==
  ASSUME NEW c, Command(c)
  PROVE  /\ Encode(c) \in Bytestrings /\ Encode(c) # <<>>
         /\ ItemsOf(c) \in Logs /\ Divided(Encode(c), ItemsOf(c))
<1>1. c \in ItemRecord /\ c.text \in Bytestrings /\ c.n \in 0..Huge /\ c.n \in Nat
  BY HugeSize DEF Command, ItemRecord
<1>2. /\ Integral(Opcode(c.op), 1) = <<Opcode(c.op)>>
      /\ Opcode(c.op) \in Byte256 /\ OpName(Opcode(c.op)) = c.op
  <2>1. Tabled(c.op)
    BY DEF Command, Blockless, Tabled
  <2> QED
    BY <2>1, OpcodeRead
<1> DEFINE first == Integral(Opcode(c.op), 1)
<1>3. first \in Bytestrings /\ Len(first) = 1 /\ first[1] = Opcode(c.op)
  BY <1>2, SingleByte
<1> HIDE DEF first
<1>4. Encode(c) \in Bytestrings /\ Len(Encode(c)) >= 1
  <2>1. CASE c.op \in SizedOps
    <3>1. /\ SizeOf(c) \in Nat
          /\ SubSeq(c.text, 1, SizeOf(c)) \in Bytestrings
          /\ Encode(c) = (first \o Integral(SizeOf(c), 2)) \o SubSeq(c.text, 1, SizeOf(c))
      BY <1>1, <2>1, SizedBytes DEF first
    <3>2. Integral(SizeOf(c), 2) \in Bytestrings /\ Len(Integral(SizeOf(c), 2)) = 2
      BY <3>1, ManyBytes
    <3> DEFINE x == Integral(SizeOf(c), 2)
               y == SubSeq(c.text, 1, SizeOf(c))
    <3>3. x \in Bytestrings /\ y \in Bytestrings /\ Len(x) = 2 /\ Encode(c) = (first \o x) \o y
      BY <3>1, <3>2
    <3> HIDE DEF x, y
    <3>4. Encode(c) \in Bytestrings /\ Len(Encode(c)) = Len(first) + Len(x) + Len(y)
      <4>1. first \in Bytestrings /\ x \in Bytestrings /\ y \in Bytestrings
        BY <1>3, <3>3
      <4>2. /\ (first \o x) \o y \in Bytestrings
            /\ Len((first \o x) \o y) = Len(first) + Len(x) + Len(y)
        BY ONLY <4>1, Joined3, Zenon
      <4> QED
        BY <3>3, <4>2, Zenon
    <3>5. Len(y) \in Nat
      BY <3>3, Lengths
    <3> QED
      BY <1>3, <3>3, <3>4, <3>5
  <2>2. CASE c.op = "PUSH_INTEGRAL"
    <3> DEFINE x == c.text
               y == Integral(c.n, 4)
    <3>1. x \in Bytestrings /\ y \in Bytestrings
      BY <1>1, ManyBytes
    <3>2. Encode(c) = (first \o x) \o y
      BY <2>2 DEF Encode, SizedOps, first
    <3> HIDE DEF x, y
    <3>3. Encode(c) \in Bytestrings /\ Len(Encode(c)) = Len(first) + Len(x) + Len(y)
      <4>1. first \in Bytestrings /\ x \in Bytestrings /\ y \in Bytestrings
        BY <1>3, <3>1
      <4>2. /\ (first \o x) \o y \in Bytestrings
            /\ Len((first \o x) \o y) = Len(first) + Len(x) + Len(y)
        BY ONLY <4>1, Joined3, Zenon
      <4> QED
        BY <3>2, <4>2, Zenon
    <3>4. Len(x) \in Nat /\ Len(y) \in Nat
      BY <3>1, Lengths
    <3> QED
      BY <1>3, <3>3, <3>4
  <2>3. CASE c.op = "CALLB"
    <3>1. Integral(c.n, 1) \in Bytestrings /\ Len(Integral(c.n, 1)) = 1
      BY <1>1, ManyBytes
    <3>2. Encode(c) = first \o Integral(c.n, 1)
      BY <2>3 DEF Encode, SizedOps, first
    <3> QED
      BY <1>3, <3>1, <3>2, Joined
  <2>4. CASE c.op \notin SizedOps \cup {"PUSH_INTEGRAL", "CALLB"}
    <3>1. Encode(c) = first
      BY <2>4 DEF Encode, first
    <3> QED
      BY <1>3, <3>1
  <2> QED
    BY <2>1, <2>2, <2>3, <2>4
<1>5. Encode(c) # <<>>
  BY <1>4, EmptySeq
<1>6. CASE c.op = "GET_ATTRIBUTESB"
  BY <1>4, <1>5, <1>6, DividedBytes DEF ItemsOf
<1>7. CASE c.op # "GET_ATTRIBUTESB"
  <2>1. Spells(Encode(c), c)
    <3>1. CASE c.op \in Reading
      <4>1. c.op # "DEFINE_FUNCTION"
        BY DEF Command, Blockless
      <4> QED
        BY <1>1, <1>4, <1>5, <3>1, <4>1, Zenon DEF Spells
    <3>2. CASE c.op \notin Reading
      <4>1. c.op \notin SizedOps \cup {"PUSH_INTEGRAL", "CALLB"}
        BY <1>7, <3>2 DEF Reading, SizedOps
      <4>2. Encode(c) = first /\ c = Plain(c.op)
        BY <4>1 DEF Encode, first, Command
      <4>3. c.op # "DEFINE_FUNCTION"
        BY DEF Command, Blockless
      <4> QED
        BY <1>1, <1>2, <1>3, <1>4, <1>5, <3>2, <4>2, <4>3 DEF Spells
    <3> QED
      BY <3>1, <3>2
  <2> QED
    BY <1>4, <1>5, <1>7, <2>1, DividedSingle DEF ItemsOf
<1> QED
  BY <1>6, <1>7

LEMMA PlainCommand ==
  ASSUME NEW op \in Table \ ({"DEFINE_FUNCTION", "PUSH_INTEGRAL", "CALLB"} \cup SizedOps)
  PROVE  Command(Plain(op)) /\ Plain(op).op = op /\ ItemsOf(Plain(op)) = <<Plain(op)>>
<1>1. op \in Names
  BY DEF Table, Names
<1>2. Plain(op) \in ItemRecord /\ Plain(op).op = op
  BY <1>1, PlainType
<1>3. op \notin SizedOps /\ op # "PUSH_INTEGRAL" /\ op # "CALLB" /\ op # "GET_ATTRIBUTESB"
  BY DEF SizedOps
<1> QED
  BY <1>2, <1>3 DEF Command, ItemsOf, Blockless

LEMMA CommandsGiven ==
  ASSUME NEW c \in Commands
  PROVE  Command(c)
<1>1. /\ c = Item(c.op, c.n, c.text, c.names, <<>>)
      /\ c.n \in 0..Huge /\ c.text \in Seq(Byte256) /\ c.names \in Seq(Seq(Byte256))
  BY StreamAssumption
<1>2. /\ c.op \in Table \ {"DEFINE_FUNCTION"}
      /\ c.op \in SizedOps => c = Item(c.op, 0, c.text, <<>>, <<>>)
      /\ c.op = "PUSH_INTEGRAL" => Len(c.text) = 1 /\ c.names = <<>>
      /\ c.op = "CALLB" => c = Item("CALLB", c.n, <<>>, <<>>, <<>>)
      /\ c.op \in SizedOps \cup {"PUSH_INTEGRAL", "CALLB"} \/ c = Plain(c.op)
  BY StreamAssumption DEF Table
<1>3. c.op \in Names
  BY <1>2 DEF Table, Names
<1>4. c \in ItemRecord
  <2>1. c.text \in Bytestrings /\ c.names \in Seq(Bytestrings) /\ <<>> \in Bytestrings
    BY <1>1, Joined DEF Bytestrings
  <2>2. Item(c.op, c.n, c.text, c.names, <<>>) \in ItemRecord
    BY <1>1, <1>3, <2>1 DEF Item, ItemRecord
  <2> QED
    BY <1>1, <2>2
<1>5. c.op = "PUSH_INTEGRAL" => c = Item("PUSH_INTEGRAL", c.n, c.text, <<>>, <<>>)
  BY <1>1, <1>2
<1> QED
  BY <1>2, <1>4, <1>5 DEF Command, Blockless

LEMMA FunctionsGiven ==
  ASSUME NEW f \in Functions, NEW body \in Bytestrings
  PROVE  /\ f.text \in Bytestrings /\ f.names \in Seq(Bytestrings)
         /\ [f EXCEPT !.body = body] = Item("DEFINE_FUNCTION", 0, f.text, f.names, body)
         /\ [f EXCEPT !.body = body] \in ItemRecord
<1>1. /\ f = Item(f.op, f.n, f.text, f.names, <<>>)
      /\ f.text \in Seq(Byte256) /\ f.names \in Seq(Seq(Byte256))
      /\ f.op = "DEFINE_FUNCTION" /\ f.n = 0
  BY StreamAssumption
<1>2. [f EXCEPT !.body = body] = Item("DEFINE_FUNCTION", 0, f.text, f.names, body)
  <2> DEFINE x == f.text
             y == f.names
  <2>1. f = [op |-> "DEFINE_FUNCTION", n |-> 0, text |-> x, names |-> y, body |-> <<>>]
    BY <1>1, Zenon DEF Item
  <2> HIDE DEF x, y
  <2>2. [[op |-> "DEFINE_FUNCTION", n |-> 0, text |-> x, names |-> y, body |-> <<>>]
          EXCEPT !.body = body]
          = [op |-> "DEFINE_FUNCTION", n |-> 0, text |-> x, names |-> y, body |-> body]
    OBVIOUS
  <2>3. [f EXCEPT !.body = body]
          = [op |-> "DEFINE_FUNCTION", n |-> 0, text |-> x, names |-> y, body |-> body]
    BY ONLY <2>1, <2>2, Zenon
  <2> QED
    BY <2>3, Zenon DEF Item, x, y
<1>3. "DEFINE_FUNCTION" \in Names
  BY KnownNames DEF Names
<1> QED
  BY <1>1, <1>2, <1>3, HugeSize DEF Item, ItemRecord, Bytestrings

\* Streams that are written to at their end.
StreamRecord ==
  [data : Bytestrings, offset : Nat, role : Blocks \cup {"main", "signature"}, log : Logs]

Written(s, bytes) ==
  [data |-> s.data \o bytes, offset |-> Len(s.data) + Len(bytes), role |-> s.role, log |-> s.log]

LEMMA NewStream ==
  ASSUME NEW role \in Blocks \cup {"main", "signature"}
  PROVE  /\ Stream(role) \in StreamRecord /\ Stream(role).data = <<>>
         /\ Stream(role).offset = Len(Stream(role).data)
         /\ Stream(role).role = role /\ Stream(role).log = <<>>
<1>1. <<>> \in Bytestrings /\ <<>> \in Logs /\ Len(<<>>) = 0
  BY DividedEmpty, EmptySeq
<1> QED
  BY <1>1 DEF Stream, StreamRecord

LEMMA WriteAtEnd ==
  ASSUME NEW s \in StreamRecord, s.offset = Len(s.data), NEW bytes \in Bytestrings
  PROVE  Write(s, bytes) = Written(s, bytes) /\ Written(s, bytes) \in StreamRecord
<1>1. s.data \in Bytestrings /\ Len(s.data) \in Nat /\ Len(bytes) \in Nat
  BY Lengths DEF StreamRecord
<1>2. s.data \o bytes \in Bytestrings
  BY <1>1, Joined
<1>3. (SubSeq(s.data, 1, s.offset) \o bytes) \o SubSeq(s.data, s.offset + 1, Len(s.data))
        = s.data \o bytes
  <2> DEFINE d == s.data
  <2> HIDE DEF d
  <2>1. d \in Seq(Byte256) /\ Len(d) \in Nat
    BY <1>1 DEF d, Bytestrings
  <2>2. SubSeq(d, 1, Len(d)) = d /\ SubSeq(d, Len(d) + 1, Len(d)) = <<>>
    BY ONLY <2>1, SubSeqFull, SubSeqEmpty
  <2>3. d \o bytes \in Seq(Byte256)
    BY <1>2 DEF d, Bytestrings
  <2>4. (d \o bytes) \o <<>> = d \o bytes
    BY ONLY <2>3, ConcatEmptySeq
  <2> QED
    BY <2>2, <2>4 DEF d
<1>4. Write(s, bytes) = [s EXCEPT !.data = s.data \o bytes, !.offset = s.offset + Len(bytes)]
  BY <1>3, Zenon DEF Write
<1>5. s = [data |-> s.data, offset |-> s.offset, role |-> s.role, log |-> s.log]
  BY DEF StreamRecord
<1>6. Write(s, bytes) = Written(s, bytes)
  BY <1>4, <1>5 DEF Written
<1>7. Written(s, bytes) \in StreamRecord
  BY <1>1, <1>2 DEF Written, StreamRecord
<1> QED
  BY <1>6, <1>7

\* The names of the arguments, one behind the other.
Signature(bytes, names) ==
  /\ bytes \in [0..Len(names) -> Bytestrings] /\ bytes[0] = <<>>
  /\ \A i \in 1..Len(names) :
       bytes[i] = (bytes[i - 1] \o Integral(Len(names[i]), 1)) \o names[i]

LEMMA SignatureBytes ==
  ASSUME NEW names \in Seq(Bytestrings)
  PROVE  \E bytes : /\ Signature(bytes, names)
                    /\ SignatureStream(names) =
                         [data |-> bytes[Len(names)], offset |-> Len(bytes[Len(names)]),
                          role |-> "signature", log |-> <<>>]
<1> DEFINE n == Len(names)
           F(f) == [i \in 0..n |-> IF i = 0 THEN <<>>
                                   ELSE f[i - 1] \o Integral(Len(names[i]), 1) \o names[i]]
           step == [p \in (1..n) \X Bytestrings |->
                      (p[2] \o Integral(Len(names[p[1]]), 1)) \o names[p[1]]]
           bytes == CHOOSE f : f = F(f)
<1>1. n \in Nat /\ \A i \in 1..n : names[i] \in Bytestrings /\ Len(names[i]) \in Nat
                                   /\ Integral(Len(names[i]), 1) \in Bytestrings
  BY LenProperties, ElementOfSeq, Lengths, ManyBytes
<1>2. step \in [(1..n) \X Bytestrings -> Bytestrings]
  BY <1>1, Joined3
<1>3. <<>> \in Bytestrings
  BY Joined
<1> HIDE DEF n
<1>4. PICK f \in [0..n -> Bytestrings] : Iterates(f, n, <<>>, step)
  <2> HIDE DEF step
  <2> QED
    BY <1>1, <1>2, <1>3, Recursion
<1>5. f = F(f)
  <2>1. \A i \in 0..n : f[i] = IF i = 0 THEN <<>> ELSE step[<<i, f[i - 1]>>]
    BY <1>4 DEF Iterates
  <2>2. \A i \in 1..n : step[<<i, f[i - 1]>>]
                          = (f[i - 1] \o Integral(Len(names[i]), 1)) \o names[i]
    <3> SUFFICES ASSUME NEW i \in 1..n
        PROVE step[<<i, f[i - 1]>>] = (f[i - 1] \o Integral(Len(names[i]), 1)) \o names[i]
      OBVIOUS
    <3>1. f[i - 1] \in Bytestrings
      BY <1>1, <1>4
    <3> QED
      BY <3>1
  <2> HIDE DEF step
  <2>3. \A i \in 0..n : f[i] = IF i = 0 THEN <<>>
                               ELSE f[i - 1] \o Integral(Len(names[i]), 1) \o names[i]
    <3> SUFFICES ASSUME NEW i \in 0..n, i # 0
        PROVE f[i] = f[i - 1] \o Integral(Len(names[i]), 1) \o names[i]
      BY <2>1
    <3>1. i \in 1..n
      BY <1>1
    <3> QED
      BY <2>1, <2>2, <3>1, Zenon
  <2>4. f = [i \in 0..n |-> f[i]]
    BY <1>4
  <2> QED
    BY <2>3, <2>4, Zenon
<1>6. bytes = F(bytes)
  BY <1>5
<1>7. SignatureStream(names) = Write(Stream("signature"), bytes[n])
  BY DEF SignatureStream, n
<1> HIDE DEF bytes
<1>8. bytes[0] = <<>> /\ DOMAIN bytes = 0..n
  BY <1>1, <1>6
<1>9. \A i \in 1..n : bytes[i] = (bytes[i - 1] \o Integral(Len(names[i]), 1)) \o names[i]
  <2> SUFFICES ASSUME NEW i \in 1..n
      PROVE bytes[i] = (bytes[i - 1] \o Integral(Len(names[i]), 1)) \o names[i]
    OBVIOUS
  <2>1. i \in 0..n /\ i # 0
    BY <1>1
  <2> HIDE DEF n
  <2> QED
    BY <1>6, <2>1, Zenon
<1>10. \A i \in 0..n : bytes[i] \in Bytestrings
  <2> DEFINE T == {i \in 0..n : bytes[i] \in Bytestrings}
  <2>1. T \subseteq 0..n /\ 0 \in T
    BY <1>1, <1>3, <1>8
  <2>2. \A i \in 1..n : i - 1 \in T => i \in T
    <3> SUFFICES ASSUME NEW i \in 1..n, i - 1 \in T PROVE i \in T
      OBVIOUS
    <3>1. i \in 0..n /\ bytes[i - 1] \in Bytestrings
      BY <1>1
    <3>2. bytes[i] \in Bytestrings
      <4>1. names[i] \in Bytestrings /\ Integral(Len(names[i]), 1) \in Bytestrings
        BY <1>1
      <4>2. (bytes[i - 1] \o Integral(Len(names[i]), 1)) \o names[i] \in Bytestrings
        BY ONLY <3>1, <4>1, Joined3, Zenon
      <4> QED
        BY <1>9, <4>2, Zenon
    <3> QED
      BY <3>1, <3>2
  <2> HIDE DEF T
  <2>3. T = 0..n
    BY <1>1, <2>1, <2>2, UpwardInduction
  <2> QED
    BY <2>3 DEF T
<1>11. bytes \in [0..n -> Bytestrings]
  BY <1>6, <1>8, <1>10
<1>12. Signature(bytes, names)
  BY <1>8, <1>9, <1>11 DEF Signature, n
<1>13. Write(Stream("signature"), bytes[n])
         = [data |-> bytes[n], offset |-> Len(bytes[n]), role |-> "signature", log |-> <<>>]
  <2>1. bytes[n] \in Bytestrings
    BY <1>1, <1>10
  <2> DEFINE b == bytes[n]
  <2> HIDE DEF b
  <2>2. Stream("signature") \in StreamRecord /\ b \in Bytestrings
    BY <2>1, NewStream DEF b
  <2>3. Write(Stream("signature"), b) = Written(Stream("signature"), b)
    BY <2>2, NewStream, WriteAtEnd
  <2>4. <<>> \o b = b /\ Len(<<>>) + Len(b) = Len(b)
    BY <2>2, ConcatEmptySeq, Lengths, EmptySeq DEF Bytestrings
  <2>5. Written(Stream("signature"), b)
          = [data |-> b, offset |-> Len(b), role |-> "signature", log |-> <<>>]
    BY <2>4 DEF Written, Stream
  <2> QED
    BY <2>3, <2>5 DEF b
<1> QED
  BY <1>7, <1>12, <1>13 DEF n

-----------------------------------------------------------------------------
(* What the reader finds at an offset.                                      *)

LEMMA AtParts ==
  ASSUME NEW d \in Bytestrings, NEW o \in Nat, NEW a \in Bytestrings, NEW b \in Bytestrings,
         At(d, o, a \o b)
  PROVE  At(d, o, a) /\ At(d, o + Len(a), b)
<1>1. /\ Len(a) \in Nat /\ Len(b) \in Nat /\ Len(d) \in Nat /\ Len(a \o b) = Len(a) + Len(b)
      /\ \A i \in 1..Len(a) : (a \o b)[i] = a[i]
      /\ \A i \in 1..Len(b) : (a \o b)[Len(a) + i] = b[i]
  BY Lengths, Joined
<1>2. o + Len(a \o b) <= Len(d) /\ \A i \in 1..Len(a \o b) : d[o + i] = (a \o b)[i]
  BY DEF At
<1> DEFINE ab == a \o b
<1>3. /\ Len(a) \in Nat /\ Len(b) \in Nat /\ Len(d) \in Nat /\ Len(ab) = Len(a) + Len(b)
      /\ \A i \in 1..Len(a) : ab[i] = a[i]
      /\ \A i \in 1..Len(b) : ab[Len(a) + i] = b[i]
      /\ o + Len(ab) <= Len(d) /\ \A i \in 1..Len(ab) : d[o + i] = ab[i]
  BY <1>1, <1>2
<1> HIDE DEF ab
<1>4. \A i \in 1..Len(a) : d[o + i] = a[i]
  BY <1>3
<1>5. \A i \in 1..Len(b) : d[(o + Len(a)) + i] = b[i]
  <2> SUFFICES ASSUME NEW i \in 1..Len(b) PROVE d[(o + Len(a)) + i] = b[i]
    OBVIOUS
  <2>1. Len(a) + i \in 1..Len(ab) /\ (o + Len(a)) + i = o + (Len(a) + i)
    BY <1>3
  <2> QED
    BY <1>3, <2>1
<1>6. o + Len(a) <= Len(d) /\ (o + Len(a)) + Len(b) <= Len(d)
  BY <1>3
<1> QED
  BY <1>4, <1>5, <1>6 DEF At

LEMMA AtThree ==
  ASSUME NEW d \in Bytestrings, NEW o \in Nat,
         NEW a \in Bytestrings, NEW b \in Bytestrings, NEW c \in Bytestrings,
         At(d, o, (a \o b) \o c)
  PROVE  /\ At(d, o, a) /\ At(d, o + Len(a), b) /\ At(d, (o + Len(a)) + Len(b), c)
         /\ Len((a \o b) \o c) = (Len(a) + Len(b)) + Len(c)
<1>1. a \o b \in Bytestrings /\ Len(a \o b) = Len(a) + Len(b)
  BY Joined
<1>2. At(d, o, a \o b) /\ At(d, o + Len(a \o b), c)
  BY <1>1, AtParts
<1>3. At(d, o, a) /\ At(d, o + Len(a), b)
  BY <1>2, AtParts
<1>4. o + Len(a \o b) = (o + Len(a)) + Len(b)
  BY <1>1, Lengths
<1>5. Len((a \o b) \o c) = Len(a \o b) + Len(c)
  BY <1>1, Joined
<1> QED
  BY <1>1, <1>2, <1>3, <1>4, <1>5

LEMMA AtPair ==
  \A d, a, b \in Bytestrings : \A o \in Nat :
    At(d, o, a \o b) =>
      At(d, o, a) /\ At(d, o + Len(a), b) /\ Len(a \o b) = Len(a) + Len(b)
BY AtParts, Joined

LEMMA AtTriple ==
  \A d, a, b, c \in Bytestrings : \A o \in Nat :
    At(d, o, (a \o b) \o c) =>
      /\ At(d, o, a) /\ At(d, o + Len(a), b) /\ At(d, (o + Len(a)) + Len(b), c)
      /\ Len((a \o b) \o c) = (Len(a) + Len(b)) + Len(c)
BY AtThree

LEMMA ByteType ==
  ASSUME Top.data \in Bytestrings, NEW o \in Nat
  PROVE  Byte(o) \in Byte256
<1>1. Len(Top.data) \in Nat /\ \A i \in 1..Len(Top.data) : Top.data[i] \in Byte256
  BY Lengths
<1>2. CASE o < Len(Top.data)
  BY <1>1, <1>2 DEF Byte
<1>3. CASE ~(o < Len(Top.data))
  BY <1>3 DEF Byte, Byte256
<1> QED
  BY <1>2, <1>3

LEMMA AtByte ==
  ASSUME Top.data \in Bytestrings, NEW o \in Nat, NEW b \in Bytestrings, At(Top.data, o, b)
  PROVE  \A i \in 1..Len(b) : Byte(o + i - 1) = b[i]
<1> SUFFICES ASSUME NEW i \in 1..Len(b) PROVE Byte(o + i - 1) = b[i]
  OBVIOUS
<1>1. Len(Top.data) \in Nat /\ Len(b) \in Nat
  BY Lengths
<1>2. o + Len(b) <= Len(Top.data) /\ Top.data[o + i] = b[i]
  BY DEF At
<1>3. o + i - 1 < Len(Top.data) /\ (o + i - 1) + 1 = o + i
  BY <1>1, <1>2
<1> QED
  BY <1>2, <1>3 DEF Byte

LEMMA AtFirst ==
  ASSUME Top.data \in Bytestrings, NEW o \in Nat, NEW b \in Bytestrings, At(Top.data, o, b),
         Len(b) >= 1
  PROVE  Byte(o) = b[1]
<1>1. 1 \in 1..Len(b) /\ o + 1 - 1 = o
  BY Lengths
<1> QED
  BY <1>1, AtByte

LEMMA AtBytes ==
  ASSUME Top.data \in Bytestrings, NEW o \in Nat, NEW b \in Bytestrings, At(Top.data, o, b)
  PROVE  Bytes(o, Len(b)) = b
<1> DEFINE d == Top.data
<1>1. Len(d) \in Nat /\ Len(b) \in Nat /\ \A i \in 1..Len(d) : d[i] \in Byte256
  BY Lengths
<1>2. o + Len(b) <= Len(d) /\ \A i \in 1..Len(b) : d[o + i] = b[i]
  BY DEF At
<1>3. Len(b) <= Len(d) - o
  BY <1>1, <1>2
<1>4. Bytes(o, Len(b)) = SubSeq(d, o + 1, o + Len(b))
  BY <1>3 DEF Bytes
<1> HIDE DEF d
<1>5. \A i \in (o + 1)..(o + Len(b)) : d[i] \in Byte256
  BY <1>1, <1>2
<1>6. o + 1 \in Int /\ o + Len(b) \in Int
  BY <1>1
<1> DEFINE s == SubSeq(d, o + 1, o + Len(b))
<1>7. /\ s \in Seq(Byte256)
      /\ Len(s) = IF o + 1 <= o + Len(b) THEN (o + Len(b)) - (o + 1) + 1 ELSE 0
      /\ \A i \in 1..((o + Len(b)) - (o + 1) + 1) : s[i] = d[(o + 1) + i - 1]
  BY ONLY <1>5, <1>6, SubSeqProperties
<1> HIDE DEF s
<1>8. Len(s) = Len(b) /\ \A i \in 1..Len(s) : s[i] = d[o + i]
  BY <1>1, <1>7
<1>9. s = b
  BY <1>1, <1>2, <1>7, <1>8, SeqEqual DEF Bytestrings
<1> QED
  BY <1>4, <1>9 DEF s

LEMMA AtNumber ==
  ASSUME Top.data \in Bytestrings, NEW o \in Nat, NEW b \in Bytestrings, At(Top.data, o, b)
  PROVE  Number(o, Len(b)) = BytesToInt(b)
<1>1. \A i \in 1..Len(b) : Byte(o + i - 1) = b[i]
  BY AtByte
<1>2. b = [i \in 1..Len(b) |-> b[i]]
  BY LenProperties DEF Bytestrings
<1> DEFINE f == [i \in 1..Len(b) |-> Byte(o + i - 1)]
<1>3. f = b
  BY <1>1, <1>2
<1>4. Number(o, Len(b)) = BytesToInt(f)
  BY Zenon DEF Number
<1> HIDE DEF f
<1> QED
  BY <1>3, <1>4

\* Numbers that are read are at most Huge.
LEMMA NumberType ==
  ASSUME Top.data \in Bytestrings, NEW o \in Nat
  PROVE  Number(o, 2) \in Nat /\ Number(o, 4) \in 0..Huge
<1> DEFINE f(n) == [i \in 1..n |-> Byte(o + i - 1)]
<1>1. ASSUME NEW n \in Nat
      PROVE  f(n) \in Bytestrings /\ Len(f(n)) = n /\ \A i \in 1..n : f(n)[i] \in Byte256
  <2>1. \A i \in 1..n : Byte(o + i - 1) \in Byte256
    <3> SUFFICES ASSUME NEW i \in 1..n PROVE Byte(o + i - 1) \in Byte256
      OBVIOUS
    <3>1. o + i - 1 \in Nat
      OBVIOUS
    <3> QED
      BY <3>1, ByteType
  <2> QED
    BY <2>1 DEF Bytestrings
<1>2. Number(o, 2) = BytesToInt(f(2)) /\ Number(o, 4) = BytesToInt(f(4))
  BY Zenon DEF Number
<1>3. /\ f(2) \in Bytestrings /\ Len(f(2)) = 2 /\ \A i \in 1..2 : f(2)[i] \in Byte256
      /\ f(4) \in Bytestrings /\ Len(f(4)) = 4 /\ \A i \in 1..4 : f(4)[i] \in Byte256
  BY <1>1
<1> DEFINE g == f(2)
           h == f(4)
<1>4. /\ g \in Bytestrings /\ Len(g) = 2 /\ \A i \in 1..2 : g[i] \in Byte256
      /\ h \in Bytestrings /\ Len(h) = 4 /\ \A i \in 1..4 : h[i] \in Byte256
      /\ Number(o, 2) = BytesToInt(g) /\ Number(o, 4) = BytesToInt(h)
  BY <1>2, <1>3
<1> HIDE DEF f, g, h
<1>5. BytesToInt(g) \in Nat
  <2>1. g[1] \in 0..255 /\ g[2] \in 0..255
    BY <1>4 DEF Byte256
  <2>2. BytesToInt(g) = g[1] + 256 * g[2]
    BY <1>4, TwoRead
  <2> DEFINE p == g[1]
             q == g[2]
  <2>3. p \in 0..255 /\ q \in 0..255 /\ BytesToInt(g) = p + 256 * q
    BY <2>1, <2>2
  <2> HIDE DEF p, q
  <2>4. p + 256 * q \in Nat
    BY <2>3
  <2> QED
    BY <2>3, <2>4, Zenon
<1>6. CASE h[4] > 127
  <2>1. BytesToInt(h) = Huge
    BY <1>4, <1>6, Zenon DEF BytesToInt
  <2> QED
    BY <1>4, <1>5, <2>1, HugeSize
<1>7. CASE ~(h[4] > 127)
  <2>1. /\ h[1] \in 0..255 /\ h[2] \in 0..255 /\ h[3] \in 0..255 /\ h[4] \in 0..127
    BY <1>4, <1>7 DEF Byte256
  <2>2. BytesToInt(h) = h[1] + 256 * (h[2] + 256 * (h[3] + 256 * h[4]))
    BY <1>4, <2>1, FourRead
  <2>3. BytesToInt(h) \in Nat /\ BytesToInt(h) < Bound
    <3> DEFINE p == h[1]
               q == h[2]
               r == h[3]
               s == h[4]
    <3>1. p \in 0..255 /\ q \in 0..255 /\ r \in 0..255 /\ s \in 0..127
      BY <2>1
    <3>2. BytesToInt(h) = p + 256 * (q + 256 * (r + 256 * s))
      BY <2>2
    <3> HIDE DEF p, q, r, s
    <3>3. /\ p + 256 * (q + 256 * (r + 256 * s)) \in Nat
          /\ p + 256 * (q + 256 * (r + 256 * s)) < Bound
      BY ONLY <3>1, SMT DEF Bound
    <3> QED
      BY <3>2, <3>3, Zenon
  <2>4. Bound = Huge + 1 /\ Huge \in Nat
    BY SMT DEF Huge, Bound
  <2>5. BytesToInt(h) \in 0..Huge
    BY ONLY <2>3, <2>4
  <2> QED
    BY <1>4, <1>5, <2>5
<1> QED
  BY <1>6, <1>7

\* Where the names of the arguments begin.
Chain(at, o, n) ==
  /\ at \in [1..(n + 1) -> Nat] /\ at[1] = o
  /\ \A i \in 1..n : at[i + 1] = at[i] + 1 + Byte(at[i])

LEMMA NamesFromChain ==
  ASSUME Top.data \in Bytestrings, NEW o \in Nat, NEW n \in Nat
  PROVE  Chain(NamesFrom(o, n), o, n)
<1> DEFINE F(f) == [i \in 1..(n + 1) |-> IF i = 1 THEN o ELSE f[i - 1] + 1 + Byte(f[i - 1])]
           at == CHOOSE f : f = F(f)
           step == [p \in (1..n) \X Nat |-> p[2] + 1 + Byte(p[2])]
<1>1. \A x \in Nat : Byte(x) \in Nat
  BY ByteType DEF Byte256
<1>2. step \in [(1..n) \X Nat -> Nat]
  BY <1>1
<1>3. PICK f \in [0..n -> Nat] : Iterates(f, n, o, step)
  <2> HIDE DEF step
  <2> QED
    BY <1>2, Recursion
<1> DEFINE g == [i \in 1..(n + 1) |-> f[i - 1]]
<1>4. \A i \in 0..n : f[i] = IF i = 0 THEN o ELSE f[i - 1] + 1 + Byte(f[i - 1])
  <2>1. \A i \in 0..n : f[i] = IF i = 0 THEN o ELSE step[<<i, f[i - 1]>>]
    BY <1>3 DEF Iterates
  <2>2. \A i \in 1..n : step[<<i, f[i - 1]>>] = f[i - 1] + 1 + Byte(f[i - 1])
    <3> SUFFICES ASSUME NEW i \in 1..n
        PROVE step[<<i, f[i - 1]>>] = f[i - 1] + 1 + Byte(f[i - 1])
      OBVIOUS
    <3>1. f[i - 1] \in Nat
      BY <1>3
    <3> QED
      BY <3>1
  <2> HIDE DEF step
  <2> SUFFICES ASSUME NEW i \in 0..n
      PROVE f[i] = IF i = 0 THEN o ELSE f[i - 1] + 1 + Byte(f[i - 1])
    OBVIOUS
  <2>3. CASE i = 0
    BY <2>1, <2>3
  <2>4. CASE i # 0
    <3>1. i \in 1..n
      BY <2>4
    <3>2. f[i] = step[<<i, f[i - 1]>>]
      BY <2>1, <2>4
    <3> QED
      BY <2>2, <2>4, <3>1, <3>2
  <2> QED
    BY <2>3, <2>4
<1>5. g = F(g)
  <2> SUFFICES ASSUME NEW i \in 1..(n + 1)
      PROVE g[i] = IF i = 1 THEN o ELSE g[i - 1] + 1 + Byte(g[i - 1])
    OBVIOUS
  <2>1. CASE i = 1
    BY <1>4, <2>1
  <2>2. CASE i # 1
    <3>1. i - 1 \in 0..n /\ i - 1 # 0 /\ i - 1 \in 1..(n + 1) /\ g[i] = f[i - 1] /\ g[i - 1] = f[(i - 1) - 1]
      BY <2>2
    <3> QED
      BY <1>4, <2>2, <3>1
  <2> QED
    BY <2>1, <2>2
<1>6. at = F(at)
  BY <1>5
<1>7. NamesFrom(o, n) = at
  BY DEF NamesFrom
<1> HIDE DEF at
<1>8. at[1] = o /\ DOMAIN at = 1..(n + 1)
  BY <1>6
<1>9. \A i \in 1..n : at[i + 1] = at[i] + 1 + Byte(at[i])
  <2> SUFFICES ASSUME NEW i \in 1..n PROVE at[i + 1] = at[i] + 1 + Byte(at[i])
    OBVIOUS
  <2>1. i + 1 \in 1..(n + 1) /\ i + 1 # 1 /\ (i + 1) - 1 = i
    OBVIOUS
  <2>2. at[i + 1] = IF i + 1 = 1 THEN o ELSE at[(i + 1) - 1] + 1 + Byte(at[(i + 1) - 1])
    BY <1>6, <2>1
  <2> QED
    BY <2>1, <2>2
<1>10. \A i \in 0..n : at[i + 1] \in Nat
  <2> DEFINE T == {i \in 0..n : at[i + 1] \in Nat}
  <2>1. T \subseteq 0..n /\ 0 \in T
    BY <1>8
  <2>2. \A i \in 1..n : i - 1 \in T => i \in T
    <3> SUFFICES ASSUME NEW i \in 1..n, i - 1 \in T PROVE i \in T
      OBVIOUS
    <3>1. i \in 0..n /\ (i - 1) + 1 = i
      OBVIOUS
    <3>2. at[i] \in Nat
      BY <3>1
    <3>3. Byte(at[i]) \in Nat /\ at[i + 1] = at[i] + 1 + Byte(at[i])
      BY <1>1, <1>9, <3>2
    <3>4. at[i + 1] \in Nat
      BY <3>2, <3>3
    <3> QED
      BY <3>1, <3>4
  <2> HIDE DEF T
  <2>3. T = 0..n
    BY <2>1, <2>2, UpwardInduction
  <2> QED
    BY <2>3 DEF T
<1>11. \A i \in 1..(n + 1) : at[i] \in Nat
  <2> SUFFICES ASSUME NEW i \in 1..(n + 1) PROVE at[i] \in Nat
    OBVIOUS
  <2>1. i - 1 \in 0..n /\ (i - 1) + 1 = i
    OBVIOUS
  <2> QED
    BY <1>10, <2>1
<1>12. at \in [1..(n + 1) -> Nat]
  BY <1>6, <1>8, <1>11
<1> QED
  BY <1>7, <1>8, <1>9, <1>12 DEF Chain

\* The parts of Decoded.
Start(o) == o + 7 + Byte(o + 5)

Places(o) == NamesFrom(Start(o), Byte(o + 6))

HeaderEnd(o) == Places(o)[Byte(o + 6) + 1]

FunctionItem(o) ==
  Item("DEFINE_FUNCTION", 0, Bytes(o + 7, Byte(o + 5)),
       [i \in 1..Byte(o + 6) |-> Bytes(Places(o)[i] + 1, Byte(Places(o)[i]))],
       Bytes(HeaderEnd(o), Number(o + 1, 4)))

FunctionRead(o) ==
  [item |-> FunctionItem(o),
   end |-> HeaderEnd(o),
   next |-> IF Number(o + 1, 4) <= Len(Top.data) - HeaderEnd(o)
            THEN HeaderEnd(o) + Number(o + 1, 4) ELSE Len(Top.data)]

Texts == {"PUSH_STRING", "LOAD_ID", "SET_NAME"}

LEMMA DecodedNumber ==
  ASSUME NEW o, OpName(Byte(o)) = "PUSH_INTEGRAL"
  PROVE  Decoded(o)
           = Read(Item("PUSH_INTEGRAL", Number(o + 2, 4), <<Byte(o + 1)>>, <<>>, <<>>), o + 6)
BY Zenon DEF Decoded

LEMMA DecodedText ==
  ASSUME NEW o, NEW op \in Texts, OpName(Byte(o)) = op
  PROVE  Decoded(o)
           = Read(Item(op, 0, Bytes(o + 3, Number(o + 1, 2)), <<>>, <<>>),
                  o + 3 + Number(o + 1, 2))
<1>1. op # "PUSH_INTEGRAL" /\ op # "CALLB" /\ op # "DEFINE_FUNCTION"
  BY DEF Texts
<1> QED
  BY <1>1, Zenon DEF Decoded, Texts

LEMMA DecodedCall ==
  ASSUME NEW o, OpName(Byte(o)) = "CALLB"
  PROVE  Decoded(o) = Read(Item("CALLB", Byte(o + 1), <<>>, <<>>, <<>>), o + 2)
<1>1. "CALLB" # "PUSH_INTEGRAL" /\ "CALLB" \notin Texts
  BY DEF Texts
<1> QED
  BY <1>1, Zenon DEF Decoded, Texts

LEMMA DecodedFunction ==
  ASSUME NEW o, OpName(Byte(o)) = "DEFINE_FUNCTION"
  PROVE  Decoded(o) = FunctionRead(o)
<1>1. /\ "DEFINE_FUNCTION" # "PUSH_INTEGRAL" /\ "DEFINE_FUNCTION" # "CALLB"
      /\ "DEFINE_FUNCTION" \notin Texts
  BY DEF Texts
<1> QED
  BY <1>1, Zenon DEF Decoded, FunctionRead, FunctionItem, Start, Places, HeaderEnd, Texts

LEMMA DecodedPlain ==
  ASSUME NEW o, NEW op, OpName(Byte(o)) = op, op \notin Reading
  PROVE  Decoded(o) = Read(Plain(op), o + 1)
<1>1. /\ op # "PUSH_INTEGRAL" /\ op # "CALLB" /\ op # "DEFINE_FUNCTION" /\ op \notin Texts
  BY DEF Texts, Reading
<1> QED
  BY <1>1, Zenon DEF Decoded, Texts

LEMMA DecodedType ==
  ASSUME Top.data \in Bytestrings, NEW o \in Nat
  PROVE  Decoded(o).next \in Nat /\ Decoded(o).end \in Nat
<1>1. /\ Number(o + 1, 2) \in Nat /\ Number(o + 1, 4) \in Nat
  <2>1. o + 1 \in Nat
    OBVIOUS
  <2>2. Number(o + 1, 2) \in Nat /\ Number(o + 1, 4) \in 0..Huge
    BY <2>1, NumberType
  <2> QED
    BY <2>2, HugeSize
<1>2. \A x \in Nat : Byte(x) \in Nat
  BY ByteType DEF Byte256
<1>3. CASE OpName(Byte(o)) = "PUSH_INTEGRAL"
  <2> DEFINE item == Item("PUSH_INTEGRAL", Number(o + 2, 4), <<Byte(o + 1)>>, <<>>, <<>>)
  <2>1. Decoded(o) = Read(item, o + 6)
    BY <1>3, DecodedNumber
  <2> HIDE DEF item
  <2> QED
    BY <2>1 DEF Read
<1>4. CASE OpName(Byte(o)) \in Texts
  <2>1. /\ Decoded(o).next = o + 3 + Number(o + 1, 2)
        /\ Decoded(o).end = o + 3 + Number(o + 1, 2)
    BY <1>4, DecodedText DEF Read
  <2> QED
    BY <1>1, <2>1
<1>5. CASE OpName(Byte(o)) = "CALLB"
  BY <1>5, DecodedCall DEF Read
<1>6. CASE OpName(Byte(o)) = "DEFINE_FUNCTION"
  <2>1. Byte(o + 5) \in Nat /\ Byte(o + 6) \in Nat
    BY <1>2
  <2>2. Start(o) \in Nat
    BY <2>1 DEF Start
  <2>3. Chain(Places(o), Start(o), Byte(o + 6))
    BY <2>1, <2>2, NamesFromChain DEF Places
  <2>4. HeaderEnd(o) \in Nat
    <3>1. Places(o) \in [1..(Byte(o + 6) + 1) -> Nat] /\ Byte(o + 6) + 1 \in 1..(Byte(o + 6) + 1)
      BY <2>1, <2>3 DEF Chain
    <3> QED
      BY <3>1 DEF HeaderEnd
  <2>5. Len(Top.data) \in Nat
    BY Lengths
  <2>6. /\ Decoded(o).next = IF Number(o + 1, 4) <= Len(Top.data) - HeaderEnd(o)
                             THEN HeaderEnd(o) + Number(o + 1, 4) ELSE Len(Top.data)
        /\ Decoded(o).end = HeaderEnd(o)
    <3>1. Decoded(o) = FunctionRead(o)
      BY <1>6, DecodedFunction
    <3> QED
      BY <3>1 DEF FunctionRead
  <2>7. HeaderEnd(o) + Number(o + 1, 4) \in Nat
    BY <1>1, <2>4
  <2> QED
    BY <2>4, <2>5, <2>6, <2>7
<1>7. CASE OpName(Byte(o)) \notin Reading
  <2>1. Decoded(o).next = o + 1 /\ Decoded(o).end = o + 1
    BY <1>7, DecodedPlain DEF Read
  <2> QED
    BY <2>1
<1> QED
  BY <1>3, <1>4, <1>5, <1>6, <1>7 DEF Texts, Reading

\* The reader finds the command c at o, and goes on at p.
Found(o, c, p) ==
  Decoded(o).item = c /\ Decoded(o).next = p /\ Decoded(o).end <= Len(Top.data)

LEMMA FirstByte ==
  ASSUME NEW op, Tabled(op)
  PROVE  /\ Integral(Opcode(op), 1) \in Bytestrings /\ Len(Integral(Opcode(op), 1)) = 1
         /\ OpName(Integral(Opcode(op), 1)[1]) = op
BY OpcodeRead, SingleByte

LEMMA FitsText == ASSUME NEW c, c.op \in Texts, Fits(c) PROVE Short(c)
BY SMT DEF Fits, SizedOps, Texts, Short

LEMMA FitsCall == ASSUME NEW c, c.op = "CALLB", Fits(c) PROVE c.n < 256
BY SMT DEF Fits, SizedOps

LEMMA FoundNumber ==
  ASSUME Top.data \in Bytestrings, NEW o \in Nat, NEW c,
         Command(c), c.op = "PUSH_INTEGRAL", At(Top.data, o, Encode(c))
  PROVE  Found(o, c, o + Len(Encode(c)))
<1> DEFINE first == Integral(Opcode("PUSH_INTEGRAL"), 1)
           x == c.text
           y == Integral(c.n, 4)
<1>1. Tabled("PUSH_INTEGRAL")
  BY DEF Command, Blockless, Tabled
<1>2. first \in Bytestrings /\ Len(first) = 1 /\ OpName(first[1]) = "PUSH_INTEGRAL"
  BY <1>1, FirstByte
<1>3. /\ x \in Bytestrings /\ Len(x) = 1
      /\ c = Item("PUSH_INTEGRAL", c.n, x, <<>>, <<>>) /\ c.n \in 0..Huge
  BY DEF Command, ItemRecord
<1>4. y \in Bytestrings /\ Len(y) = 4 /\ BytesToInt(y) = c.n
  <2>1. c.n \in Nat
    BY <1>3, HugeSize
  <2> QED
    BY <1>3, <2>1, ManyBytes, FourBytes
<1>5. Encode(c) = (first \o x) \o y
  BY DEF Encode, SizedOps
<1> DEFINE n == c.n
<1>6. c = Item("PUSH_INTEGRAL", n, x, <<>>, <<>>) /\ BytesToInt(y) = n
  BY <1>3, <1>4
<1> HIDE DEF first, x, y, n
<1>7. At(Top.data, o, (first \o x) \o y)
  BY <1>5
<1>8. /\ At(Top.data, o, first) /\ At(Top.data, o + 1, x) /\ At(Top.data, o + 2, y)
      /\ Len((first \o x) \o y) = 6
  <2>1. /\ At(Top.data, o, first) /\ At(Top.data, o + Len(first), x)
        /\ At(Top.data, (o + Len(first)) + Len(x), y)
        /\ Len((first \o x) \o y) = (Len(first) + Len(x)) + Len(y)
    <3>1. /\ first \in Bytestrings /\ x \in Bytestrings /\ y \in Bytestrings
          /\ Top.data \in Bytestrings /\ o \in Nat /\ At(Top.data, o, (first \o x) \o y)
      BY <1>2, <1>3, <1>4, <1>7
    <3> QED
      BY ONLY <3>1, AtTriple, SMT
  <2>2. (o + 1) + 1 = o + 2 /\ (1 + 1) + 4 = 6
    OBVIOUS
  <2> QED
    BY <1>2, <1>3, <1>4, <2>1, <2>2
<1>9. OpName(Byte(o)) = "PUSH_INTEGRAL"
  <2>1. Len(first) >= 1
    BY <1>2
  <2>2. Byte(o) = first[1]
    BY <1>2, <1>8, <2>1, AtFirst
  <2> QED
    BY <1>2, <2>2, Zenon
<1>10. <<Byte(o + 1)>> = x
  <2>1. o + 1 \in Nat /\ Byte(o + 1) = x[1]
    <3>1. o + 1 \in Nat /\ Len(x) >= 1 /\ At(Top.data, o + 1, x)
      BY <1>3, <1>8
    <3> QED
      BY <1>3, <3>1, AtFirst
  <2>2. <<x[1]>> = x
    BY <1>3 DEF Bytestrings
  <2> QED
    BY <2>1, <2>2
<1>11. Number(o + 2, 4) = n
  <2>1. o + 2 \in Nat
    OBVIOUS
  <2>2. Number(o + 2, Len(y)) = BytesToInt(y)
    BY <1>4, <1>8, <2>1, AtNumber
  <2> QED
    BY <1>4, <1>6, <2>2
<1>12. Decoded(o) = Read(c, o + 6)
  BY <1>6, <1>9, <1>10, <1>11, DecodedNumber
<1>13. o + 6 <= Len(Top.data)
  BY <1>4, <1>8, Lengths DEF At
<1> QED
  BY <1>5, <1>8, <1>12, <1>13 DEF Found, Read

LEMMA FoundText ==
  ASSUME Top.data \in Bytestrings, NEW o \in Nat, NEW c,
         Command(c), c.op \in Texts, Fits(c), At(Top.data, o, Encode(c))
  PROVE  Found(o, c, o + Len(Encode(c)))
<1> DEFINE op == c.op
           first == Integral(Opcode(op), 1)
           x == Integral(SizeOf(c), 2)
           y == SubSeq(c.text, 1, SizeOf(c))
           n == Len(c.text)
<1>0. op \in Texts /\ op \in SizedOps
  BY DEF Texts, SizedOps
<1>1. Tabled(op)
  BY DEF Command, Blockless, Tabled
<1>2. first \in Bytestrings /\ Len(first) = 1 /\ OpName(first[1]) = op
  BY <1>1, FirstByte
<1>3. c \in ItemRecord /\ c = Item(op, 0, c.text, <<>>, <<>>) /\ c.text \in Bytestrings
  BY <1>0 DEF Command, ItemRecord
<1>4. Short(c)
  <2>1. c.op \in SizedOps /\ c.op # "DEFINE_FUNCTION" /\ c.op # "CALLB"
    BY <1>0 DEF SizedOps
  <2> QED
    BY FitsText
<1>5. /\ SizeOf(c) = n /\ n \in Nat /\ y \in Bytestrings /\ Len(y) = n
      /\ Encode(c) = (first \o x) \o y
  <2>1. c.op \in SizedOps
    BY <1>0
  <2>2. /\ SizeOf(c) = Len(c.text) /\ SizeOf(c) \in Nat
        /\ SubSeq(c.text, 1, SizeOf(c)) \in Bytestrings
        /\ Len(SubSeq(c.text, 1, SizeOf(c))) = SizeOf(c)
        /\ Encode(c) = (Integral(Opcode(c.op), 1) \o Integral(SizeOf(c), 2))
                         \o SubSeq(c.text, 1, SizeOf(c))
    BY <1>3, <1>4, <2>1, SizedBytes, Zenon
  <2> QED
    BY <2>2, Zenon
<1>6. y = c.text
  BY <1>3, <1>5, SubSeqFull DEF Bytestrings
<1>7. x \in Bytestrings /\ Len(x) = 2 /\ BytesToInt(x) = n
  <2>1. n < 65536
    BY <1>4 DEF Short, n
  <2> QED
    BY <1>5, <2>1, ManyBytes, TwoBytes
<1>8. c = Item(op, 0, y, <<>>, <<>>)
  BY <1>3, <1>6
<1> HIDE DEF op, first, x, y, n
<1>9. /\ At(Top.data, o, first) /\ At(Top.data, o + 1, x) /\ At(Top.data, o + 3, y)
      /\ Len((first \o x) \o y) = 3 + n
  <2>1. /\ At(Top.data, o, first) /\ At(Top.data, o + Len(first), x)
        /\ At(Top.data, (o + Len(first)) + Len(x), y)
        /\ Len((first \o x) \o y) = (Len(first) + Len(x)) + Len(y)
    <3>1. At(Top.data, o, (first \o x) \o y)
      BY <1>5, Zenon
    <3>2. /\ first \in Bytestrings /\ x \in Bytestrings /\ y \in Bytestrings
          /\ Top.data \in Bytestrings /\ o \in Nat
      BY <1>2, <1>5, <1>7
    <3> QED
      BY ONLY <3>1, <3>2, AtTriple, SMT
  <2>2. (o + 1) + 2 = o + 3 /\ (1 + 2) + n = 3 + n
    OBVIOUS
  <2> QED
    BY <1>2, <1>5, <1>7, <2>1, <2>2
<1>10. OpName(Byte(o)) = op
  BY <1>2, <1>9, AtFirst
<1>11. Number(o + 1, 2) = n
  <2>1. o + 1 \in Nat
    OBVIOUS
  <2>2. Number(o + 1, Len(x)) = BytesToInt(x)
    BY <1>7, <1>9, <2>1, AtNumber
  <2> QED
    BY <1>7, <2>2
<1>12. Bytes(o + 3, n) = y
  <2>1. o + 3 \in Nat
    OBVIOUS
  <2>2. Bytes(o + 3, Len(y)) = y
    BY <1>5, <1>9, <2>1, AtBytes
  <2> QED
    BY <1>5, <2>2
<1>13. Decoded(o) = Read(c, o + 3 + n)
  BY <1>0, <1>8, <1>10, <1>11, <1>12, DecodedText
<1>14. o + 3 + n <= Len(Top.data)
  BY <1>5, <1>9 DEF At
<1>15. o + (3 + n) = o + 3 + n
  BY <1>5
<1> QED
  BY <1>5, <1>9, <1>13, <1>14, <1>15 DEF Found, Read

LEMMA FoundCall ==
  ASSUME Top.data \in Bytestrings, NEW o \in Nat, NEW c,
         Command(c), c.op = "CALLB", Fits(c), At(Top.data, o, Encode(c))
  PROVE  Found(o, c, o + Len(Encode(c)))
<1> DEFINE first == Integral(Opcode("CALLB"), 1)
           n == c.n
           x == Integral(n, 1)
<1>1. Tabled("CALLB")
  BY DEF Command, Blockless, Tabled
<1>2. first \in Bytestrings /\ Len(first) = 1 /\ OpName(first[1]) = "CALLB"
  BY <1>1, FirstByte
<1>3. c = Item("CALLB", n, <<>>, <<>>, <<>>) /\ n \in Nat
  BY HugeSize DEF Command, ItemRecord
<1>4. n < 256
  BY FitsCall
<1>5. Encode(c) = first \o x
  BY DEF Encode, SizedOps
<1> HIDE DEF first, n
<1>6. x \in Bytestrings /\ Len(x) = 1 /\ x[1] = n
  <2>1. n % 256 = n
    BY <1>3, <1>4
  <2> QED
    BY <1>3, <2>1, OneByte
<1> HIDE DEF x
<1>7. At(Top.data, o, first) /\ At(Top.data, o + 1, x) /\ Len(first \o x) = 2
  <2>1. At(Top.data, o, first) /\ At(Top.data, o + Len(first), x)
    <3>1. At(Top.data, o, first \o x)
      BY <1>5, Zenon
    <3> QED
      BY <1>2, <1>6, <3>1, AtPair, Zenon
  <2>2. Len(first \o x) = Len(first) + Len(x)
    BY <1>2, <1>6, Joined
  <2> QED
    BY <1>2, <1>6, <2>1, <2>2
<1>8. OpName(Byte(o)) = "CALLB"
  <2>1. Len(first) >= 1
    BY <1>2
  <2> QED
    BY <1>2, <1>7, <2>1, AtFirst
<1>9. Byte(o + 1) = n
  <2>1. o + 1 \in Nat
    OBVIOUS
  <2> QED
    BY <1>6, <1>7, <2>1, AtFirst
<1>10. Decoded(o) = Read(c, o + 2)
  BY <1>3, <1>8, <1>9, DecodedCall
<1>11. o + 2 <= Len(Top.data)
  <2>1. (o + 1) + 1 <= Len(Top.data)
    BY <1>6, <1>7 DEF At
  <2>2. (o + 1) + 1 = o + 2
    OBVIOUS
  <2> QED
    BY <2>1, <2>2
<1> QED
  BY <1>5, <1>7, <1>10, <1>11 DEF Found, Read

LEMMA FoundPlain ==
  ASSUME Top.data \in Bytestrings, NEW o \in Nat, NEW b \in Bytestrings, NEW c,
         Len(b) = 1, c = Plain(c.op), c.op = OpName(b[1]), c.op \notin Reading,
         At(Top.data, o, b)
  PROVE  Found(o, c, o + Len(b))
<1>1. OpName(Byte(o)) = c.op
  BY AtFirst
<1>2. Decoded(o) = Read(c, o + 1)
  BY <1>1, DecodedPlain
<1>3. o + 1 <= Len(Top.data)
  BY DEF At
<1> QED
  BY <1>2, <1>3 DEF Found, Read

LEMMA SignatureRead ==
  ASSUME Top.data \in Bytestrings, NEW start \in Nat, NEW names \in Seq(Bytestrings),
         \A i \in 1..Len(names) : Len(names[i]) < 256,
         NEW sig, Signature(sig, names), At(Top.data, start, sig[Len(names)]),
         NEW at, Chain(at, start, Len(names))
  PROVE  /\ at[Len(names) + 1] = start + Len(sig[Len(names)])
         /\ \A i \in 1..Len(names) : Bytes(at[i] + 1, Byte(at[i])) = names[i]
<1> DEFINE n == Len(names)
<1>1. n \in Nat /\ \A i \in 1..n : names[i] \in Bytestrings /\ Len(names[i]) \in Nat
  BY LenProperties, ElementOfSeq, Lengths
<1>2. \A i \in 1..n : /\ Integral(Len(names[i]), 1) \in Bytestrings
                      /\ Len(Integral(Len(names[i]), 1)) = 1
                      /\ Integral(Len(names[i]), 1)[1] = Len(names[i])
  <2> SUFFICES ASSUME NEW i \in 1..n
      PROVE  /\ Integral(Len(names[i]), 1) \in Bytestrings
             /\ Len(Integral(Len(names[i]), 1)) = 1
             /\ Integral(Len(names[i]), 1)[1] = Len(names[i])
    OBVIOUS
  <2> DEFINE k == Len(names[i])
  <2>1. k \in Nat /\ k < 256
    BY <1>1
  <2> HIDE DEF k
  <2>2. k % 256 = k
    BY ONLY <2>1
  <2>3. Integral(k, 1) \in Bytestrings /\ Len(Integral(k, 1)) = 1 /\ Integral(k, 1)[1] = k
    BY <2>1, <2>2, OneByte
  <2> QED
    BY <2>3 DEF k
<1>3. /\ \A i \in 0..n : sig[i] \in Bytestrings /\ Len(sig[i]) \in Nat
      /\ Len(sig[0]) = 0
      /\ \A i \in 1..n : sig[i] = (sig[i - 1] \o Integral(Len(names[i]), 1)) \o names[i]
  BY Lengths, EmptySeq DEF Signature
<1>4. At(Top.data, start, sig[n])
  OBVIOUS
<1>5. /\ at \in [1..(n + 1) -> Nat] /\ at[1] = start
      /\ \A i \in 1..n : at[i + 1] = at[i] + 1 + Byte(at[i])
  BY DEF Chain
<1> HIDE DEF n
<1> DEFINE x(i) == Integral(Len(names[i]), 1)
\* The names up to the i-th stand there.
<1>6. ASSUME NEW i \in 1..n, At(Top.data, start, sig[i])
      PROVE  /\ At(Top.data, start, sig[i - 1])
             /\ At(Top.data, start + Len(sig[i - 1]), x(i))
             /\ At(Top.data, start + Len(sig[i - 1]) + 1, names[i])
             /\ Len(sig[i]) = Len(sig[i - 1]) + 1 + Len(names[i])
  <2> DEFINE a == sig[i - 1]
             b == x(i)
             c == names[i]
  <2>0. i - 1 \in 0..n
    BY <1>1
  <2>1. a \in Bytestrings /\ b \in Bytestrings /\ c \in Bytestrings
    BY <1>1, <1>2, <1>3, <2>0
  <2>4. Len(b) = 1 /\ sig[i] = (a \o b) \o c
    BY <1>2, <1>3
  <2>5. Top.data \in Bytestrings /\ start \in Nat
    OBVIOUS
  <2> HIDE DEF a, b, c
  <2>2. At(Top.data, start, (a \o b) \o c)
    BY <1>6, <2>4
  <2>3. /\ At(Top.data, start, a) /\ At(Top.data, start + Len(a), b)
        /\ At(Top.data, (start + Len(a)) + Len(b), c)
        /\ Len((a \o b) \o c) = (Len(a) + Len(b)) + Len(c)
    BY ONLY <2>1, <2>2, <2>5, AtTriple, SMT
  <2> QED
    BY <2>3, <2>4 DEF a, b, c
<1> HIDE DEF x
<1>7. \A i \in 0..n : At(Top.data, start, sig[i])
  <2> DEFINE T == {i \in 0..n : At(Top.data, start, sig[i])}
  <2>1. T \subseteq 0..n /\ n \in T
    BY <1>1, <1>4
  <2>2. \A i \in 1..n : i \in T => i - 1 \in T
    <3> SUFFICES ASSUME NEW i \in 1..n, i \in T PROVE i - 1 \in T
      OBVIOUS
    <3>1. At(Top.data, start, sig[i - 1])
      BY <1>6
    <3>2. i - 1 \in 0..n
      BY <1>1
    <3> QED
      BY <3>1, <3>2
  <2> HIDE DEF T
  <2>3. T = 0..n
    BY <1>1, <2>1, <2>2, DownwardInduction
  <2> QED
    BY <2>3 DEF T
<1>8. ASSUME NEW i \in 1..n
      PROVE  /\ At(Top.data, start + Len(sig[i - 1]), x(i))
             /\ At(Top.data, start + Len(sig[i - 1]) + 1, names[i])
             /\ Len(sig[i]) = Len(sig[i - 1]) + 1 + Len(names[i])
             /\ Byte(start + Len(sig[i - 1])) = Len(names[i])
             /\ start + Len(sig[i - 1]) \in Nat /\ Len(sig[i - 1]) \in Nat
  <2>1. At(Top.data, start, sig[i])
    BY <1>1, <1>7
  <2>2. /\ At(Top.data, start + Len(sig[i - 1]), x(i))
        /\ At(Top.data, start + Len(sig[i - 1]) + 1, names[i])
        /\ Len(sig[i]) = Len(sig[i - 1]) + 1 + Len(names[i])
    BY <1>6, <2>1
  <2>3. Len(sig[i - 1]) \in Nat
    BY <1>1, <1>3
  <2>4. x(i) \in Bytestrings /\ Len(x(i)) = 1 /\ x(i)[1] = Len(names[i])
    BY <1>2 DEF x
  <2> DEFINE p == start + Len(sig[i - 1])
             y == x(i)
  <2>5. p \in Nat /\ y \in Bytestrings /\ Len(y) >= 1 /\ At(Top.data, p, y)
    BY <2>2, <2>3, <2>4
  <2> HIDE DEF p, y
  <2>6. Byte(p) = y[1]
    BY <2>5, AtFirst
  <2> QED
    BY <2>2, <2>3, <2>4, <2>5, <2>6 DEF p, y
<1>9. \A i \in 0..n : at[i + 1] = start + Len(sig[i])
  <2> DEFINE T == {i \in 0..n : at[i + 1] = start + Len(sig[i])}
  <2>1. T \subseteq 0..n /\ 0 \in T
    BY <1>1, <1>3, <1>5
  <2>2. \A i \in 1..n : i - 1 \in T => i \in T
    <3> SUFFICES ASSUME NEW i \in 1..n, i - 1 \in T PROVE i \in T
      OBVIOUS
    <3>1. i \in 0..n /\ (i - 1) + 1 = i
      BY <1>1
    <3>2. at[i] = start + Len(sig[i - 1])
      BY <3>1
    <3>3. at[i + 1] = at[i] + 1 + Byte(at[i])
      BY <1>5
    <3>4. /\ Byte(at[i]) = Len(names[i]) /\ Len(sig[i]) = Len(sig[i - 1]) + 1 + Len(names[i])
          /\ Len(sig[i - 1]) \in Nat /\ Len(names[i]) \in Nat
      BY <1>1, <1>8, <3>2
    <3>5. at[i + 1] = start + Len(sig[i])
      <4>1. at[i + 1] = start + Len(sig[i - 1]) + 1 + Len(names[i])
        BY ONLY <3>2, <3>3, <3>4
      <4> DEFINE p == Len(sig[i - 1])
                 q == Len(names[i])
                 r == Len(sig[i])
      <4>2. p \in Nat /\ q \in Nat /\ r = p + 1 + q /\ at[i + 1] = start + p + 1 + q
        BY <3>4, <4>1
      <4> HIDE DEF p, q, r
      <4>3. at[i + 1] = start + r
        BY ONLY <4>2, start \in Nat
      <4> QED
        BY <4>3 DEF r
    <3> QED
      BY <3>1, <3>5
  <2> HIDE DEF T
  <2>3. T = 0..n
    BY <1>1, <2>1, <2>2, UpwardInduction
  <2> QED
    BY <2>3 DEF T
<1>10. ASSUME NEW i \in 1..n
       PROVE  Bytes(at[i] + 1, Byte(at[i])) = names[i]
  <2>1. at[i] = start + Len(sig[i - 1])
    <3>1. i - 1 \in 0..n /\ (i - 1) + 1 = i
      BY <1>1
    <3> QED
      BY <1>9, <3>1
  <2>2. /\ Byte(at[i]) = Len(names[i]) /\ names[i] \in Bytestrings
        /\ At(Top.data, at[i] + 1, names[i]) /\ at[i] + 1 \in Nat
    <3>1. names[i] \in Bytestrings
      BY <1>1
    <3> DEFINE p == start + Len(sig[i - 1])
    <3>2. Byte(p) = Len(names[i]) /\ At(Top.data, p + 1, names[i]) /\ p \in Nat /\ at[i] = p
      BY <1>8, <2>1
    <3> HIDE DEF p
    <3> QED
      BY <3>1, <3>2
  <2>3. Bytes(at[i] + 1, Len(names[i])) = names[i]
    BY <2>2, AtBytes
  <2> QED
    BY <2>2, <2>3
<1>11. at[n + 1] = start + Len(sig[n])
  BY <1>1, <1>9
<1> QED
  BY <1>10, <1>11 DEF n

\* The parts of the header.
LEMMA HeaderParts ==
  ASSUME NEW f, NEW size \in Nat, f.text \in Bytestrings, f.names \in Seq(Bytestrings)
  PROVE  /\ Header(f, size) \in Bytestrings
         /\ Len(Header(f, size)) = 7 + Len(f.text)
         /\ \A d \in Bytestrings : \A o \in Nat : At(d, o, Header(f, size)) =>
              /\ At(d, o, Integral(Opcode("DEFINE_FUNCTION"), 1))
              /\ At(d, o + 1, Integral(size, 4))
              /\ At(d, o + 5, Integral(Len(f.text), 1))
              /\ At(d, o + 6, Integral(Len(f.names), 1))
              /\ At(d, o + 7, f.text)
<1> DEFINE A == Integral(Opcode("DEFINE_FUNCTION"), 1)
           B == Integral(size, 4)
           C == Integral(Len(f.text), 1)
           D == Integral(Len(f.names), 1)
           E == f.text
           H == Header(f, size)
<1>1. A \in Bytestrings /\ Len(A) = 1
  <2>1. Tabled("DEFINE_FUNCTION")
    BY KnownNames DEF Tabled, Table
  <2> QED
    BY <2>1, FirstByte
<1>2. B \in Bytestrings /\ Len(B) = 4
  BY ManyBytes
<1>3. C \in Bytestrings /\ Len(C) = 1 /\ D \in Bytestrings /\ Len(D) = 1
  <2>1. Len(f.text) \in Nat /\ Len(f.names) \in Nat
    BY Lengths, LenProperties
  <2> QED
    BY <2>1, OneByte
<1>4. E \in Bytestrings /\ Len(E) \in Nat
  BY Lengths
<1>5. H = (((A \o B) \o C) \o D) \o E
  BY DEF Header
<1>6. QED
  <2> HIDE DEF A, B, C, D, E, H
  <2> DEFINE P == (A \o B) \o C
  <2>a. A \in Bytestrings /\ B \in Bytestrings /\ C \in Bytestrings
    BY <1>1, <1>2, <1>3
  <2>b. D \in Bytestrings /\ E \in Bytestrings
    BY <1>3, <1>4
  <2>1. P \in Bytestrings /\ Len(P) = 6
    <3>1. (A \o B) \o C \in Bytestrings /\ Len((A \o B) \o C) = Len(A) + Len(B) + Len(C)
      BY ONLY <2>a, Joined3
    <3> QED
      BY <1>1, <1>2, <1>3, <3>1
  <2>2. H = (P \o D) \o E
    BY <1>5
  <2>3. H \in Bytestrings /\ Len(H) = 7 + Len(E)
    <3> HIDE DEF P
    <3>1. (P \o D) \o E \in Bytestrings /\ Len((P \o D) \o E) = Len(P) + Len(D) + Len(E)
      <4>1. P \in Bytestrings
        BY <2>1
      <4> QED
        BY ONLY <2>b, <4>1, Joined3
    <3> QED
      BY <1>3, <1>4, <2>1, <2>2, <3>1
  <2>4. ASSUME NEW d \in Bytestrings, NEW o \in Nat, At(d, o, H)
        PROVE  At(d, o, A) /\ At(d, o + 1, B) /\ At(d, o + 5, C) /\ At(d, o + 6, D) /\ At(d, o + 7, E)
    <3>1. At(d, o, P) /\ At(d, o + 6, D) /\ At(d, o + 7, E)
      <4> HIDE DEF P
      <4>1. At(d, o, (P \o D) \o E)
        BY <2>2, <2>4
      <4>2. At(d, o, P) /\ At(d, o + Len(P), D) /\ At(d, (o + Len(P)) + Len(D), E)
        <5>1. P \in Bytestrings /\ d \in Bytestrings /\ o \in Nat
          BY <2>1
        <5> QED
          BY ONLY <2>b, <4>1, <5>1, AtTriple, SMT
      <4>3. (o + 6) + 1 = o + 7
        OBVIOUS
      <4> QED
        BY <1>3, <2>1, <4>2, <4>3
    <3>2. At(d, o, A) /\ At(d, o + Len(A), B) /\ At(d, (o + Len(A)) + Len(B), C)
      <4>1. At(d, o, (A \o B) \o C)
        BY <3>1
      <4> QED
        BY ONLY <2>a, <4>1, d \in Bytestrings, o \in Nat, AtTriple, SMT
    <3>3. (o + 1) + 4 = o + 5
      OBVIOUS
    <3> QED
      BY <1>1, <1>2, <3>1, <3>2, <3>3
  <2> QED
    BY <2>3, <2>4 DEF A, B, C, D, E, H

LEMMA FitsFunction ==
  ASSUME NEW c, c.op = "DEFINE_FUNCTION", Fits(c)
  PROVE  /\ Len(c.text) < 256 /\ Len(c.names) < 256 /\ Len(c.body) <= Huge
         /\ \A i \in DOMAIN c.names : Len(c.names[i]) < 256
BY SMT DEF Fits, SizedOps

LEMMA SmallByte ==
  \A k \in Nat : k < 256 =>
    Integral(k, 1) \in Bytestrings /\ Len(Integral(k, 1)) = 1 /\ Integral(k, 1)[1] = k
<1> SUFFICES ASSUME NEW k \in Nat, k < 256
    PROVE Integral(k, 1) \in Bytestrings /\ Len(Integral(k, 1)) = 1 /\ Integral(k, 1)[1] = k
  OBVIOUS
<1>1. k % 256 = k
  OBVIOUS
<1> QED
  BY <1>1, OneByte

LEMMA FoundFunction ==
  ASSUME Top.data \in Bytestrings, NEW o \in Nat, NEW c \in ItemRecord,
         c.op = "DEFINE_FUNCTION", c = Item(c.op, 0, c.text, c.names, c.body),
         Fits(c), At(Top.data, o, FunctionBytes(c))
  PROVE  Found(o, c, o + Len(FunctionBytes(c)))
<1> DEFINE t == c.text
           ns == c.names
           body == c.body
           n == Len(ns)
           H == Header(c, Len(body))
           S == SignatureStream(ns).data
           d == Top.data
<1>1. t \in Bytestrings /\ ns \in Seq(Bytestrings) /\ body \in Bytestrings
  BY DEF ItemRecord
<1>2. Len(t) \in Nat /\ n \in Nat /\ Len(body) \in Nat /\ DOMAIN ns = 1..n
  BY <1>1, Lengths, LenProperties
<1>3. Len(t) < 256 /\ n < 256 /\ Len(body) <= Huge /\ \A i \in 1..n : Len(ns[i]) < 256
  BY <1>2, FitsFunction
<1>4. PICK sig : /\ Signature(sig, ns)
                 /\ SignatureStream(ns) =
                      [data |-> sig[Len(ns)], offset |-> Len(sig[Len(ns)]),
                       role |-> "signature", log |-> <<>>]
  BY <1>1, SignatureBytes
<1>5. S = sig[n] /\ S \in Bytestrings /\ Len(S) \in Nat
  <2>1. S = sig[n]
    BY <1>4
  <2>2. sig[n] \in Bytestrings
    BY <1>2, <1>4 DEF Signature
  <2> QED
    BY <2>1, <2>2, Lengths
<1>6. /\ H \in Bytestrings /\ Len(H) = 7 + Len(t)
      /\ At(d, o, H) =>
           /\ At(d, o, Integral(Opcode("DEFINE_FUNCTION"), 1))
           /\ At(d, o + 1, Integral(Len(body), 4))
           /\ At(d, o + 5, Integral(Len(t), 1))
           /\ At(d, o + 6, Integral(n, 1))
           /\ At(d, o + 7, t)
  BY <1>1, <1>2, HeaderParts
<1>7. FunctionBytes(c) = (H \o S) \o body
  BY DEF FunctionBytes
<1>8. /\ At(d, o, H) /\ At(d, o + Len(H), S) /\ At(d, (o + Len(H)) + Len(S), body)
      /\ Len((H \o S) \o body) = (Len(H) + Len(S)) + Len(body)
  <2>1. H \in Bytestrings /\ S \in Bytestrings /\ body \in Bytestrings
    BY <1>1, <1>5, <1>6
  <2>2. d \in Bytestrings /\ o \in Nat
    OBVIOUS
  <2>3. At(d, o, (H \o S) \o body)
    BY <1>7
  <2> HIDE DEF H, S, body, d
  <2> QED
    BY ONLY <2>1, <2>2, <2>3, AtTriple, SMT
<1>9. OpName(Byte(o)) = "DEFINE_FUNCTION"
  <2> DEFINE first == Integral(Opcode("DEFINE_FUNCTION"), 1)
  <2>1. Tabled("DEFINE_FUNCTION")
    BY KnownNames DEF Tabled, Table
  <2>2. first \in Bytestrings /\ Len(first) >= 1 /\ OpName(first[1]) = "DEFINE_FUNCTION"
    BY <2>1, FirstByte
  <2>3. At(Top.data, o, first)
    BY <1>6, <1>8
  <2> HIDE DEF first
  <2> QED
    BY <2>2, <2>3, AtFirst
<1>10. Number(o + 1, 4) = Len(body)
  <2> DEFINE k == Len(body)
             x == Integral(k, 4)
  <2>1. k \in Nat /\ k \in 0..Huge
    BY <1>2, <1>3, HugeSize
  <2> HIDE DEF k
  <2>2. x \in Bytestrings /\ Len(x) = 4 /\ BytesToInt(x) = k
    BY <2>1, ManyBytes, FourBytes
  <2>3. At(Top.data, o + 1, x) /\ o + 1 \in Nat
    BY <1>6, <1>8 DEF k
  <2> HIDE DEF x
  <2>4. Number(o + 1, Len(x)) = BytesToInt(x)
    BY <2>2, <2>3, AtNumber
  <2> QED
    BY <2>2, <2>4 DEF k
<1>11. Byte(o + 5) = Len(t) /\ Byte(o + 6) = n
  <2> DEFINE x == Integral(Len(t), 1)
             y == Integral(n, 1)
  <2>1. /\ x \in Bytestrings /\ Len(x) >= 1 /\ x[1] = Len(t)
        /\ y \in Bytestrings /\ Len(y) >= 1 /\ y[1] = n
    BY <1>2, <1>3, SmallByte
  <2>2. At(Top.data, o + 5, x) /\ At(Top.data, o + 6, y) /\ o + 5 \in Nat /\ o + 6 \in Nat
    BY <1>6, <1>8
  <2> HIDE DEF x, y
  <2>3. Byte(o + 5) = x[1]
    BY <2>1, <2>2, AtFirst
  <2>4. Byte(o + 6) = y[1]
    BY <2>1, <2>2, AtFirst
  <2> QED
    BY <2>1, <2>3, <2>4
<1>12. Bytes(o + 7, Len(t)) = t
  <2>1. At(Top.data, o + 7, t) /\ o + 7 \in Nat
    BY <1>6, <1>8
  <2> QED
    BY <1>1, <2>1, AtBytes
<1>13. Start(o) = o + Len(H) /\ Start(o) \in Nat
  <2> DEFINE b == Byte(o + 5)
             k == Len(t)
             h == Len(H)
  <2>1. b = k /\ k \in Nat /\ h = 7 + k
    BY <1>2, <1>6, <1>11
  <2>2. Start(o) = o + 7 + b
    BY DEF Start
  <2> HIDE DEF b, k, h
  <2>3. Start(o) = o + h /\ Start(o) \in Nat
    BY <2>1, <2>2
  <2> QED
    BY <2>3 DEF h
<1>14. Chain(Places(o), Start(o), n)
  BY <1>2, <1>11, <1>13, NamesFromChain DEF Places
<1>15. /\ HeaderEnd(o) = Start(o) + Len(S)
       /\ \A i \in 1..n : Bytes(Places(o)[i] + 1, Byte(Places(o)[i])) = ns[i]
  <2>1. At(Top.data, Start(o), sig[n])
    BY <1>5, <1>8, <1>13
  <2> DEFINE at == Places(o)
             start == Start(o)
  <2>2. /\ ns \in Seq(Bytestrings) /\ \A i \in 1..Len(ns) : Len(ns[i]) < 256
        /\ Signature(sig, ns) /\ At(Top.data, start, sig[Len(ns)])
        /\ Chain(at, start, Len(ns)) /\ start \in Nat /\ Top.data \in Bytestrings
    BY <1>1, <1>3, <1>4, <1>13, <1>14, <2>1
  <2>3. /\ at[Len(ns) + 1] = start + Len(sig[Len(ns)])
        /\ \A i \in 1..Len(ns) : Bytes(at[i] + 1, Byte(at[i])) = ns[i]
    <3> HIDE DEF ns, n, at, start
    <3> QED
      BY ONLY <2>2, SignatureRead
  <2>4. HeaderEnd(o) = Places(o)[n + 1]
    BY <1>11 DEF HeaderEnd
  <2> QED
    BY <1>5, <2>3, <2>4
<1>16. [i \in 1..Byte(o + 6) |-> Bytes(Places(o)[i] + 1, Byte(Places(o)[i]))] = ns
  <2>1. ns = [i \in 1..n |-> ns[i]]
    BY <1>1, LenProperties
  <2> HIDE DEF ns, n
  <2> QED
    BY <1>11, <1>15, <2>1
<1>17. HeaderEnd(o) \in Nat /\ HeaderEnd(o) = (o + Len(H)) + Len(S)
  <2> DEFINE h == Len(H)
             s == Len(S)
             e == HeaderEnd(o)
  <2>1. h \in Nat /\ s \in Nat /\ e = (o + h) + s
    BY <1>2, <1>5, <1>6, <1>13, <1>15
  <2> HIDE DEF h, s, e
  <2>2. e \in Nat
    BY <2>1
  <2> QED
    BY <2>1, <2>2 DEF h, s, e
<1>18. Bytes(HeaderEnd(o), Len(body)) = body
  <2>1. At(Top.data, HeaderEnd(o), body)
    BY <1>8, <1>17
  <2> QED
    BY <1>1, <1>17, <2>1, AtBytes
<1>19. FunctionItem(o) = c
  <2>1. FunctionItem(o) = Item("DEFINE_FUNCTION", 0, t, ns, body)
    BY <1>10, <1>11, <1>12, <1>16, <1>18, Zenon DEF FunctionItem
  <2> QED
    BY <2>1
<1>20. HeaderEnd(o) + Len(body) <= Len(d)
  BY <1>8, <1>17 DEF At
<1>21. Decoded(o) = FunctionRead(o)
  BY <1>9, DecodedFunction
<1>22. Len(d) \in Nat
  BY Lengths
<1> HIDE DEF body, H, S, t, ns, n
<1> DEFINE e == HeaderEnd(o)
           k == Len(body)
<1>23. /\ FunctionRead(o).item = c /\ FunctionRead(o).end = e
       /\ FunctionRead(o).next = IF k <= Len(Top.data) - e THEN e + k ELSE Len(Top.data)
  <2>1. FunctionRead(o) = [item |-> c, end |-> e,
                           next |-> IF k <= Len(Top.data) - e THEN e + k ELSE Len(Top.data)]
    BY <1>10, <1>19, Zenon DEF FunctionRead
  <2> QED
    BY <2>1
<1>24. e \in Nat /\ k \in Nat /\ e + k <= Len(Top.data) /\ Len(Top.data) \in Nat
  BY <1>2, <1>17, <1>20, <1>22
<1>25. e + k = o + Len(FunctionBytes(c))
  <2> DEFINE h == Len(H)
             s == Len(S)
  <2>1. /\ h \in Nat /\ s \in Nat /\ e = (o + h) + s
        /\ Len(FunctionBytes(c)) = (h + s) + k
    BY <1>2, <1>5, <1>6, <1>7, <1>8, <1>17
  <2> HIDE DEF h, s, e, k
  <2> QED
    BY <1>24, <2>1
<1> HIDE DEF e, k
<1>26. k <= Len(Top.data) - e /\ e <= Len(Top.data)
  BY <1>24
<1> QED
  BY <1>21, <1>23, <1>25, <1>26 DEF Found

\* What a writer makes of a command that fits (push_sized_command,
\* define_function and the others, statements_class.hpp) is what the reader
\* finds (runcode, vm.cpp), with every operand, and it goes on right behind it.
THEOREM DecodedPiece ==
  ASSUME Top.data \in Bytestrings, NEW o \in Nat, NEW p, NEW c, Piece(Top.data, o, p, c), Fits(c)
  PROVE  Found(o, c, p)
<1>1. PICK b \in Bytestrings : Spells(b, c) /\ At(Top.data, o, b) /\ p = o + Len(b)
  BY DEF Piece
<1>2. c \in ItemRecord
  BY <1>1 DEF Spells
<1>3. CASE c.op = "DEFINE_FUNCTION"
  <2>1. c = Item(c.op, 0, c.text, c.names, c.body) /\ b = FunctionBytes(c)
    BY <1>1, <1>3 DEF Spells
  <2> QED
    BY <1>1, <1>2, <1>3, <2>1, FoundFunction
<1>4. CASE c.op \in Reading \ {"DEFINE_FUNCTION"}
  <2>1. Command(c) /\ b = Encode(c)
    BY <1>1, <1>4 DEF Spells
  <2>2. At(Top.data, o, Encode(c)) /\ p = o + Len(Encode(c))
    BY <1>1, <2>1
  <2>3. CASE c.op = "PUSH_INTEGRAL"
    BY <2>1, <2>2, <2>3, FoundNumber
  <2>4. CASE c.op = "CALLB"
    BY <2>1, <2>2, <2>4, FoundCall
  <2>5. CASE c.op \in Texts
    BY <2>1, <2>2, <2>5, FoundText
  <2> QED
    BY <1>4, <2>3, <2>4, <2>5 DEF Reading, Texts
<1>5. CASE c.op \notin Reading
  <2>1. Len(b) = 1 /\ c = Plain(c.op) /\ (c.op = "STRAY" \/ c.op = OpName(b[1]))
    BY <1>1, <1>5 DEF Spells, Reading
  <2>2. c.op # "STRAY"
    BY <1>5 DEF Fits, SizedOps, Reading
  <2> QED
    BY <1>1, <1>5, <2>1, <2>2, FoundPlain
<1> QED
  BY <1>3, <1>4, <1>5

-----------------------------------------------------------------------------
(* What the writer does to one stream.                                      *)

\* While compile writes, every stream is at its end.
AtEnd(s) == s \in StreamRecord /\ s.offset = Len(s.data)

\* Bytes and commands behind the others.
Extended(s, b, l) ==
  [data |-> s.data \o b, offset |-> Len(s.data) + Len(b), role |-> s.role, log |-> s.log \o l]

LEMMA ExtendedParts ==
  ASSUME NEW s, AtEnd(s), NEW b \in Bytestrings, NEW l \in Logs
  PROVE  /\ AtEnd(Extended(s, b, l)) /\ Extended(s, b, l).role = s.role
         /\ Extended(s, b, l).data = s.data \o b /\ Extended(s, b, l).log = s.log \o l
         /\ s.data \in Bytestrings /\ s.log \in Logs /\ s.role \in Blocks \cup {"main", "signature"}
<1>1. s.data \in Bytestrings /\ s.log \in Logs /\ s.role \in Blocks \cup {"main", "signature"}
  BY DEF AtEnd, StreamRecord
<1>2. /\ s.data \o b \in Bytestrings /\ Len(s.data \o b) = Len(s.data) + Len(b)
      /\ Len(s.data) + Len(b) \in Nat
  BY <1>1, Joined, Lengths
<1>3. s.log \o l \in Logs
  BY <1>1, ConcatProperties DEF Logs
<1> DEFINE d == s.data \o b
           m == s.log \o l
           o == Len(s.data) + Len(b)
           r == s.role
           e == [data |-> d, offset |-> o, role |-> r, log |-> m]
<1>4. /\ d \in Bytestrings /\ m \in Logs /\ o \in Nat /\ o = Len(d)
      /\ r \in Blocks \cup {"main", "signature"}
  BY <1>1, <1>2, <1>3
<1>5. Extended(s, b, l) = e
  BY Zenon DEF Extended
<1> HIDE DEF d, m, o, r
<1>6. e.data = d /\ e.offset = o /\ e.role = r /\ e.log = m /\ e \in StreamRecord
  BY <1>4 DEF StreamRecord
<1> HIDE DEF e
<1>7. AtEnd(e)
  BY <1>4, <1>6 DEF AtEnd
<1> QED
  BY <1>1, <1>5, <1>6, <1>7 DEF d, m, r

Record(d, o, r, l) == [data |-> d, offset |-> o, role |-> r, log |-> l]

LEMMA LoggedRecord ==
  \A d, o, r, l, m : Logged(Record(d, o, r, l), m) = Record(d, o, r, l \o m)
<1> SUFFICES ASSUME NEW d, NEW o, NEW r, NEW l, NEW m
    PROVE Logged(Record(d, o, r, l), m) = Record(d, o, r, l \o m)
  OBVIOUS
<1> DEFINE s == [data |-> d, offset |-> o, role |-> r, log |-> l]
           n == s.log \o m
<1>1. s.log = l
  OBVIOUS
<1>2. n = l \o m
  BY <1>1
<1>3. Logged(s, m) = [s EXCEPT !.log = n]
  BY Zenon DEF Logged
<1> HIDE DEF n
<1>4. [s EXCEPT !.log = n] = [data |-> d, offset |-> o, role |-> r, log |-> n]
  OBVIOUS
<1> QED
  BY <1>2, <1>3, <1>4 DEF Record

LEMMA WriteLogged ==
  ASSUME NEW s, AtEnd(s), NEW b \in Bytestrings, NEW l \in Logs
  PROVE  Logged(Write(s, b), l) = Extended(s, b, l)
<1>1. Write(s, b) = Written(s, b)
  BY WriteAtEnd DEF AtEnd
<1> DEFINE d == s.data \o b
           o == Len(s.data) + Len(b)
           r == s.role
           k == s.log
<1>2. Written(s, b) = Record(d, o, r, k)
  BY Zenon DEF Written, Record
<1>3. Extended(s, b, l) = Record(d, o, r, k \o l)
  BY Zenon DEF Extended, Record
<1> HIDE DEF d, o, r, k
<1>4. Logged(Record(d, o, r, k), l) = Record(d, o, r, k \o l)
  BY LoggedRecord
<1> QED
  BY ONLY <1>1, <1>2, <1>3, <1>4, Zenon

\* Only written, or only logged.
LEMMA WriteOnly ==
  ASSUME NEW s, AtEnd(s), NEW b \in Bytestrings
  PROVE  Write(s, b) = Extended(s, b, <<>>)
<1>1. Write(s, b) = Written(s, b)
  BY WriteAtEnd DEF AtEnd
<1>2. s.log \in Logs
  BY DEF AtEnd, StreamRecord
<1>3. s.log \o <<>> = s.log
  BY <1>2, ConcatEmptySeq DEF Logs
<1> QED
  BY <1>1, <1>3, Zenon DEF Written, Extended

LEMMA LogOnly ==
  ASSUME NEW s, AtEnd(s), NEW l \in Logs
  PROVE  Logged(s, l) = Extended(s, <<>>, l)
<1>1. s.data \in Bytestrings /\ s.offset = Len(s.data)
  BY DEF AtEnd, StreamRecord
<1>2. s.data \o <<>> = s.data /\ Len(s.data) + Len(<<>>) = s.offset
  BY <1>1, ConcatEmptySeq, EmptySeq, Lengths DEF Bytestrings
<1> DEFINE d == s.data
           o == s.offset
           r == s.role
           k == s.log
<1>3. Extended(s, <<>>, l) = Record(d, o, r, k \o l)
  BY <1>2, Zenon DEF Extended, Record
<1>4. s = Record(d, o, r, k)
  BY DEF AtEnd, StreamRecord, Record
<1> HIDE DEF d, o, r, k
<1>5. Logged(Record(d, o, r, k), l) = Record(d, o, r, k \o l)
  BY LoggedRecord
<1> QED
  BY ONLY <1>3, <1>4, <1>5, Zenon

\* Concatenation is associative.
LEMMA AssociatedBytes ==
  \A a, b, c \in Seq(Byte256) : (a \o b) \o c = a \o (b \o c)
<1> SUFFICES ASSUME NEW a \in Seq(Byte256), NEW b \in Seq(Byte256), NEW c \in Seq(Byte256)
    PROVE (a \o b) \o c = a \o (b \o c)
  OBVIOUS
<1> QED
  BY ONLY ConcatAssociative, SMTT(30)

LEMMA AssociatedLogs ==
  \A a, b, c \in Seq(ItemRecord) : (a \o b) \o c = a \o (b \o c)
<1> SUFFICES ASSUME NEW a \in Seq(ItemRecord), NEW b \in Seq(ItemRecord), NEW c \in Seq(ItemRecord)
    PROVE (a \o b) \o c = a \o (b \o c)
  OBVIOUS
<1> QED
  BY ONLY ConcatAssociative, SMTT(30)

LEMMA ExtendedTwice ==
  ASSUME NEW s, AtEnd(s), NEW b \in Bytestrings, NEW l \in Logs,
         NEW c \in Bytestrings, NEW m \in Logs
  PROVE  Extended(Extended(s, b, l), c, m) = Extended(s, b \o c, l \o m)
<1>1. s.data \in Bytestrings /\ s.log \in Logs
  BY DEF AtEnd, StreamRecord
<1> DEFINE e == Extended(s, b, l)
<1>2. e.data = s.data \o b /\ e.log = s.log \o l /\ e.role = s.role
  BY ExtendedParts
<1>3. (s.data \o b) \o c = s.data \o (b \o c) /\ (s.log \o l) \o m = s.log \o (l \o m)
  <2> DEFINE d == s.data
             k == s.log
  <2>1. /\ d \in Seq(Byte256) /\ b \in Seq(Byte256) /\ c \in Seq(Byte256)
        /\ k \in Seq(ItemRecord) /\ l \in Seq(ItemRecord) /\ m \in Seq(ItemRecord)
    BY <1>1 DEF Bytestrings, Logs
  <2> HIDE DEF d, k
  <2>2. (d \o b) \o c = d \o (b \o c)
    BY <2>1, AssociatedBytes, Zenon
  <2>3. (k \o l) \o m = k \o (l \o m)
    BY <2>1, AssociatedLogs, Zenon
  <2> QED
    BY <2>2, <2>3 DEF d, k
<1>4. Len(s.data \o b) + Len(c) = Len(s.data) + Len(b \o c)
  <2>1. Len(s.data \o b) = Len(s.data) + Len(b) /\ Len(b \o c) = Len(b) + Len(c)
    BY <1>1, Joined
  <2>2. Len(s.data) \in Nat /\ Len(b) \in Nat /\ Len(c) \in Nat
    BY <1>1, Lengths
  <2> DEFINE p == Len(s.data)
             q == Len(b)
             r == Len(c)
  <2>3. p \in Nat /\ q \in Nat /\ r \in Nat
    BY <2>2
  <2>4. Len(s.data \o b) = p + q /\ Len(b \o c) = q + r
    BY <2>1
  <2> HIDE DEF p, q, r
  <2>5. (p + q) + r = p + (q + r)
    BY <2>3
  <2> QED
    BY <2>4, <2>5 DEF p, q, r
<1> HIDE DEF e
<1>5. Extended(e, c, m) = Extended(s, b \o c, l \o m)
  BY <1>2, <1>3, <1>4, Zenon DEF Extended
<1> QED
  BY <1>5 DEF e

\* The last byte and the last command are dropped.
Shortened(s) ==
  [data |-> SubSeq(s.data, 1, Len(s.data) - 1), offset |-> Len(s.data) - 1, role |-> s.role,
   log |-> SubSeq(s.log, 1, Len(s.log) - 1)]

Whole(s) == AtEnd(s) /\ Divided(s.data, s.log)

EndsPopped(log) == log # <<>> /\ log[Len(log)] = Plain("POP_OBJECT")

LEMMA ExtendedWhole ==
  ASSUME NEW s, Whole(s), NEW b \in Bytestrings, NEW l \in Logs, Divided(b, l)
  PROVE  Whole(Extended(s, b, l))
<1>1. AtEnd(s) /\ Divided(s.data, s.log)
  BY DEF Whole
<1>2. /\ AtEnd(Extended(s, b, l))
      /\ Extended(s, b, l).data = s.data \o b /\ Extended(s, b, l).log = s.log \o l
      /\ s.data \in Bytestrings /\ s.log \in Logs
  BY <1>1, ExtendedParts
<1>3. Divided(s.data \o b, s.log \o l)
  BY <1>1, <1>2, DividedJoined
<1> QED
  BY <1>2, <1>3 DEF Whole

LEMMA ShortenedWhole ==
  ASSUME NEW s, Whole(s), EndsPopped(s.log)
  PROVE  /\ Whole(Shortened(s)) /\ Shortened(s).role = s.role
         /\ Len(s.data) \in Nat \ {0}
         /\ Shortened(s).log = SubSeq(s.log, 1, Len(s.log) - 1)
         /\ Shortened(s).data = SubSeq(s.data, 1, Len(s.data) - 1)
         /\ Shortened(s).offset = Len(s.data) - 1
<1>1. /\ s.data \in Bytestrings /\ s.log \in Logs /\ Divided(s.data, s.log)
      /\ s.role \in Blocks \cup {"main", "signature"}
  BY DEF Whole, AtEnd, StreamRecord
<1>2. s.log # <<>> /\ s.log[Len(s.log)] = Plain("POP_OBJECT")
  BY DEF EndsPopped
<1> DEFINE d == SubSeq(s.data, 1, Len(s.data) - 1)
           l == SubSeq(s.log, 1, Len(s.log) - 1)
           o == Len(s.data) - 1
           r == s.role
<1>3. Len(s.data) \in Nat \ {0} /\ d \in Bytestrings /\ l \in Logs /\ Divided(d, l)
  BY <1>1, <1>2, DividedDrop
<1>4. o \in Nat /\ Len(d) = o
  <2>1. \A i \in 1..o : s.data[i] \in Byte256
    BY <1>1, <1>3, Lengths
  <2>2. o \in Nat
    BY <1>3
  <2>3. Len(d) = IF 1 <= o THEN o - 1 + 1 ELSE 0
    BY ONLY <2>1, <2>2, SubSeqProperties
  <2> QED
    BY <2>2, <2>3
<1> DEFINE t == [data |-> d, offset |-> o, role |-> r, log |-> l]
<1>5. Shortened(s) = t
  BY Zenon DEF Shortened
<1>6. r \in Blocks \cup {"main", "signature"}
  BY <1>1
<1> HIDE DEF d, l, o, r
<1>7. t \in StreamRecord /\ t.data = d /\ t.offset = o /\ t.log = l /\ t.role = r
  BY <1>3, <1>4, <1>6 DEF StreamRecord
<1> HIDE DEF t
<1>8. Whole(t)
  BY <1>3, <1>4, <1>7 DEF Whole, AtEnd
<1> QED
  BY <1>3, <1>5, <1>7, <1>8 DEF d, l, o, r

LEMMA PushedWhole ==
  ASSUME NEW s, Whole(s), NEW c, Command(c)
  PROVE  Whole(Push(s, c)) /\ Push(s, c).role = s.role
<1>1. /\ Encode(c) \in Bytestrings /\ ItemsOf(c) \in Logs /\ Divided(Encode(c), ItemsOf(c))
  BY EncodeDivided
<1>2. AtEnd(s)
  BY DEF Whole
<1>3. Push(s, c) = Extended(s, Encode(c), ItemsOf(c))
  BY <1>1, <1>2, WriteLogged DEF Push
<1> QED
  BY <1>1, <1>2, <1>3, ExtendedWhole, ExtendedParts

LEMMA JumpWhole ==
  ASSUME NEW s, Whole(s), NEW op, Tabled(op), NEW size \in Nat
  PROVE  Whole(PushJump(s, op, size)) /\ PushJump(s, op, size).role = s.role
<1> DEFINE b == Integral(Opcode(op), 1) \o Integral(size, 4)
<1>1. b \in Bytestrings
  BY FirstByte, ManyBytes, Joined
<1>2. PushJump(s, op, size) = Logged(Write(s, b), AsCommands(b))
  BY Zenon DEF PushJump
<1> HIDE DEF b
<1>3. AsCommands(b) \in Logs /\ Divided(b, AsCommands(b))
  BY <1>1, DividedBytes
<1>4. AtEnd(s)
  BY DEF Whole
<1>5. PushJump(s, op, size) = Extended(s, b, AsCommands(b))
  BY <1>1, <1>2, <1>3, <1>4, WriteLogged
<1> QED
  BY <1>1, <1>3, <1>4, <1>5, ExtendedWhole, ExtendedParts

LEMMA ReplacedRecord ==
  \A d, o, r, l, p, b, m :
    /\ Seek(Record(d, o, r, l), p) = Record(d, p, r, l)
    /\ Replace(Record(d, p, r, l), b)
         = Record(SubSeq(d, 1, p) \o b \o SubSeq(d, p + Len(b) + 1, Len(d)), p + Len(b), r, l)
    /\ [Record(d, p, r, l) EXCEPT !.log = m] = Record(d, p, r, m)
<1> SUFFICES ASSUME NEW d, NEW o, NEW r, NEW l, NEW p, NEW b, NEW m
    PROVE /\ Seek(Record(d, o, r, l), p) = Record(d, p, r, l)
          /\ Replace(Record(d, p, r, l), b)
               = Record(SubSeq(d, 1, p) \o b \o SubSeq(d, p + Len(b) + 1, Len(d)), p + Len(b), r, l)
          /\ [Record(d, p, r, l) EXCEPT !.log = m] = Record(d, p, r, m)
  OBVIOUS
<1>1. Seek(Record(d, o, r, l), p) = Record(d, p, r, l)
  BY DEF Seek, Record
<1>2. [Record(d, p, r, l) EXCEPT !.log = m] = Record(d, p, r, m)
  BY DEF Record
<1> DEFINE s == [data |-> d, offset |-> p, role |-> r, log |-> l]
           e == SubSeq(s.data, 1, s.offset) \o b
                  \o SubSeq(s.data, s.offset + Len(b) + 1, Len(s.data))
           q == s.offset + Len(b)
<1>3. /\ e = SubSeq(d, 1, p) \o b \o SubSeq(d, p + Len(b) + 1, Len(d))
      /\ q = p + Len(b)
  <2>1. s.data = d /\ s.offset = p
    OBVIOUS
  <2> HIDE DEF s
  <2> QED
    BY <2>1, Zenon
<1>4. Replace(s, b) = [s EXCEPT !.data = e, !.offset = q]
  BY Zenon DEF Replace
<1> HIDE DEF e, q
<1>5. [s EXCEPT !.data = e, !.offset = q] = [data |-> e, offset |-> q, role |-> r, log |-> l]
  <2> DEFINE f == [s EXCEPT !.data = e, !.offset = q]
             g == [data |-> e, offset |-> q, role |-> r, log |-> l]
  <2>1. /\ f.data = g.data /\ f.offset = g.offset /\ f.role = g.role /\ f.log = g.log
    OBVIOUS
  <2> QED
    BY <2>1
<1>6. s = Record(d, p, r, l) /\ Record(e, q, r, l) = [data |-> e, offset |-> q, role |-> r, log |-> l]
  BY Zenon DEF Record
<1> HIDE DEF s
<1>7. Replace(Record(d, p, r, l), b) = Record(e, q, r, l)
  BY <1>4, <1>5, <1>6, Zenon
<1> QED
  BY <1>1, <1>2, <1>3, <1>7, Zenon

\* The last byte is replaced.
LEMMA ElseBlockExtended ==
  ASSUME NEW s, Whole(s), EndsPopped(s.log), NEW size \in Nat
  PROVE  ElseBlock(s, size)
           = Write(Logged(Extended(Shortened(s), Integral(Opcode("JMP_IF_TRUE"), 1),
                                   <<Plain("JMP_IF_TRUE")>>),
                          AsCommands(Integral(size, 4))), Integral(size, 4))
<1> DEFINE d == s.data
           o == s.offset
           r == s.role
           l == s.log
           b == Integral(Opcode("JMP_IF_TRUE"), 1)
           c == Integral(size, 4)
           k == SubSeq(l, 1, Len(l) - 1) \o <<Plain("JMP_IF_TRUE")>>
           m == AsCommands(c)
           e == SubSeq(d, 1, o - 1)
<1>1. /\ s = Record(d, o, r, l) /\ o = Len(d) /\ d \in Bytestrings /\ l \in Logs
  BY DEF Record, Whole, AtEnd, StreamRecord
<1>2. Len(d) \in Nat \ {0}
  BY ShortenedWhole
<1>3. b \in Bytestrings /\ Len(b) = 1
  BY FirstByte, KnownNames DEF Tabled, Table
<1>4. o \in Nat \ {0} /\ (o - 1) + 1 = o /\ (o - 1) + Len(b) + 1 = Len(d) + 1 /\ o - 1 \in Nat
      /\ (o - 1) + Len(b) = o
  <2>1. o \in Nat \ {0} /\ o = Len(d)
    BY <1>1, <1>2
  <2> HIDE DEF o, d, b
  <2> DEFINE x == Len(b)
             y == Len(d)
  <2>2. x = 1 /\ o = y
    BY <1>3, <2>1
  <2> HIDE DEF x, y
  <2>3. (o - 1) + x + 1 = y + 1 /\ (o - 1) + x = o
    BY <2>1, <2>2
  <2> QED
    BY <2>1, <2>3 DEF x, y
<1>5. e \in Bytestrings /\ Len(e) = o - 1
  <2>1. \A i \in 1..(o - 1) : d[i] \in Byte256
    BY <1>1, <1>4, Lengths
  <2>2. o - 1 \in Nat
    BY <1>4
  <2> HIDE DEF o, d
  <2>3. e \in Seq(Byte256) /\ Len(e) = IF 1 <= o - 1 THEN o - 1 - 1 + 1 ELSE 0
    BY ONLY <2>1, <2>2, SubSeqProperties
  <2> QED
    BY <2>2, <2>3 DEF Bytestrings
<1>6. SubSeq(d, Len(d) + 1, Len(d)) = <<>>
  BY <1>1, SubSeqEmpty, Lengths
<1>7. (e \o b) \o <<>> = e \o b
  BY <1>3, <1>5, Joined, ConcatEmptySeq DEF Bytestrings
<1> HIDE DEF d, o, r, l, b, c
<1>8. Replace(Seek(s, s.offset - 1), b) = Record(e \o b, o, r, l)
  <2>1. s.offset - 1 = o - 1
    BY DEF o
  <2> DEFINE p == o - 1
  <2>2. Seek(s, p) = Record(d, p, r, l)
    BY <1>1, ReplacedRecord
  <2>3. Replace(Record(d, p, r, l), b)
          = Record(SubSeq(d, 1, p) \o b \o SubSeq(d, p + Len(b) + 1, Len(d)), p + Len(b), r, l)
    BY ReplacedRecord
  <2> QED
    BY <1>4, <1>6, <1>7, <2>1, <2>2, <2>3, Zenon
<1>9. ElseBlock(s, size) = Write(Record(e \o b, o, r, k \o m), c)
  <2> DEFINE x == e \o b
             n == k \o m
  <2>1. [Record(x, o, r, l) EXCEPT !.log = n] = Record(x, o, r, n)
    <3> HIDE DEF x, n
    <3> QED
      BY ReplacedRecord
  <2>2. ElseBlock(s, size)
          = Write([Replace(Seek(s, s.offset - 1), b) EXCEPT !.log = k \o m], c)
    BY Zenon DEF ElseBlock, b, c, l
  <2> QED
    BY <1>8, <2>1, <2>2, Zenon
<1>10. Extended(Shortened(s), b, <<Plain("JMP_IF_TRUE")>>) = Record(e \o b, o, r, k)
  <2>1. /\ Shortened(s).data = e /\ Shortened(s).role = r
        /\ Shortened(s).log = SubSeq(l, 1, Len(l) - 1)
    BY <1>1, ShortenedWhole DEF d, r, l
  <2>2. Len(Shortened(s).data) + Len(b) = o
    BY <1>4, <1>5, <2>1
  <2> QED
    BY <2>1, <2>2, Zenon DEF Extended, Record
<1>11. Logged(Record(e \o b, o, r, k), m) = Record(e \o b, o, r, k \o m)
  BY LoggedRecord
<1> QED
  BY <1>9, <1>10, <1>11, Zenon DEF b, c

\* What is logged first may be written afterwards.
LEMMA LoggedWritten ==
  ASSUME NEW s, AtEnd(s), NEW b \in Bytestrings, NEW l \in Logs
  PROVE  Write(Logged(s, l), b) = Extended(s, b, l)
<1>1. /\ <<>> \in Bytestrings /\ <<>> \in Logs
  BY DividedEmpty
<1>2. Logged(s, l) = Extended(s, <<>>, l) /\ AtEnd(Extended(s, <<>>, l))
  BY <1>1, LogOnly, ExtendedParts
<1> DEFINE e == Extended(s, <<>>, l)
<1>3. AtEnd(e) /\ Logged(s, l) = e
  BY <1>2
<1>4. Extended(e, b, <<>>) = Extended(s, <<>> \o b, l \o <<>>)
  <2> DEFINE n == <<>>
  <2>1. n \in Bytestrings /\ n \in Logs
    BY <1>1
  <2> HIDE DEF n
  <2>2. Extended(Extended(s, n, l), b, n) = Extended(s, n \o b, l \o n)
    BY <2>1, ExtendedTwice
  <2> QED
    BY <2>2 DEF n
<1> HIDE DEF e
<1>5. Write(e, b) = Extended(e, b, <<>>)
  BY <1>3, WriteOnly
<1>6. <<>> \o b = b /\ l \o <<>> = l
  BY ConcatEmptySeq DEF Bytestrings, Logs
<1> QED
  BY <1>3, <1>4, <1>5, <1>6, Zenon

LEMMA ElseWhole ==
  ASSUME NEW s, Whole(s), EndsPopped(s.log), NEW size \in Nat
  PROVE  Whole(ElseBlock(s, size)) /\ ElseBlock(s, size).role = s.role
<1> DEFINE b == Integral(Opcode("JMP_IF_TRUE"), 1)
           p == Plain("JMP_IF_TRUE")
           c == Integral(size, 4)
           m == AsCommands(c)
           t == Shortened(s)
           e == Extended(t, b, <<p>>)
<1>1. ElseBlock(s, size) = Write(Logged(e, m), c)
  BY ElseBlockExtended
<1>2. Whole(t) /\ t.role = s.role
  BY ShortenedWhole
<1>3. b \in Bytestrings /\ <<p>> \in Logs /\ Divided(b, <<p>>)
  <2>1. Tabled("JMP_IF_TRUE")
    BY KnownNames DEF Tabled, Table
  <2>2. b = <<Opcode("JMP_IF_TRUE")>> /\ Opcode("JMP_IF_TRUE") \in Byte256
        /\ OpName(Opcode("JMP_IF_TRUE")) = "JMP_IF_TRUE"
    BY <2>1, OpcodeRead
  <2>3. Spells(b, p)
    <3>1. "JMP_IF_TRUE" \in Names /\ "JMP_IF_TRUE" \notin Reading
      BY <2>1 DEF Names, Tabled, Table, Reading
    <3> QED
      BY <2>2, <3>1, SpelledByte
  <2> QED
    BY <2>1, <2>3, FirstByte, DividedSingle
<1>4. c \in Bytestrings /\ m \in Logs /\ Divided(c, m)
  <2>1. c \in Bytestrings
    BY ManyBytes
  <2> QED
    BY <2>1, DividedBytes
<1> HIDE DEF b, p, c, m, t
<1>5. Whole(e) /\ e.role = t.role
  BY <1>2, <1>3, ExtendedWhole, ExtendedParts DEF Whole
<1> HIDE DEF e
<1>6. AtEnd(e)
  BY <1>5 DEF Whole
<1>7. Write(Logged(e, m), c) = Extended(e, c, m)
  BY <1>4, <1>6, LoggedWritten
<1>8. Whole(Extended(e, c, m)) /\ Extended(e, c, m).role = e.role
  BY <1>4, <1>5, <1>6, ExtendedWhole, ExtendedParts
<1> QED
  BY <1>1, <1>2, <1>5, <1>7, <1>8

-----------------------------------------------------------------------------
(* What is still to be copied.                                              *)

Rest(s) == SubSeq(s.data, s.offset + 1, Len(s.data))

Pending(cs) ==
  IF cs = <<>> THEN <<>> ELSE IF Len(cs) = 1 THEN Rest(cs[1]) ELSE Rest(cs[1]) \o Rest(cs[2])

CopiesOK(cs) ==
  /\ cs \in Seq(StreamRecord) /\ Len(cs) <= 2
  /\ \A i \in 1..Len(cs) : cs[i].offset <= Len(cs[i].data)

LEMMA RestType ==
  ASSUME NEW s \in StreamRecord
  PROVE  Rest(s) \in Bytestrings
<1>1. s.data \in Bytestrings /\ s.offset \in Nat
  BY DEF StreamRecord
<1> DEFINE d == s.data
           m == s.offset + 1
           n == Len(s.data)
<1>2. m \in Nat /\ m >= 1 /\ n \in Nat /\ \A i \in m..n : d[i] \in Byte256
  BY <1>1, Lengths
<1> HIDE DEF d, m, n
<1>3. SubSeq(d, m, n) \in Seq(Byte256)
  BY ONLY <1>2, SubSeqProperties
<1> QED
  BY <1>3 DEF Rest, Bytestrings, d, m, n

LEMMA PendingType ==
  ASSUME NEW cs, CopiesOK(cs)
  PROVE  Pending(cs) \in Bytestrings
<1>1. cs \in Seq(StreamRecord)
  BY DEF CopiesOK
<1>2. CASE cs = <<>>
  BY <1>2, DividedEmpty DEF Pending
<1>3. CASE cs # <<>> /\ Len(cs) = 1
  <2>1. Rest(cs[1]) \in Bytestrings
    BY <1>1, <1>3, RestType
  <2> QED
    BY <1>3, <2>1 DEF Pending
<1>4. CASE cs # <<>> /\ Len(cs) # 1
  <2>1. Len(cs) >= 2
    <3> DEFINE n == Len(cs)
    <3>1. n \in Nat /\ n # 0 /\ n # 1
      BY <1>1, <1>4, EmptySeq
    <3> HIDE DEF n
    <3>2. n >= 2
      BY ONLY <3>1
    <3> QED
      BY <3>2 DEF n
  <2>2. Rest(cs[1]) \in Bytestrings /\ Rest(cs[2]) \in Bytestrings
    BY <1>1, <2>1, RestType
  <2>3. Rest(cs[1]) \o Rest(cs[2]) \in Bytestrings
    BY <2>2, Joined
  <2> QED
    BY <1>4, <2>3 DEF Pending
<1> QED
  BY <1>2, <1>3, <1>4

LEMMA SeekRest ==
  ASSUME NEW s \in StreamRecord
  PROVE  /\ Seek(s, 0) \in StreamRecord /\ Seek(s, 0).data = s.data /\ Seek(s, 0).offset = 0
         /\ Seek(s, 0).log = s.log /\ Rest(Seek(s, 0)) = s.data
<1> DEFINE t == Seek(s, 0)
<1>1. t \in StreamRecord /\ t.data = s.data /\ t.offset = 0 /\ t.log = s.log
  BY DEF Seek, StreamRecord
<1> HIDE DEF t
<1>2. s.data \in Bytestrings
  BY DEF StreamRecord
<1>3. Rest(t) = SubSeq(s.data, 1, Len(s.data))
  BY <1>1 DEF Rest
<1>4. SubSeq(s.data, 1, Len(s.data)) = s.data
  BY <1>2, SubSeqFull DEF Bytestrings
<1> QED
  BY <1>1, <1>3, <1>4 DEF t

\* Nothing is left behind the end.
LEMMA RestEmpty ==
  ASSUME NEW s \in StreamRecord, Len(s.data) - s.offset = 0
  PROVE  Rest(s) = <<>>
<1>1. s.data \in Bytestrings /\ s.offset \in Nat /\ Len(s.data) \in Nat
  BY Lengths DEF StreamRecord
<1>2. s.offset + 1 = Len(s.data) + 1
  BY <1>1
<1>3. SubSeq(s.data, Len(s.data) + 1, Len(s.data)) = <<>>
  BY <1>1, SubSeqEmpty
<1> QED
  BY <1>2, <1>3 DEF Rest

\* A turn of copy_stream_buffer takes the next bytes.
LEMMA RestCopied ==
  ASSUME NEW s \in StreamRecord, NEW n \in Nat, s.offset + n <= Len(s.data)
  PROVE  /\ SubSeq(s.data, s.offset + 1, s.offset + n) \in Bytestrings
         /\ Seek(s, s.offset + n) \in StreamRecord
         /\ Seek(s, s.offset + n).data = s.data
         /\ Seek(s, s.offset + n).offset = s.offset + n
         /\ Rest(s) = SubSeq(s.data, s.offset + 1, s.offset + n) \o Rest(Seek(s, s.offset + n))
<1>1. s.data \in Bytestrings /\ s.offset \in Nat /\ Len(s.data) \in Nat
  BY Lengths DEF StreamRecord
<1> DEFINE d == s.data
           o == s.offset
           m == Len(s.data)
           t == Seek(s, s.offset + n)
<1>2. t \in StreamRecord /\ t.data = d /\ t.offset = o + n
  BY <1>1 DEF Seek, StreamRecord
<1>3. d \in Seq(Byte256) /\ o \in Nat /\ m \in Nat /\ o + n <= m /\ m = Len(d)
      /\ \A i \in 1..m : d[i] \in Byte256
  BY <1>1, Lengths DEF Bytestrings
<1>4. Rest(s) = SubSeq(d, o + 1, m) /\ Rest(t) = SubSeq(d, o + n + 1, m)
  BY <1>2 DEF Rest
<1> HIDE DEF d, o, m, t
<1>5. SubSeq(d, o + 1, o + n) \in Seq(Byte256)
  <2>1. \A i \in (o + 1)..(o + n) : d[i] \in Byte256
    BY <1>3
  <2> DEFINE p == o + 1
             q == o + n
  <2>2. p \in Nat /\ q \in Nat /\ \A i \in p..q : d[i] \in Byte256
    BY <1>3, <2>1
  <2> HIDE DEF p, q
  <2>3. SubSeq(d, p, q) \in Seq(Byte256)
    BY ONLY <2>2, SubSeqProperties
  <2> QED
    BY <2>3 DEF p, q
<1>6. SubSeq(d, o + 1, m) = SubSeq(d, o + 1, o + n) \o SubSeq(d, o + n + 1, m)
  <2> DEFINE p == o + 1
             q == o + n
  <2>1. /\ p \in 1..(Len(d) + 1) /\ q \in (p - 1)..Len(d) /\ m \in q..Len(d)
        /\ d \in Seq(Byte256)
    BY <1>3
  <2> HIDE DEF p, q
  <2>2. SubSeq(d, p, q) \o SubSeq(d, q + 1, m) = SubSeq(d, p, m)
    BY ONLY <2>1, ConcatAdjacentSubSeq
  <2> QED
    BY <2>2, Zenon DEF p, q
<1> QED
  BY <1>2, <1>4, <1>5, <1>6, Zenon DEF d, o, m, t, Bytestrings

-----------------------------------------------------------------------------
(* The streams of the running calls of compile.                             *)

Last(ss) == ss[Len(ss)]

Stack(ss) ==
  /\ ss \in Seq(StreamRecord) /\ ss # <<>>
  /\ \A i \in 1..Len(ss) : AtEnd(ss[i])
  /\ \A i \in 1..(Len(ss) - 1) : Whole(ss[i])
  /\ \A i \in 2..Len(ss) : ss[i].role = "else" => EndsPopped(ss[i - 1].log)

LEMMA StackLast ==
  ASSUME NEW ss, Stack(ss)
  PROVE  Len(ss) \in Nat \ {0} /\ AtEnd(Last(ss)) /\ Last(ss) \in StreamRecord
<1>1. Len(ss) \in Nat /\ Len(ss) # 0
  BY EmptySeq DEF Stack
<1>2. Len(ss) \in 1..Len(ss)
  <2> DEFINE n == Len(ss)
  <2>1. n \in Nat /\ n # 0
    BY <1>1
  <2> HIDE DEF n
  <2>2. n \in 1..n
    BY <2>1
  <2> QED
    BY <2>2 DEF n
<1>3. AtEnd(ss[Len(ss)])
  BY <1>2 DEF Stack
<1> QED
  BY <1>1, <1>3 DEF Last, AtEnd

\* The first streams of a stack and another one.
StackGrows(ss, k, s) ==
  /\ Stack(ss) /\ k \in 0..Len(ss) /\ AtEnd(s)
  /\ \A i \in 1..k : Whole(ss[i])
  /\ k > 0 /\ s.role = "else" => EndsPopped(ss[k].log)

LEMMA StackGrown ==
  ASSUME NEW ss, NEW k, NEW s, StackGrows(ss, k, s),
         NEW tt \in Seq(StreamRecord), Len(tt) = k + 1, tt[k + 1] = s,
         \A i \in 1..k : tt[i] = ss[i]
  PROVE  Stack(tt) /\ Last(tt) = s
<1> DEFINE n == Len(ss)
           m == Len(tt)
<1>1. k \in 0..n /\ n \in Nat /\ m = k + 1 /\ Stack(ss) /\ AtEnd(s)
  BY StackLast DEF StackGrows
<1> HIDE DEF n, m
<1>2. k \in Nat /\ n \in Nat /\ k <= n /\ m \in Nat /\ m # 0 /\ m - 1 = k
  BY <1>1
<1>3. \A i \in 1..k : i \in 1..n /\ i \in 1..m
  BY <1>1, <1>2
<1>4. ASSUME NEW i \in 1..m PROVE AtEnd(tt[i])
  <2>1. CASE i \in 1..k
    BY <1>1, <1>3, <2>1 DEF Stack, n
  <2>2. CASE i = k + 1
    BY <1>1, <2>2
  <2> QED
    BY <1>1, <1>2, <2>1, <2>2
<1>5. \A i \in 1..(m - 1) : Whole(tt[i])
  BY <1>2 DEF StackGrows
<1>6. ASSUME NEW i \in 2..m, tt[i].role = "else" PROVE EndsPopped(tt[i - 1].log)
  <2>1. CASE i \in 1..k
    <3>1. i \in 2..n /\ i - 1 \in 1..k
      BY <1>2, <2>1
    <3>2. tt[i] = ss[i] /\ tt[i - 1] = ss[i - 1]
      BY <2>1, <3>1
    <3> QED
      BY <1>1, <1>6, <3>1, <3>2 DEF Stack, n
  <2>2. CASE i = k + 1
    <3>1. k > 0 /\ k \in 1..k /\ i - 1 = k
      BY <1>2, <2>2
    <3> QED
      BY <1>6, <2>2, <3>1 DEF StackGrows
  <2> QED
    BY <1>1, <1>2, <2>1, <2>2
<1>7. tt # <<>>
  BY <1>2, EmptySeq DEF m
<1> QED
  BY <1>1, <1>4, <1>5, <1>6, <1>7, Zenon DEF Stack, Last, m

\* compile writes to the innermost stream.
LEMMA StackTop ==
  ASSUME NEW ss, Stack(ss), NEW s, AtEnd(s), s.role = Last(ss).role
  PROVE  /\ Stack([ss EXCEPT ![Len(ss)] = s]) /\ Last([ss EXCEPT ![Len(ss)] = s]) = s
         /\ Len([ss EXCEPT ![Len(ss)] = s]) = Len(ss)
<1> DEFINE n == Len(ss)
           k == n - 1
           tt == [ss EXCEPT ![n] = s]
<1>1. n \in Nat \ {0} /\ ss \in Seq(StreamRecord) /\ s \in StreamRecord
  BY StackLast DEF Stack, AtEnd
<1>2. tt \in Seq(StreamRecord) /\ Len(tt) = n /\ tt[n] = s /\ \A i \in 1..n : i # n => tt[i] = ss[i]
  BY <1>1, ExceptSeq
<1> HIDE DEF tt
<1>3. StackGrows(ss, k, s)
  <2>1. k \in 0..n
    BY <1>1
  <2>2. \A i \in 1..k : Whole(ss[i])
    BY DEF Stack
  <2>3. ASSUME k > 0, s.role = "else" PROVE EndsPopped(ss[k].log)
    <3>1. n \in 2..n
      BY <1>1, <2>3
    <3> QED
      BY <2>3, <3>1 DEF Stack, Last
  <2> QED
    BY <2>1, <2>2, <2>3 DEF StackGrows
<1>4. Len(tt) = k + 1 /\ tt[k + 1] = s /\ \A i \in 1..k : tt[i] = ss[i]
  <2> HIDE DEF n
  <2>1. k + 1 = n /\ \A i \in 1..k : i \in 1..n /\ i # n
    BY <1>1
  <2> QED
    BY <1>2, <2>1
<1> HIDE DEF k, n
<1>5. Stack(tt) /\ Last(tt) = s
  BY <1>2, <1>3, <1>4, StackGrown
<1> QED
  BY <1>2, <1>5 DEF tt, n

\* It opens a stream, or closes the innermost one and the one it is in.
LEMMA StackAppended ==
  ASSUME NEW ss, NEW k, NEW s, StackGrows(ss, k, s)
  PROVE  /\ Stack(Append(SubSeq(ss, 1, k), s)) /\ Last(Append(SubSeq(ss, 1, k), s)) = s
         /\ Len(Append(SubSeq(ss, 1, k), s)) = k + 1
<1> DEFINE n == Len(ss)
           uu == SubSeq(ss, 1, k)
           tt == Append(uu, s)
<1>1. n \in Nat /\ k \in 0..n /\ ss \in Seq(StreamRecord) /\ s \in StreamRecord
  BY StackLast DEF StackGrows, Stack, AtEnd
<1>2. uu \in Seq(StreamRecord) /\ Len(uu) = k /\ \A i \in 1..k : uu[i] = ss[i]
  <2>1. k \in Int /\ 1 \in Int /\ \A i \in 1..k : ss[i] \in StreamRecord
    BY <1>1
  <2>2. /\ uu \in Seq(StreamRecord)
        /\ Len(uu) = IF 1 <= k THEN k - 1 + 1 ELSE 0
        /\ \A i \in 1..(k - 1 + 1) : uu[i] = ss[1 + i - 1]
    BY ONLY <2>1, SubSeqProperties
  <2> HIDE DEF uu
  <2>3. (IF 1 <= k THEN k - 1 + 1 ELSE 0) = k /\ k - 1 + 1 = k
    BY <1>1
  <2>4. \A i \in 1..k : 1 + i - 1 = i
    OBVIOUS
  <2> QED
    BY <2>2, <2>3, <2>4
<1> HIDE DEF uu
<1>3. /\ tt \in Seq(StreamRecord) /\ Len(tt) = k + 1 /\ tt[k + 1] = s
      /\ \A i \in 1..k : tt[i] = ss[i]
  <2>1. /\ tt \in Seq(StreamRecord) /\ Len(tt) = Len(uu) + 1
        /\ \A i \in 1..Len(uu) : tt[i] = uu[i]
        /\ tt[Len(uu) + 1] = s
    BY ONLY <1>1, <1>2, AppendProperties
  <2> HIDE DEF tt
  <2> QED
    BY <1>2, <2>1
<1> HIDE DEF tt
<1>4. Stack(tt) /\ Last(tt) = s
  BY <1>3, StackGrown
<1> QED
  BY <1>3, <1>4 DEF tt, uu

-----------------------------------------------------------------------------
(* The commands and what is still to be copied of them.                     *)

\* Every stream is divided into the commands of its log, the innermost one
\* when what is still to be copied is behind it.
Balanced(ss, cs, e) ==
  /\ Stack(ss) /\ CopiesOK(cs)
  /\ Divided(Last(ss).data \o Pending(cs), Last(ss).log)
  /\ e = <<>> \/ e = <<Plain("POP_OBJECT")>> \/ e = <<Plain("RET")>>

LEMMA BalancedWhole ==
  ASSUME NEW ss, NEW e, Balanced(ss, <<>>, e)
  PROVE  /\ Whole(Last(ss)) /\ \A i \in 1..Len(ss) : Whole(ss[i])
<1>1. Stack(ss) /\ Divided(Last(ss).data \o <<>>, Last(ss).log)
  BY DEF Balanced, Pending
<1>2. AtEnd(Last(ss)) /\ Len(ss) \in Nat \ {0}
  BY <1>1, StackLast
<1>3. Last(ss).data \in Seq(Byte256)
  BY <1>2 DEF AtEnd, StreamRecord, Bytestrings
<1>4. Last(ss).data \o <<>> = Last(ss).data
  BY <1>3, ConcatEmptySeq
<1>5. Whole(Last(ss))
  BY <1>1, <1>2, <1>4 DEF Whole
<1>6. ASSUME NEW i \in 1..Len(ss) PROVE Whole(ss[i])
  <2>1. CASE i \in 1..(Len(ss) - 1)
    BY <1>1, <2>1 DEF Stack
  <2>2. CASE i = Len(ss)
    BY <1>5, <2>2 DEF Last
  <2> DEFINE n == Len(ss)
  <2>3. n \in Nat /\ i \in 1..n
    BY <1>2
  <2> HIDE DEF n
  <2>4. i \in 1..(n - 1) \/ i = n
    BY ONLY <2>3
  <2> QED
    BY <2>1, <2>2, <2>4 DEF n
<1> QED
  BY <1>5, <1>6

LEMMA WholeBalanced ==
  ASSUME NEW ss, Stack(ss), Whole(Last(ss)), NEW e,
         e = <<>> \/ e = <<Plain("POP_OBJECT")>> \/ e = <<Plain("RET")>>
  PROVE  Balanced(ss, <<>>, e)
<1>1. Last(ss).data \in Seq(Byte256)
  BY DEF Whole, AtEnd, StreamRecord, Bytestrings
<1>2. Last(ss).data \o <<>> = Last(ss).data
  BY <1>1, ConcatEmptySeq
<1>3. CopiesOK(<<>>)
  BY EmptySeq DEF CopiesOK
<1>4. Pending(<<>>) = <<>>
  BY DEF Pending
<1> QED
  BY <1>2, <1>3, <1>4 DEF Balanced, Whole

\* What is logged in advance is still to be copied.
LEMMA LoggedPending ==
  ASSUME NEW s, Whole(s), NEW t \in Bytestrings, NEW m \in Logs, Divided(t, m)
  PROVE  /\ AtEnd(Logged(s, m)) /\ Logged(s, m).role = s.role
         /\ Divided(Logged(s, m).data \o t, Logged(s, m).log)
<1>1. AtEnd(s) /\ Divided(s.data, s.log)
  BY DEF Whole
<1>2. <<>> \in Bytestrings
  BY DividedEmpty
<1>3. Logged(s, m) = Extended(s, <<>>, m)
  BY <1>1, LogOnly
<1> DEFINE e == Extended(s, <<>>, m)
<1>4. /\ AtEnd(e) /\ e.role = s.role /\ e.data = s.data \o <<>> /\ e.log = s.log \o m
      /\ s.data \in Bytestrings /\ s.log \in Logs
  BY <1>1, <1>2, ExtendedParts
<1> HIDE DEF e
<1>5. s.data \o <<>> = s.data
  BY <1>4, ConcatEmptySeq DEF Bytestrings
<1>6. Divided(s.data \o t, s.log \o m)
  BY <1>1, <1>4, DividedJoined
<1> QED
  BY <1>3, <1>4, <1>5, <1>6 DEF e

\* A function and its header; its signature and its body are copied.
LEMMA FunctionPending ==
  ASSUME NEW s, Whole(s), NEW f \in Functions, NEW body \in Bytestrings
  PROVE  LET item == [f EXCEPT !.body = body]
             r == Logged(DefineFunction(s, f, Len(body)), <<item>>)
         IN /\ AtEnd(r) /\ r.role = s.role
            /\ SignatureStream(f.names) \in StreamRecord
            /\ Divided(r.data \o (SignatureStream(f.names).data \o body), r.log)
<1> DEFINE item == [f EXCEPT !.body = body]
           size == Len(body)
           h == Header(f, size)
           g == SignatureStream(f.names)
           sig == g.data
           r == Logged(DefineFunction(s, f, size), <<item>>)
           e == Extended(s, h, <<item>>)
<1>1. /\ f.text \in Bytestrings /\ f.names \in Seq(Bytestrings)
      /\ item = Item("DEFINE_FUNCTION", 0, f.text, f.names, body) /\ item \in ItemRecord
  BY FunctionsGiven
<1>2. item.text = f.text /\ item.names = f.names /\ item.body = body
      /\ item.op = "DEFINE_FUNCTION"
  BY <1>1 DEF Item
<1> HIDE DEF item
<1>3. size \in Nat
  BY Lengths
<1>4. h \in Bytestrings
  BY <1>1, <1>3, HeaderParts
<1>5. g \in StreamRecord /\ sig \in Bytestrings
  <2>1. PICK bytes : /\ Signature(bytes, f.names)
                     /\ g = [data |-> bytes[Len(f.names)], offset |-> Len(bytes[Len(f.names)]),
                             role |-> "signature", log |-> <<>>]
    BY <1>1, SignatureBytes
  <2> DEFINE b == bytes[Len(f.names)]
             o == Len(b)
  <2>2. b \in Bytestrings /\ o \in Nat
    <3>1. Len(f.names) \in 0..Len(f.names)
      BY <1>1
    <3>2. b \in Bytestrings
      BY <2>1, <3>1 DEF Signature
    <3> QED
      BY <3>2, Lengths
  <2>3. g = [data |-> b, offset |-> o, role |-> "signature", log |-> <<>>]
    BY <2>1
  <2> HIDE DEF b, o, g
  <2>4. <<>> \in Logs
    BY DividedEmpty
  <2> QED
    BY <2>2, <2>3, <2>4 DEF StreamRecord
<1>6. DefineFunction(s, f, size) = Write(s, h)
  BY Zenon DEF DefineFunction, Header
<1>7. item = Item(item.op, 0, item.text, item.names, item.body)
  BY <1>1, <1>2
<1>8. FunctionBytes(item) = (h \o sig) \o body
  BY <1>2, Zenon DEF FunctionBytes, Header
<1> HIDE DEF size, h, g, sig
<1>9. AtEnd(s) /\ Divided(s.data, s.log) /\ s.data \in Bytestrings /\ s.log \in Logs
  BY DEF Whole, AtEnd, StreamRecord
<1>10. (h \o sig) \o body \in Bytestrings /\ (h \o sig) \o body # <<>> /\ sig \o body \in Bytestrings
  <2>1. /\ h \o sig \in Bytestrings /\ (h \o sig) \o body \in Bytestrings
        /\ sig \o body \in Bytestrings
    BY <1>4, <1>5, Joined
  <2>2. Len((h \o sig) \o body) = Len(h) + Len(sig) + Len(body)
    BY <1>4, <1>5, Joined3
  <2>3. Len(h) = 7 + Len(f.text) /\ Len(f.text) \in Nat
    BY <1>1, <1>3, HeaderParts, Lengths DEF h
  <2>4. Len(sig) \in Nat /\ Len(body) \in Nat
    BY <1>5, Lengths
  <2> DEFINE p == Len((h \o sig) \o body)
             q == Len(h)
             u == Len(f.text)
             v == Len(sig)
             w == Len(body)
  <2>5. p = q + v + w /\ q = 7 + u /\ u \in Nat /\ v \in Nat /\ w \in Nat
    BY <2>2, <2>3, <2>4
  <2> HIDE DEF p, q, u, v, w
  <2>6. p # 0
    BY ONLY <2>5
  <2> QED
    BY <2>1, <2>6, EmptySeq DEF p
<1>11. Divided((h \o sig) \o body, <<item>>) /\ <<item>> \in Logs
  <2>1. Spells((h \o sig) \o body, item)
    BY <1>1, <1>2, <1>7, <1>8, <1>10 DEF Spells
  <2> QED
    BY <2>1, DividedSingle
<1>12. r = e
  <2>1. Write(s, h) = Extended(s, h, <<>>) /\ AtEnd(Extended(s, h, <<>>))
    BY <1>4, <1>9, WriteOnly, ExtendedParts, DividedEmpty
  <2> DEFINE x == Extended(s, h, <<>>)
             n == <<>>
             l == <<item>>
  <2>2. Logged(x, l) = Extended(x, <<>>, l)
    <3> HIDE DEF x, l
    <3> QED
      BY <1>11, <2>1, LogOnly DEF x, l
  <2>3. n \in Bytestrings /\ n \in Logs /\ l \in Logs
    BY <1>11, DividedEmpty
  <2>4. Extended(Extended(s, h, n), n, l) = Extended(s, h \o n, n \o l)
    <3> HIDE DEF n, l
    <3> QED
      BY <1>4, <1>9, <2>3, ExtendedTwice
  <2>5. h \o <<>> = h /\ <<>> \o <<item>> = <<item>>
    BY <1>4, <1>11, ConcatEmptySeq DEF Bytestrings, Logs
  <2> QED
    BY <1>6, <2>1, <2>2, <2>4, <2>5, Zenon
<1>13. /\ AtEnd(e) /\ e.role = s.role /\ e.data = s.data \o h /\ e.log = s.log \o <<item>>
  BY <1>4, <1>9, <1>11, ExtendedParts
<1>14. (s.data \o h) \o (sig \o body) = s.data \o ((h \o sig) \o body)
  <2> DEFINE d == s.data
  <2>1. d \in Seq(Byte256) /\ h \in Seq(Byte256) /\ sig \in Seq(Byte256) /\ body \in Seq(Byte256)
    BY <1>4, <1>5, <1>9 DEF Bytestrings
  <2> HIDE DEF d
  <2>2. h \o sig \in Seq(Byte256) /\ sig \o body \in Seq(Byte256)
    BY ONLY <2>1, ConcatProperties
  <2>3. (h \o sig) \o body = h \o (sig \o body)
    BY <2>1, AssociatedBytes, Zenon
  <2> DEFINE x == sig \o body
  <2>4. (d \o h) \o x = d \o (h \o x)
    <3>1. d \in Seq(Byte256) /\ h \in Seq(Byte256) /\ x \in Seq(Byte256)
      BY <2>1, <2>2
    <3> HIDE DEF x
    <3> QED
      BY <3>1, AssociatedBytes, Zenon
  <2> QED
    BY <2>3, <2>4 DEF d
<1>15. Divided(s.data \o ((h \o sig) \o body), s.log \o <<item>>)
  <2> DEFINE b == (h \o sig) \o body
             l == <<item>>
  <2>1. b \in Bytestrings /\ l \in Logs /\ Divided(b, l)
    BY <1>10, <1>11
  <2> HIDE DEF b, l
  <2>2. Divided(s.data \o b, s.log \o l)
    BY <1>9, <2>1, DividedJoined
  <2> QED
    BY <2>2 DEF b, l
<1> HIDE DEF e, r
<1>16. Divided(r.data \o (sig \o body), r.log) /\ AtEnd(r) /\ r.role = s.role
  BY <1>12, <1>13, <1>14, <1>15
<1> QED
  BY <1>5, <1>16 DEF r, item, sig, g, size

-----------------------------------------------------------------------------
(* Every step of the writer.                                                *)

\* compile goes on to write to the innermost stream.
LEMMA TopBalanced ==
  ASSUME NEW ss, NEW f, Balanced(ss, <<>>, f), NEW s, Whole(s), s.role = Last(ss).role,
         NEW e, e = <<>> \/ e = <<Plain("POP_OBJECT")>> \/ e = <<Plain("RET")>>
  PROVE  Balanced([ss EXCEPT ![Len(ss)] = s], <<>>, e)
<1> DEFINE tt == [ss EXCEPT ![Len(ss)] = s]
<1>1. Stack(tt) /\ Last(tt) = s
  BY StackTop DEF Balanced, Whole
<1> HIDE DEF tt
<1>2. Whole(Last(tt))
  BY <1>1
<1>3. Balanced(tt, <<>>, e)
  BY <1>1, <1>2, WholeBalanced
<1> QED
  BY <1>3 DEF tt

LEMMA OpenBalanced ==
  ASSUME NEW ss, Balanced(ss, <<>>, <<>>), NEW role \in Blocks,
         role = "else" => Last(ss).log # <<>> /\ Last(ss).log[Len(Last(ss).log)] = Plain("POP_OBJECT")
  PROVE  Balanced(Append(ss, Stream(role)), <<>>, <<>>)
<1> DEFINE n == Len(ss)
           s == Stream(role)
<1>1. /\ Stack(ss) /\ ss \in Seq(StreamRecord) /\ n \in Nat \ {0}
      /\ \A i \in 1..n : Whole(ss[i])
  BY StackLast, BalancedWhole DEF Balanced, Stack
<1>2. s \in StreamRecord /\ s.data = <<>> /\ s.offset = Len(s.data) /\ s.role = role /\ s.log = <<>>
  BY NewStream
<1>3. AtEnd(s) /\ Whole(s)
  BY <1>2, DividedEmpty DEF AtEnd, Whole
<1> HIDE DEF s
<1>4. StackGrows(ss, n, s)
  <2>1. n \in 0..n
    BY <1>1
  <2>2. s.role = "else" => EndsPopped(ss[n].log)
    BY <1>2 DEF EndsPopped, Last
  <2> QED
    BY <1>1, <1>3, <2>1, <2>2 DEF StackGrows
<1> DEFINE tt == Append(SubSeq(ss, 1, n), s)
<1>5. Stack(tt) /\ Last(tt) = s
  BY <1>4, StackAppended
<1>6. SubSeq(ss, 1, n) = ss
  BY <1>1, SubSeqFull
<1>7. tt = Append(ss, s)
  BY <1>6
<1> HIDE DEF tt
<1>8. Balanced(tt, <<>>, <<>>)
  BY <1>3, <1>5, WholeBalanced
<1> QED
  BY <1>7, <1>8 DEF s

\* The block is closed: what it holds is copied.
LEMMA CloseBalanced ==
  ASSUME NEW ss, Balanced(ss, <<>>, <<>>), Len(ss) > 1, NEW s,
         AtEnd(s), s.role = ss[Len(ss) - 1].role,
         NEW cs, CopiesOK(cs), Divided(s.data \o Pending(cs), s.log),
         NEW e, e = <<>> \/ e = <<Plain("POP_OBJECT")>> \/ e = <<Plain("RET")>>
  PROVE  Balanced(Append(SubSeq(ss, 1, Len(ss) - 2), s), cs, e)
<1> DEFINE n == Len(ss)
           k == n - 2
<1>1. Stack(ss) /\ n \in Nat /\ \A i \in 1..n : Whole(ss[i])
  BY StackLast, BalancedWhole DEF Balanced
<1>2. /\ k \in 0..n /\ n - 1 \in 1..n /\ \A i \in 1..k : i \in 1..n
      /\ k > 0 => n - 1 \in 2..n /\ (n - 1) - 1 = k
  <2> HIDE DEF n
  <2>1. n \in Nat /\ n > 1
    BY <1>1 DEF n
  <2> QED
    BY ONLY <2>1
<1>3. StackGrows(ss, k, s)
  <2>1. ASSUME k > 0, s.role = "else" PROVE EndsPopped(ss[k].log)
    <3>1. n - 1 \in 2..n /\ (n - 1) - 1 = k /\ ss[n - 1].role = "else"
      BY <1>2, <2>1
    <3>2. EndsPopped(ss[(n - 1) - 1].log)
      BY <1>1, <3>1 DEF Stack
    <3> QED
      BY <3>1, <3>2
  <2> QED
    BY <1>1, <1>2, <2>1 DEF StackGrows
<1> DEFINE tt == Append(SubSeq(ss, 1, k), s)
<1>4. Stack(tt) /\ Last(tt) = s
  BY <1>3, StackAppended
<1> HIDE DEF tt
<1>5. Balanced(tt, cs, e)
  BY <1>4 DEF Balanced
<1> QED
  BY <1>5 DEF tt

\* One stream is copied.
LEMMA OneCopy ==
  ASSUME NEW s \in StreamRecord
  PROVE  /\ CopiesOK([i \in DOMAIN <<s>> |-> Seek(<<s>>[i], 0)])
         /\ Pending([i \in DOMAIN <<s>> |-> Seek(<<s>>[i], 0)]) = s.data
<1> DEFINE t == Seek(s, 0)
<1>1. [i \in DOMAIN <<s>> |-> Seek(<<s>>[i], 0)] = <<t>>
  OBVIOUS
<1>2. t \in StreamRecord /\ t.offset = 0 /\ Rest(t) = s.data /\ t.data \in Bytestrings
  BY SeekRest DEF StreamRecord
<1> HIDE DEF t
<1>3. <<t>> \in Seq(StreamRecord) /\ Len(<<t>>) = 1 /\ <<t>>[1] = t /\ <<t>> # <<>>
  BY <1>2
<1>4. Len(t.data) \in Nat
  BY <1>2, Lengths
<1>5. CopiesOK(<<t>>)
  BY <1>2, <1>3, <1>4 DEF CopiesOK
<1>6. Pending(<<t>>) = s.data
  BY <1>2, <1>3 DEF Pending
<1> QED
  BY <1>1, <1>5, <1>6

LEMMA TwoCopies ==
  ASSUME NEW s \in StreamRecord, NEW r \in StreamRecord
  PROVE  /\ CopiesOK([i \in DOMAIN <<s, r>> |-> Seek(<<s, r>>[i], 0)])
         /\ Pending([i \in DOMAIN <<s, r>> |-> Seek(<<s, r>>[i], 0)]) = s.data \o r.data
<1> DEFINE t == Seek(s, 0)
           u == Seek(r, 0)
<1>1. [i \in DOMAIN <<s, r>> |-> Seek(<<s, r>>[i], 0)] = <<t, u>>
  OBVIOUS
<1>2. /\ t \in StreamRecord /\ t.offset = 0 /\ Rest(t) = s.data /\ t.data \in Bytestrings
      /\ u \in StreamRecord /\ u.offset = 0 /\ Rest(u) = r.data /\ u.data \in Bytestrings
  BY SeekRest DEF StreamRecord
<1> HIDE DEF t, u
<1>3. /\ <<t, u>> \in Seq(StreamRecord) /\ Len(<<t, u>>) = 2
      /\ <<t, u>>[1] = t /\ <<t, u>>[2] = u /\ <<t, u>> # <<>>
  BY <1>2
<1>4. Len(t.data) \in Nat /\ Len(u.data) \in Nat
  BY <1>2, Lengths
<1>5. CopiesOK(<<t, u>>)
  <2>1. \A i \in 1..2 : i = 1 \/ i = 2
    OBVIOUS
  <2> QED
    BY <1>2, <1>3, <1>4, <2>1 DEF CopiesOK
<1>6. Pending(<<t, u>>) = s.data \o r.data
  <2>1. Len(<<t, u>>) # 1
    BY <1>3
  <2> QED
    BY <1>2, <1>3, <2>1, Zenon DEF Pending
<1> QED
  BY <1>1, <1>5, <1>6

LEMMA Nonempty == \A s : Len(s) # 0 => s # <<>>
<1> SUFFICES ASSUME NEW s, s = <<>> PROVE Len(s) = 0
  OBVIOUS
<1> QED
  OBVIOUS

\* A stream that was copied to its end is left.
LEMMA CopiedBalanced ==
  ASSUME NEW ss, NEW cs, NEW e, Balanced(ss, cs, e), cs # <<>>,
         Len(Head(cs).data) - Head(cs).offset = 0
  PROVE  Balanced(ss, Tail(cs), e)
<1> DEFINE n == Len(cs)
<1>1. cs \in Seq(StreamRecord) /\ n <= 2 /\ (\A i \in 1..n : cs[i].offset <= Len(cs[i].data))
  BY DEF Balanced, CopiesOK
<1>2. n \in {1, 2}
  <2>1. n \in Nat /\ n # 0 /\ n <= 2
    BY <1>1, EmptySeq
  <2> HIDE DEF n
  <2> QED
    BY ONLY <2>1
<1>3. Head(cs) = cs[1] /\ cs[1] \in StreamRecord
  BY <1>1, <1>2
<1>4. Rest(cs[1]) = <<>>
  BY <1>3, RestEmpty
<1> DEFINE tt == Tail(cs)
<1>5. tt \in Seq(StreamRecord) /\ Len(tt) = n - 1 /\ \A i \in 1..Len(tt) : tt[i] = cs[i + 1]
  BY <1>1, HeadTailProperties
<1> HIDE DEF tt, n
<1>6. CopiesOK(tt)
  <2>1. Len(tt) \in Nat /\ Len(tt) <= 2 /\ \A i \in 1..Len(tt) : i + 1 \in 1..n
    BY <1>2, <1>5
  <2>2. ASSUME NEW i \in 1..Len(tt) PROVE tt[i].offset <= Len(tt[i].data)
    <3>1. tt[i] = cs[i + 1] /\ i + 1 \in 1..n
      BY <1>5, <2>1
    <3> QED
      BY <1>1, <3>1
  <2> QED
    BY <1>5, <2>1, <2>2 DEF CopiesOK
<1>7. Pending(tt) = Pending(cs)
  <2>1. CASE n = 1
    <3>1. tt = <<>>
      BY <1>5, <2>1, EmptySeq
    <3>2. Pending(tt) = <<>>
      BY <3>1 DEF Pending
    <3>3. Pending(cs) = <<>>
      BY <1>4, <2>1 DEF Pending, n
    <3> QED
      BY <3>2, <3>3
  <2>2. CASE n = 2
    <3>1. Len(tt) = 1 /\ tt[1] = cs[2] /\ n # 1
      BY <1>5, <2>2
    <3>2. tt # <<>>
      <4>1. Len(tt) # 0
        BY <3>1
      <4> QED
        BY <4>1, Nonempty, Zenon
    <3>3. Pending(tt) = Rest(cs[2])
      BY <3>1, <3>2, Zenon DEF Pending
    <3>4. Pending(cs) = <<>> \o Rest(cs[2])
      BY <1>4, <3>1, Zenon DEF Pending, n
    <3>5. cs[2] \in StreamRecord
      <4>1. 2 \in 1..n
        BY <2>2
      <4> QED
        BY <1>1, <4>1 DEF n
    <3>6. Rest(cs[2]) \in Seq(Byte256)
      BY <3>5, RestType DEF Bytestrings
    <3>7. <<>> \o Rest(cs[2]) = Rest(cs[2])
      BY <3>6, ConcatEmptySeq
    <3> QED
      BY <3>3, <3>4, <3>7
  <2> QED
    BY <1>2, <2>1, <2>2
<1> QED
  BY <1>6, <1>7 DEF Balanced, tt

\* A turn of copy_stream_buffer moves bytes from what is still to be copied.
LEMMA TurnBalanced ==
  ASSUME NEW ss, NEW cs, NEW e, Balanced(ss, cs, e), cs # <<>>,
         NEW n \in Nat, Head(cs).offset + n <= Len(Head(cs).data)
  PROVE  LET c == Head(cs)
             b == SubSeq(c.data, c.offset + 1, c.offset + n)
         IN Balanced([ss EXCEPT ![Len(ss)] = Write(Last(ss), b)],
                     [cs EXCEPT ![1] = Seek(c, c.offset + n)], e)
<1> DEFINE c == Head(cs)
           m == Len(cs)
           b == SubSeq(c.data, c.offset + 1, c.offset + n)
           u == Seek(c, c.offset + n)
           s == Last(ss)
<1>1. /\ cs \in Seq(StreamRecord) /\ m <= 2 /\ \A i \in 1..m : cs[i].offset <= Len(cs[i].data)
      /\ Divided(s.data \o Pending(cs), s.log) /\ Stack(ss)
  BY DEF Balanced, CopiesOK
<1>2. m \in {1, 2}
  <2>1. m \in Nat /\ m # 0 /\ m <= 2
    BY <1>1, EmptySeq
  <2> HIDE DEF m
  <2> QED
    BY ONLY <2>1
<1>3. c = cs[1] /\ c \in StreamRecord
  BY <1>1, <1>2
<1>4. /\ b \in Bytestrings /\ u \in StreamRecord /\ u.data = c.data /\ u.offset = c.offset + n
      /\ Rest(c) = b \o Rest(u)
  <2> HIDE DEF c
  <2> QED
    BY <1>3, RestCopied DEF c
<1> DEFINE dd == [cs EXCEPT ![1] = u]
<1>5. /\ dd \in Seq(StreamRecord) /\ Len(dd) = m /\ dd[1] = u
      /\ \A i \in 1..m : i # 1 => dd[i] = cs[i]
  BY <1>1, <1>2, <1>4, ExceptSeq
<1>6. u.offset <= Len(u.data)
  BY <1>4
<1> HIDE DEF dd, m, b, u, c
<1>7. CopiesOK(dd)
  <2>1. ASSUME NEW i \in 1..m PROVE dd[i].offset <= Len(dd[i].data)
    <3>1. CASE i = 1
      BY <1>5, <1>6, <3>1
    <3>2. CASE i # 1
      BY <1>1, <1>5, <3>2
    <3> QED
      BY <3>1, <3>2
  <2> QED
    BY <1>1, <1>5, <2>1 DEF CopiesOK
<1>8. Pending(cs) = b \o Pending(dd) /\ Pending(dd) \in Bytestrings
  <2>1. Rest(u) \in Bytestrings
    BY <1>4, RestType
  <2>2. CASE m = 1
    <3>1. dd # <<>> /\ cs # <<>>
      <4>1. Len(dd) # 0
        BY <1>5, <2>2
      <4> QED
        BY <4>1, Nonempty, Zenon
    <3>2. Pending(dd) = Rest(u)
      BY <1>5, <2>2, <3>1, Zenon DEF Pending
    <3>3. Pending(cs) = Rest(c)
      BY <1>3, <2>2, <3>1, Zenon DEF Pending, m
    <3> QED
      BY <1>4, <2>1, <3>2, <3>3
  <2>3. CASE m = 2
    <3>1. Len(dd) # 1 /\ m # 1 /\ 2 \in 1..m /\ 2 # 1
      BY <1>5, <2>3
    <3>2. dd # <<>> /\ cs # <<>>
      <4>1. Len(dd) # 0
        BY <1>5, <2>3
      <4> QED
        BY <4>1, Nonempty, Zenon
    <3>3. dd[2] = cs[2] /\ cs[2] \in StreamRecord
      BY <1>1, <1>5, <3>1 DEF m
    <3> DEFINE r == Rest(cs[2])
    <3>4. r \in Bytestrings
      BY <3>3, RestType
    <3> HIDE DEF r
    <3>5. Pending(dd) = Rest(u) \o r
      BY <1>5, <3>1, <3>2, <3>3, Zenon DEF Pending, r
    <3>6. Pending(cs) = Rest(c) \o r
      BY <1>3, <3>1, <3>2, Zenon DEF Pending, r, m
    <3>7. (b \o Rest(u)) \o r = b \o (Rest(u) \o r)
      <4> DEFINE x == Rest(u)
      <4>1. b \in Seq(Byte256) /\ x \in Seq(Byte256) /\ r \in Seq(Byte256)
        BY <1>4, <2>1, <3>4 DEF Bytestrings
      <4> HIDE DEF x
      <4>2. (b \o x) \o r = b \o (x \o r)
        BY <4>1, AssociatedBytes, Zenon
      <4> QED
        BY <4>2 DEF x
    <3>8. Rest(u) \o r \in Bytestrings
      BY <2>1, <3>4, Joined
    <3> QED
      BY <1>4, <3>5, <3>6, <3>7, <3>8
  <2> QED
    BY <1>2, <2>2, <2>3
<1>9. AtEnd(s) /\ <<>> \in Logs
  BY <1>1, StackLast, DividedEmpty
<1> HIDE DEF s
<1> DEFINE t == Extended(s, b, <<>>)
<1>10. Write(s, b) = t
  BY <1>4, <1>9, WriteOnly
<1>11. /\ AtEnd(t) /\ t.role = s.role /\ t.data = s.data \o b /\ t.log = s.log \o <<>>
       /\ s.data \in Bytestrings /\ s.log \in Logs
  BY <1>4, <1>9, ExtendedParts
<1> HIDE DEF t
<1>12. Divided(t.data \o Pending(dd), t.log)
  <2> DEFINE d == s.data
             x == Pending(dd)
  <2>1. d \in Seq(Byte256) /\ b \in Seq(Byte256) /\ x \in Seq(Byte256)
    BY <1>4, <1>8, <1>11 DEF Bytestrings
  <2>2. t.data = d \o b /\ Pending(cs) = b \o x
    BY <1>8, <1>11
  <2>3. s.log \o <<>> = s.log
    BY <1>11, ConcatEmptySeq DEF Logs
  <2>4. Divided(d \o (b \o x), s.log)
    BY <1>1, <2>2
  <2> HIDE DEF d, x
  <2>5. (d \o b) \o x = d \o (b \o x)
    BY <2>1, AssociatedBytes, Zenon
  <2> QED
    BY <1>11, <2>2, <2>3, <2>4, <2>5 DEF x
<1> DEFINE tt == [ss EXCEPT ![Len(ss)] = t]
<1>13. Stack(tt) /\ Last(tt) = t
  BY <1>1, <1>11, StackTop DEF s
<1> HIDE DEF tt
<1>14. Balanced(tt, dd, e)
  BY <1>7, <1>12, <1>13 DEF Balanced
<1> QED
  BY <1>10, <1>14, Zenon DEF tt, dd, s, b, u, c

-----------------------------------------------------------------------------
(* The steps of compile.                                                    *)

WritingInv == Balanced(streams, copies, ending)

LEMMA TopIsLast == Top = Last(streams) /\ \A s : SetTop(s) = [streams EXCEPT ![Len(streams)] = s]
BY Zenon DEF Top, Last, SetTop

\* compile goes on to write when nothing is left to copy.
LEMMA WritingWhole ==
  ASSUME WritingInv, Writing
  PROVE  /\ Balanced(streams, <<>>, <<>>)
         /\ Whole(Top) /\ \A i \in 1..Len(streams) : Whole(streams[i])
<1>1. Balanced(streams, <<>>, <<>>)
  BY DEF WritingInv, Writing
<1> QED
  BY <1>1, BalancedWhole, TopIsLast

LEMMA PushStep ==
  ASSUME WritingInv, NEW c \in Commands, PushCommand(c)
  PROVE  WritingInv'
<1>1. /\ Writing /\ streams' = SetTop(Push(Top, c)) /\ copies' = <<>> /\ ending' = <<>>
  BY DEF PushCommand, Writing
<1>2. Balanced(streams, <<>>, <<>>) /\ Whole(Top)
  BY <1>1, WritingWhole
<1> DEFINE s == Push(Top, c)
<1>3. Whole(s) /\ s.role = Top.role
  BY <1>2, CommandsGiven, PushedWhole
<1> HIDE DEF s
<1>4. Balanced([streams EXCEPT ![Len(streams)] = s], <<>>, <<>>)
  BY <1>2, <1>3, TopBalanced, TopIsLast
<1> QED
  BY <1>1, <1>4, TopIsLast DEF WritingInv, s

LEMMA OpenStep ==
  ASSUME WritingInv, NEW role \in Blocks, OpenBlock(role)
  PROVE  WritingInv'
<1>1. /\ Writing /\ streams' = Append(streams, Stream(role)) /\ copies' = <<>> /\ ending' = <<>>
      /\ role = "else" => Top.log # <<>> /\ Top.log[Len(Top.log)] = Plain("POP_OBJECT")
  BY DEF OpenBlock, Writing
<1>2. Balanced(streams, <<>>, <<>>)
  BY <1>1, WritingWhole
<1>3. Balanced(Append(streams, Stream(role)), <<>>, <<>>)
  BY <1>1, <1>2, OpenBalanced, TopIsLast
<1> QED
  BY <1>1, <1>3 DEF WritingInv

\* The streams of a block and of the one it is in.
LEMMA ClosingStreams ==
  ASSUME WritingInv, NEW role, Closing(role)
  PROVE  /\ Balanced(streams, <<>>, <<>>) /\ Len(streams) > 1
         /\ Whole(Top) /\ Whole(Outer) /\ Outer = streams[Len(streams) - 1]
         /\ Top.data \in Bytestrings /\ Top.log \in Logs /\ Len(Top.data) \in Nat
         /\ Divided(Top.data, Top.log) /\ Top \in StreamRecord
         /\ role = "else" => EndsPopped(Outer.log)
<1>1. Writing /\ Len(streams) > 1 /\ Top.role = role
  BY DEF Closing
<1>2. /\ Balanced(streams, <<>>, <<>>) /\ Whole(Top)
      /\ \A i \in 1..Len(streams) : Whole(streams[i])
  BY <1>1, WritingWhole
<1>3. Stack(streams)
  BY <1>2 DEF Balanced
<1> DEFINE n == Len(streams)
<1>4. n \in Nat /\ n > 1
  BY <1>1, <1>3, StackLast
<1> HIDE DEF n
<1>5. n - 1 \in 1..n /\ n \in 2..n
  BY ONLY <1>4
<1>6. Whole(Outer)
  BY <1>2, <1>5 DEF Outer, n
<1>7. role = "else" => EndsPopped(Outer.log)
  BY <1>1, <1>3, <1>5 DEF Stack, Outer, Top, n
<1>8. Top.data \in Bytestrings /\ Top.log \in Logs /\ Divided(Top.data, Top.log) /\ Top \in StreamRecord
  BY <1>2 DEF Whole, AtEnd, StreamRecord
<1>9. Len(Top.data) \in Nat
  BY <1>8, Lengths
<1> QED
  BY <1>1, <1>2, <1>6, <1>7, <1>8, <1>9 DEF Outer

\* A block whose code is logged and copied behind s.
LEMMA BlockClosed ==
  ASSUME WritingInv, NEW role, Closing(role), NEW s, Whole(s), s.role = Outer.role,
         NEW op \in {"POP_OBJECT", "RET"},
         CloseBlock(Logged(s, Top.log), <<Top>>, <<Plain(op)>>)
  PROVE  WritingInv'
<1>1. /\ Balanced(streams, <<>>, <<>>) /\ Len(streams) > 1
      /\ Outer = streams[Len(streams) - 1] /\ Top \in StreamRecord
      /\ Top.data \in Bytestrings /\ Top.log \in Logs /\ Divided(Top.data, Top.log)
  BY ClosingStreams
<1> DEFINE t == Logged(s, Top.log)
           cs == [i \in DOMAIN <<Top>> |-> Seek(<<Top>>[i], 0)]
           e == <<Plain(op)>>
<1>2. /\ streams' = Append(SubSeq(streams, 1, Len(streams) - 2), t)
      /\ copies' = cs /\ ending' = e
  BY DEF CloseBlock
<1>3. AtEnd(t) /\ t.role = s.role /\ Divided(t.data \o Top.data, t.log)
  BY <1>1, LoggedPending
<1>4. CopiesOK(cs) /\ Pending(cs) = Top.data
  BY <1>1, OneCopy
<1>5. e = <<>> \/ e = <<Plain("POP_OBJECT")>> \/ e = <<Plain("RET")>>
  BY Zenon
<1> HIDE DEF t, cs, e
<1>6. Balanced(Append(SubSeq(streams, 1, Len(streams) - 2), t), cs, e)
  BY <1>1, <1>3, <1>4, <1>5, CloseBalanced
<1> QED
  BY <1>2, <1>6 DEF WritingInv

LEMMA IfStep == ASSUME WritingInv, CloseIf PROVE WritingInv'
<1> DEFINE s == PushJump(Outer, "JMP_IF_FALSE", Len(Top.data))
<1>1. Closing("if") /\ CloseBlock(Logged(s, Top.log), <<Top>>, <<Plain("POP_OBJECT")>>)
  BY DEF CloseIf
<1>2. Whole(s) /\ s.role = Outer.role
  <2>1. Tabled("JMP_IF_FALSE")
    BY KnownNames DEF Tabled, Table
  <2>2. Whole(Outer) /\ Len(Top.data) \in Nat
    BY <1>1, ClosingStreams
  <2> QED
    BY <2>1, <2>2, JumpWhole
<1> HIDE DEF s
<1> QED
  BY <1>1, <1>2, BlockClosed

LEMMA ElseStep == ASSUME WritingInv, CloseElse PROVE WritingInv'
<1> DEFINE s == ElseBlock(Outer, Len(Top.data))
<1>1. Closing("else") /\ CloseBlock(Logged(s, Top.log), <<Top>>, <<Plain("POP_OBJECT")>>)
  BY DEF CloseElse
<1>2. Whole(s) /\ s.role = Outer.role
  <2>1. Whole(Outer) /\ Len(Top.data) \in Nat /\ EndsPopped(Outer.log)
    BY <1>1, ClosingStreams
  <2> QED
    BY <2>1, ElseWhole
<1> HIDE DEF s
<1> QED
  BY <1>1, <1>2, BlockClosed

LEMMA ReturnStep == ASSUME WritingInv, CloseReturn PROVE WritingInv'
<1>1. Closing("return") /\ CloseBlock(Logged(Outer, Top.log), <<Top>>, <<Plain("RET")>>)
  BY DEF CloseReturn
<1>2. Whole(Outer)
  BY <1>1, ClosingStreams
<1> QED
  BY <1>1, <1>2, BlockClosed

LEMMA FunctionStep ==
  ASSUME WritingInv, NEW f \in Functions, CloseFunction(f)
  PROVE  WritingInv'
<1> DEFINE body == Top.data
           item == [f EXCEPT !.body = body]
           g == SignatureStream(f.names)
           t == Logged(DefineFunction(Outer, f, Len(body)), <<item>>)
           cs == [i \in DOMAIN <<g, Top>> |-> Seek(<<g, Top>>[i], 0)]
<1>1. Closing("function") /\ CloseBlock(t, <<g, Top>>, <<>>)
  BY DEF CloseFunction
<1>2. /\ Balanced(streams, <<>>, <<>>) /\ Len(streams) > 1 /\ Whole(Outer)
      /\ Outer = streams[Len(streams) - 1] /\ Top \in StreamRecord /\ Top.data \in Bytestrings
  BY <1>1, ClosingStreams
<1>3. AtEnd(t) /\ t.role = Outer.role /\ g \in StreamRecord /\ Divided(t.data \o (g.data \o Top.data), t.log)
  BY <1>2, FunctionPending
<1> HIDE DEF t, g
<1>4. CopiesOK(cs) /\ Pending(cs) = g.data \o Top.data
  BY <1>2, <1>3, TwoCopies
<1>5. /\ streams' = Append(SubSeq(streams, 1, Len(streams) - 2), t)
      /\ copies' = cs /\ ending' = <<>>
  BY <1>1 DEF CloseBlock
<1> HIDE DEF cs
<1>6. Balanced(Append(SubSeq(streams, 1, Len(streams) - 2), t), cs, <<>>)
  BY <1>2, <1>3, <1>4, CloseBalanced
<1> QED
  BY <1>5, <1>6 DEF WritingInv

LEMMA CopyStep == ASSUME WritingInv, CopyBlock PROVE WritingInv'
<1> DEFINE s == Head(copies)
           left == Len(s.data) - s.offset
           n == IF left < CopySize THEN left ELSE CopySize
<1>1. copies # <<>> /\ ending' = ending /\ Balanced(streams, copies, ending)
  BY DEF CopyBlock, WritingInv
<1>2. left \in Nat /\ s.offset \in Nat /\ Len(s.data) \in Nat
  <2>1. /\ copies \in Seq(StreamRecord)
        /\ \A i \in 1..Len(copies) : copies[i].offset <= Len(copies[i].data)
    BY <1>1 DEF Balanced, CopiesOK
  <2> DEFINE m == Len(copies)
  <2>2. m \in Nat /\ m # 0
    BY <1>1, <2>1, EmptySeq
  <2> HIDE DEF m
  <2>3. 1 \in 1..m
    BY ONLY <2>2
  <2>4. s = copies[1] /\ copies[1] \in StreamRecord /\ copies[1].offset <= Len(copies[1].data)
    BY <1>1, <2>1, <2>3 DEF m
  <2> DEFINE o == s.offset
             k == Len(s.data)
  <2>5. o \in Nat /\ k \in Nat /\ o <= k
    <3> HIDE DEF s
    <3>1. o \in Nat /\ s.data \in Bytestrings /\ o <= k
      BY <2>4 DEF StreamRecord
    <3> QED
      BY <3>1, Lengths
  <2> HIDE DEF o, k
  <2>6. k - o \in Nat
    BY ONLY <2>5
  <2> QED
    BY <2>5, <2>6 DEF o, k
<1>3. CASE left = 0
  <2>1. copies' = Tail(copies) /\ streams' = streams
    BY <1>3 DEF CopyBlock
  <2>2. Balanced(streams, Tail(copies), ending)
    BY <1>1, <1>3, CopiedBalanced
  <2> QED
    BY <1>1, <2>1, <2>2 DEF WritingInv
<1>4. CASE left # 0
  <2>1. /\ streams' = SetTop(Write(Top, SubSeq(s.data, s.offset + 1, s.offset + n)))
        /\ copies' = [copies EXCEPT ![1] = Seek(s, s.offset + n)]
    BY <1>4, Zenon DEF CopyBlock
  <2>2. n \in Nat /\ s.offset + n <= Len(s.data)
    <3> DEFINE o == s.offset
               k == Len(s.data)
    <3>1. o \in Nat /\ k \in Nat /\ k - o \in Nat /\ CopySize \in Nat
      BY <1>2, StreamAssumption
    <3>2. n = IF k - o < CopySize THEN k - o ELSE CopySize
      OBVIOUS
    <3> HIDE DEF o, k, n
    <3>3. n \in Nat /\ o + n <= k
      BY ONLY <3>1, <3>2
    <3> QED
      BY <3>3 DEF o, k
  <2> HIDE DEF n
  <2>3. Balanced([streams EXCEPT ![Len(streams)]
                    = Write(Last(streams), SubSeq(s.data, s.offset + 1, s.offset + n))],
                 [copies EXCEPT ![1] = Seek(s, s.offset + n)], ending)
    BY <1>1, <2>2, TurnBalanced
  <2>4. streams' = [streams EXCEPT ![Len(streams)]
                      = Write(Last(streams), SubSeq(s.data, s.offset + 1, s.offset + n))]
    BY <2>1, TopIsLast, Zenon
  <2> HIDE DEF s
  <2> QED
    BY <1>1, <2>1, <2>3, <2>4, Zenon DEF WritingInv
<1> QED
  BY <1>3, <1>4

LEMMA EndStep == ASSUME WritingInv, EndBlock PROVE WritingInv'
<1> DEFINE c == ending[1]
           s == Push(Top, c)
<1>1. /\ copies = <<>> /\ ending # <<>> /\ streams' = SetTop(s) /\ ending' = <<>> /\ copies' = <<>>
  BY DEF EndBlock
<1>2. Balanced(streams, <<>>, ending)
  BY <1>1 DEF WritingInv
<1>3. c = Plain("POP_OBJECT") \/ c = Plain("RET")
  BY <1>1, <1>2 DEF Balanced
<1>4. Command(c)
  <2>1. /\ "POP_OBJECT" \in Table \ ({"DEFINE_FUNCTION", "PUSH_INTEGRAL", "CALLB"} \cup SizedOps)
        /\ "RET" \in Table \ ({"DEFINE_FUNCTION", "PUSH_INTEGRAL", "CALLB"} \cup SizedOps)
    <3>1. "POP_OBJECT" \in Table /\ "RET" \in Table
      BY KnownNames DEF Table
    <3> QED
      BY <3>1 DEF SizedOps
  <2>2. Command(Plain("POP_OBJECT")) /\ Command(Plain("RET"))
    BY <2>1, PlainCommand
  <2> QED
    BY <1>3, <2>2
<1>5. Whole(Top)
  BY <1>2, BalancedWhole, TopIsLast
<1> HIDE DEF c
<1>6. Whole(s) /\ s.role = Top.role
  BY <1>4, <1>5, PushedWhole
<1> HIDE DEF s
<1>7. Balanced([streams EXCEPT ![Len(streams)] = s], <<>>, <<>>)
  BY <1>2, <1>6, TopBalanced, TopIsLast
<1> QED
  BY <1>1, <1>7, TopIsLast DEF WritingInv

-----------------------------------------------------------------------------
(* The steps of runcode.                                                    *)

\* What was read so far fits.
Trusted(found, log) == \A i \in 1..Len(found) : i \in DOMAIN log => Fits(log[i])

\* The reader has found these commands at these places, and is behind them.
InStep(s, found, cut) ==
  /\ Divides(cut, s.data, s.log)
  /\ Trusted(found, s.log) =>
       /\ Len(found) <= Len(s.log)
       /\ \A i \in 1..Len(found) : found[i] = s.log[i]
       /\ s.offset = cut[Len(found)]

ReadingInv ==
  /\ streams = <<streams[1]>> /\ streams[1] \in StreamRecord
  /\ copies = <<>> /\ ending = <<>>
  /\ \E S : seen \in Seq(S)
  /\ \E cut : InStep(streams[1], seen, cut)

LEMMA OnlyStream ==
  ASSUME ReadingInv
  PROVE  /\ Top = streams[1] /\ Len(streams) = 1 /\ Top \in StreamRecord /\ Top.data \in Bytestrings
         /\ Top.log \in Logs /\ Top.offset \in Nat
         /\ Len(seen) \in Nat /\ Len(Top.log) \in Nat /\ DOMAIN Top.log = 1..Len(Top.log)
<1>1. streams = <<streams[1]>> /\ streams[1] \in StreamRecord
  BY DEF ReadingInv
<1>2. Len(streams) = 1
  <2> DEFINE s == streams[1]
  <2> HIDE DEF s
  <2>1. Len(<<s>>) = 1
    OBVIOUS
  <2> QED
    BY <1>1, <2>1 DEF s
<1>3. Top = streams[1]
  BY <1>2 DEF Top
<1>4. Top.data \in Bytestrings /\ Top.log \in Logs /\ Top.offset \in Nat
  BY <1>1, <1>3 DEF StreamRecord
<1>5. Len(seen) \in Nat
  <2>1. PICK S : seen \in Seq(S)
    BY DEF ReadingInv
  <2> QED
    BY <2>1
<1>6. Len(Top.log) \in Nat /\ DOMAIN Top.log = 1..Len(Top.log)
  BY <1>4 DEF Logs
<1> QED
  BY <1>1, <1>2, <1>3, <1>4, <1>5, <1>6

\* The next command is found when it fits, as long as those before it did.
LEMMA NextFound ==
  ASSUME ReadingInv, Top.offset < Len(Top.data), Trusted(seen, Top.log),
         NEW cut, InStep(Top, seen, cut)
  PROVE  /\ Len(seen) < Len(Top.log)
         /\ Fits(Top.log[Len(seen) + 1]) =>
              Found(Top.offset, Top.log[Len(seen) + 1], cut[Len(seen) + 1])
<1> DEFINE n == Len(seen)
           l == Len(Top.log)
           m == Len(Top.data)
           o == Top.offset
           c == Top.log[n + 1]
<1>1. n \in Nat /\ l \in Nat /\ o \in Nat /\ Top.data \in Bytestrings
  BY OnlyStream
<1>2. /\ n <= l /\ o = cut[n] /\ o < m
      /\ cut[l] = m /\ \A k \in 1..l : Piece(Top.data, cut[k - 1], cut[k], Top.log[k])
  BY DEF InStep, Divides
<1>3. m \in Nat
  BY <1>1, Lengths
<1> HIDE DEF n, l, m, o, c
<1>4. n < l
  <2>1. n # l
    BY <1>1, <1>2, <1>3
  <2> QED
    BY <1>1, <1>2, <2>1
<1>5. n + 1 \in 1..l /\ (n + 1) - 1 = n
  BY <1>1, <1>4
<1>6. Piece(Top.data, o, cut[n + 1], c)
  BY <1>2, <1>5 DEF c
<1>7. ASSUME Fits(c) PROVE Found(o, c, cut[n + 1])
  BY <1>1, <1>6, <1>7, DecodedPiece
<1> QED
  BY <1>4, <1>7 DEF n, l, o, c

\* A command more was read.
LEMMA TrustedMore ==
  ASSUME NEW S, NEW found \in Seq(S), NEW x \in S, NEW log
  PROVE  /\ Trusted(Append(found, x), log) => Trusted(found, log)
         /\ Trusted(Append(found, x), log) /\ Len(found) + 1 \in DOMAIN log =>
              Fits(log[Len(found) + 1])
<1> DEFINE tt == Append(found, x)
           n == Len(found)
<1>1. Len(tt) = n + 1 /\ n \in Nat
  BY AppendProperties
<1> HIDE DEF tt, n
<1>2. \A i \in 1..n : i \in 1..(n + 1)
  BY <1>1
<1>3. n + 1 \in 1..(n + 1)
  BY <1>1
<1> QED
  BY <1>1, <1>2, <1>3 DEF Trusted, tt, n

LEMMA ReadStep ==
  ASSUME ReadingInv, ReadCommand
  PROVE  ReadingInv'
<1> DEFINE d == Decoded(Top.offset)
           x == d.item
           o == d.next
           s == Seek(Top, o)
           tt == Append(seen, x)
           n == Len(seen)
<1>1. /\ Top.offset < Len(Top.data) /\ seen' = tt /\ streams' = SetTop(s)
      /\ copies' = <<>> /\ ending' = <<>>
  BY DEF ReadCommand, InCode, ReadingInv
<1>2. /\ Top = streams[1] /\ Len(streams) = 1 /\ Top \in StreamRecord /\ Top.offset \in Nat
      /\ Top.data \in Bytestrings /\ n \in Nat
  BY OnlyStream
<1>3. o \in Nat
  BY <1>2, DecodedType
<1> HIDE DEF d, x, o
<1>4. s \in StreamRecord /\ s.data = Top.data /\ s.log = Top.log /\ s.offset = o
  <2> DEFINE t == Top
  <2>1. t \in StreamRecord
    BY <1>2
  <2> HIDE DEF t
  <2>2. Seek(t, o) \in StreamRecord /\ Seek(t, o).data = t.data /\ Seek(t, o).log = t.log
        /\ Seek(t, o).offset = o
    BY <1>3, <2>1 DEF Seek, StreamRecord
  <2> QED
    BY <2>2 DEF t
<1> HIDE DEF s
<1>5. streams' = <<s>> /\ streams'[1] = s
  <2>1. SetTop(s) = [streams EXCEPT ![1] = s]
    BY <1>2, TopIsLast
  <2> DEFINE u == streams[1]
  <2>2. streams = <<u>>
    BY DEF ReadingInv
  <2> HIDE DEF u
  <2>3. [<<u>> EXCEPT ![1] = s] = <<s>> /\ <<s>>[1] = s
    OBVIOUS
  <2> QED
    BY <1>1, <2>1, <2>2, <2>3
<1>6. PICK S : seen \in Seq(S)
  BY DEF ReadingInv
<1> DEFINE U == S \cup {x}
<1>7. seen \in Seq(U) /\ x \in U
  BY <1>6
<1> HIDE DEF U
<1>8. /\ tt \in Seq(U) /\ Len(tt) = n + 1 /\ tt[n + 1] = x
      /\ \A i \in 1..n : tt[i] = seen[i]
  BY <1>7, AppendProperties
<1>9. PICK cut : InStep(Top, seen, cut)
  BY <1>2 DEF ReadingInv
<1>10. ASSUME Trusted(tt, Top.log)
       PROVE  /\ Len(tt) <= Len(Top.log)
              /\ \A i \in 1..Len(tt) : tt[i] = Top.log[i]
              /\ o = cut[Len(tt)]
  <2>1. Trusted(seen, Top.log)
    BY <1>7, <1>10, TrustedMore
  <2>2. n < Len(Top.log) /\ (Fits(Top.log[n + 1]) => Found(Top.offset, Top.log[n + 1], cut[n + 1]))
    BY <1>1, <1>9, <2>1, NextFound
  <2>3. n + 1 \in DOMAIN Top.log /\ n + 1 <= Len(Top.log)
    <3> DEFINE l == Len(Top.log)
    <3>1. l \in Nat /\ DOMAIN Top.log = 1..l /\ n < l
      BY <2>2, OnlyStream
    <3> HIDE DEF l, n
    <3>2. n + 1 \in 1..l /\ n + 1 <= l
      BY <1>2, <3>1 DEF n
    <3> QED
      BY <3>1, <3>2 DEF l
  <2>4. Fits(Top.log[n + 1])
    BY <1>7, <1>10, <2>3, TrustedMore
  <2>5. x = Top.log[n + 1] /\ o = cut[n + 1]
    BY <2>2, <2>4 DEF Found, x, o, d
  <2>6. \A i \in 1..n : seen[i] = Top.log[i]
    BY <1>9, <2>1 DEF InStep
  <2>7. ASSUME NEW i \in 1..(n + 1) PROVE tt[i] = Top.log[i]
    <3>1. CASE i \in 1..n
      BY <1>8, <2>6, <3>1
    <3>2. CASE i = n + 1
      BY <1>8, <2>5, <3>2
    <3>3. i \in 1..n \/ i = n + 1
      <4> HIDE DEF n
      <4>1. n \in Nat
        BY <1>2 DEF n
      <4> QED
        BY ONLY <4>1
    <3> QED
      BY <3>1, <3>2, <3>3
  <2> HIDE DEF tt
  <2> QED
    BY <1>8, <2>3, <2>5, <2>7
<1> HIDE DEF tt
<1>11. InStep(s, tt, cut)
  BY <1>4, <1>9, <1>10 DEF InStep
<1>12. ReadingInv'
  <2>1. streams' = <<streams[1]'>> /\ streams[1]' = s
    BY <1>5
  <2>2. seen' \in Seq(U) /\ InStep(streams[1]', seen', cut)
    BY <1>1, <1>8, <1>11, <2>1
  <2> QED
    BY <1>1, <1>4, <2>1, <2>2 DEF ReadingInv
<1> QED
  BY <1>12

\* compile has written everything: runcode begins at the first byte.
LEMMA RewindStep ==
  ASSUME WritingInv, Rewind, seen = <<>>
  PROVE  ReadingInv'
<1>1. /\ Writing /\ Len(streams) = 1 /\ streams' = <<Seek(Top, 0)>> /\ copies' = <<>>
      /\ ending' = <<>> /\ seen' = <<>>
  BY DEF Rewind, Writing
<1>2. Whole(Top)
  BY <1>1, WritingWhole
<1>3. Top \in StreamRecord
  BY <1>2 DEF Whole, AtEnd
<1> DEFINE s == Seek(Top, 0)
<1>4. s \in StreamRecord /\ s.data = Top.data /\ s.offset = 0 /\ s.log = Top.log
  <2> DEFINE t == Top
  <2> HIDE DEF t
  <2>1. t \in StreamRecord
    BY <1>3 DEF t
  <2>2. /\ Seek(t, 0) \in StreamRecord /\ Seek(t, 0).data = t.data /\ Seek(t, 0).offset = 0
        /\ Seek(t, 0).log = t.log
    BY <2>1, SeekRest
  <2> QED
    BY <2>2 DEF t
<1> HIDE DEF s
<1>5. streams' = <<s>> /\ streams[1]' = s
  BY <1>1 DEF s
<1>6. PICK cut : Divides(cut, s.data, s.log)
  BY <1>2, <1>4 DEF Whole, Divided
<1>7. s.log \in Logs
  BY <1>4 DEF StreamRecord
<1>8. InStep(s, <<>>, cut)
  <2>1. Len(<<>>) = 0 /\ Len(s.log) \in Nat /\ 0 <= Len(s.log)
    BY <1>7 DEF Logs
  <2>2. cut[0] = 0
    BY <1>6 DEF Divides
  <2>3. \A i \in 1..0 : FALSE
    OBVIOUS
  <2> QED
    BY <1>4, <1>6, <2>1, <2>2, <2>3 DEF InStep
<1>9. seen' \in Seq({}) /\ InStep(streams[1]', seen', cut)
  BY <1>1, <1>5, <1>8
<1> QED
  BY <1>1, <1>4, <1>5, <1>9 DEF ReadingInv

-----------------------------------------------------------------------------
(* The invariant, and what follows from it.                                 *)

IInv ==
  /\ phase \in {"writing", "reading", "read", "overread"}
  /\ steps \in 0..MaxSteps
  /\ phase = "writing" => WritingInv /\ seen = <<>>
  /\ phase # "writing" => ReadingInv
  /\ phase = "overread" => \E i \in DOMAIN streams[1].log : ~Fits(streams[1].log[i])
  /\ phase = "read" => Top.offset >= Len(Top.data)

LEMMA InitIInv == Init => IInv
<1> SUFFICES ASSUME Init PROVE IInv
  OBVIOUS
<1> DEFINE s == Stream("main")
<1>1. /\ streams = <<s>> /\ copies = <<>> /\ ending = <<>> /\ steps = 0 /\ phase = "writing"
      /\ seen = <<>>
  BY DEF Init
<1>2. s \in StreamRecord /\ s.data = <<>> /\ s.offset = Len(s.data) /\ s.role = "main" /\ s.log = <<>>
  BY NewStream
<1> HIDE DEF s
<1>3. AtEnd(s) /\ Whole(s)
  BY <1>2, DividedEmpty DEF AtEnd, Whole
<1>4. <<s>> \in Seq(StreamRecord) /\ Len(<<s>>) = 1 /\ <<s>>[1] = s /\ <<s>> # <<>>
  BY <1>2
<1>5. Stack(<<s>>) /\ Last(<<s>>) = s
  <2>1. (\A i \in 1..1 : i = 1) /\ (\A i \in 1..(1 - 1) : FALSE) /\ (\A i \in 2..1 : FALSE)
    OBVIOUS
  <2> QED
    BY <1>3, <1>4, <2>1 DEF Stack, Last
<1>6. Balanced(<<s>>, <<>>, <<>>)
  BY <1>3, <1>5, WholeBalanced
<1>7. WritingInv
  BY <1>1, <1>6 DEF WritingInv
<1>8. steps \in 0..MaxSteps
  BY <1>1, StreamAssumption
<1> QED
  BY <1>1, <1>7, <1>8 DEF IInv

\* Only the writer changes what the reader does not look at.
WritingStep ==
  \/ \E c \in Commands : PushCommand(c)
  \/ \E role \in Blocks : OpenBlock(role)
  \/ CloseIf \/ CloseElse \/ CloseReturn
  \/ \E f \in Functions : CloseFunction(f)
  \/ CopyBlock \/ EndBlock

LEMMA WritingSteps ==
  ASSUME IInv, WritingStep
  PROVE  /\ phase = "writing" /\ phase' = "writing" /\ seen' = seen /\ WritingInv'
         /\ steps' \in 0..MaxSteps
<1>1. steps \in 0..MaxSteps /\ (phase = "writing" => WritingInv)
  BY DEF IInv
<1>2. phase = "writing" /\ phase' = "writing" /\ seen' = seen
  BY Zenon DEF WritingStep, PushCommand, OpenBlock, CloseIf, CloseElse, CloseReturn, CloseFunction,
    CopyBlock, EndBlock, Closing, CloseBlock, Writing
<1>3. steps' = steps \/ (steps < MaxSteps /\ steps' = steps + 1)
  BY Zenon DEF WritingStep, PushCommand, OpenBlock, CloseIf, CloseElse, CloseReturn, CloseFunction,
    CopyBlock, EndBlock, CloseBlock
<1>4. steps' \in 0..MaxSteps
  BY <1>1, <1>3, StreamAssumption
<1>5. WritingInv'
  BY <1>1, <1>2, PushStep, OpenStep, IfStep, ElseStep, ReturnStep, FunctionStep, CopyStep, EndStep,
    Zenon DEF WritingStep
<1> QED
  BY <1>2, <1>4, <1>5

\* As long as everything fits, the reader knows where it is.
LEMMA KnowsPlace ==
  ASSUME ReadingInv, \A i \in DOMAIN Top.log : Fits(Top.log[i])
  PROVE  \E cut : InStep(Top, seen, cut) /\ Trusted(seen, Top.log)
<1>1. PICK cut : InStep(Top, seen, cut)
  BY OnlyStream DEF ReadingInv
<1>2. Trusted(seen, Top.log)
  BY DEF Trusted
<1> QED
  BY <1>1, <1>2

LEMMA OverreadMisfit ==
  ASSUME ReadingInv, Overread
  PROVE  \E i \in DOMAIN Top.log : ~Fits(Top.log[i])
<1> SUFFICES ASSUME \A i \in DOMAIN Top.log : Fits(Top.log[i]) PROVE FALSE
  OBVIOUS
<1>1. PICK cut : InStep(Top, seen, cut) /\ Trusted(seen, Top.log)
  BY KnowsPlace
<1>2. Top.offset < Len(Top.data) /\ Decoded(Top.offset).end > Len(Top.data)
  BY DEF Overread, InCode
<1> DEFINE n == Len(seen)
           l == Len(Top.log)
<1>3. n < l /\ (Fits(Top.log[n + 1]) => Found(Top.offset, Top.log[n + 1], cut[n + 1]))
  BY <1>1, <1>2, NextFound
<1>4. n \in Nat /\ l \in Nat /\ DOMAIN Top.log = 1..l
  BY OnlyStream
<1> HIDE DEF n, l
<1>5. n + 1 \in 1..l
  BY <1>3, <1>4
<1>6. Found(Top.offset, Top.log[n + 1], cut[n + 1])
  BY <1>3, <1>4, <1>5
<1> DEFINE e == Decoded(Top.offset).end
           m == Len(Top.data)
<1>7. e <= m /\ e > m
  BY <1>2, <1>6 DEF Found
<1>8. Top.data \in Bytestrings
  BY OnlyStream
<1>9. m \in Nat /\ e \in Nat
  BY <1>8, OnlyStream, DecodedType, Lengths
<1> HIDE DEF e, m
<1> QED
  BY <1>7, <1>9

\* At the end of the stream all commands are found, when they all fit.
LEMMA EndFound ==
  ASSUME ReadingInv, Top.offset >= Len(Top.data), \A i \in DOMAIN Top.log : Fits(Top.log[i])
  PROVE  seen = Top.log
<1>1. PICK cut : InStep(Top, seen, cut) /\ Trusted(seen, Top.log)
  BY KnowsPlace
<1> DEFINE n == Len(seen)
           l == Len(Top.log)
           m == Len(Top.data)
           o == Top.offset
<1>2. /\ n <= l /\ o = cut[n] /\ cut[l] = m /\ cut \in [0..l -> Nat]
      /\ \A j, k \in 0..l : j <= k => cut[j] <= cut[k]
      /\ \A k \in 1..l : Piece(Top.data, cut[k - 1], cut[k], Top.log[k])
      /\ \A i \in 1..n : seen[i] = Top.log[i]
  BY <1>1 DEF InStep, Divides
<1>3. /\ n \in Nat /\ l \in Nat /\ m \in Nat /\ o \in Nat /\ o >= m
      /\ Top.log \in Seq(ItemRecord)
  <2>1. Top.data \in Bytestrings /\ Top.log \in Logs
    BY OnlyStream
  <2>2. m \in Nat
    BY <2>1, Lengths
  <2>3. n \in Nat /\ l \in Nat /\ o \in Nat
    BY OnlyStream
  <2> QED
    BY <2>1, <2>2, <2>3 DEF Logs
<1>4. PICK S : seen \in Seq(S)
  BY DEF ReadingInv
<1>5. n = l
  <2> SUFFICES ASSUME n # l PROVE FALSE
    OBVIOUS
  <2> HIDE DEF n, l, m, o
  <2>1. n + 1 \in 1..l /\ (n + 1) - 1 = n /\ n + 1 \in 0..l /\ n \in 0..l /\ l \in 0..l /\ n + 1 <= l
    BY <1>2, <1>3
  <2> DEFINE p == cut[n]
             q == cut[n + 1]
  <2>2. p \in Nat /\ q \in Nat /\ q <= m /\ p >= m
    <3>1. q <= cut[l]
      BY <1>2, <2>1
    <3> QED
      BY <1>2, <1>3, <2>1, <3>1
  <2>3. Piece(Top.data, p, q, Top.log[n + 1])
    BY <1>2, <2>1
  <2>4. PICK b \in Bytestrings : b # <<>> /\ q = p + Len(b)
    BY <2>3 DEF Piece, Spells
  <2>5. Len(b) \in Nat /\ Len(b) # 0
    BY <2>4, EmptySeq DEF Bytestrings
  <2> DEFINE r == Len(b)
  <2>6. q = p + r /\ r \in Nat /\ r # 0
    BY <2>4, <2>5
  <2> HIDE DEF p, q, r
  <2> QED
    BY <1>3, <2>2, <2>6
<1> DEFINE U == S \cup ItemRecord
           log == Top.log
<1>6. seen \in Seq(U) /\ log \in Seq(U)
  <2>1. S \subseteq U /\ ItemRecord \subseteq U
    OBVIOUS
  <2> HIDE DEF U
  <2> QED
    BY <1>3, <1>4, <2>1
<1>7. Len(seen) = Len(log) /\ \A i \in 1..Len(seen) : seen[i] = log[i]
  BY <1>2, <1>5
<1> HIDE DEF U, log, n, l
<1>8. seen = log
  BY ONLY <1>6, <1>7, SeqEqual
<1> QED
  BY <1>8 DEF log

LEMMA NextIInv == IInv /\ [Next]_vars => IInv'
<1> SUFFICES ASSUME IInv, [Next]_vars PROVE IInv'
  OBVIOUS
<1>1. /\ phase \in {"writing", "reading", "read", "overread"} /\ steps \in 0..MaxSteps
      /\ phase = "writing" => WritingInv /\ seen = <<>>
      /\ phase # "writing" => ReadingInv
  BY DEF IInv
<1>2. CASE WritingStep
  <2>1. /\ phase = "writing" /\ phase' = "writing" /\ seen' = seen /\ WritingInv'
        /\ steps' \in 0..MaxSteps
    BY <1>2, WritingSteps
  <2> QED
    BY <1>1, <2>1 DEF IInv
<1>3. CASE Rewind
  <2>1. phase = "writing" /\ phase' = "reading" /\ steps' = steps
    BY <1>3 DEF Rewind, Writing
  <2>2. ReadingInv'
    BY <1>1, <1>3, <2>1, RewindStep
  <2> QED
    BY <1>1, <2>1, <2>2 DEF IInv
<1>4. CASE ReadCommand
  <2>1. phase = "reading" /\ phase' = "reading" /\ steps' = steps
    BY <1>4 DEF ReadCommand, InCode
  <2>2. ReadingInv'
    BY <1>1, <1>4, <2>1, ReadStep
  <2> QED
    BY <1>1, <2>1, <2>2 DEF IInv
<1>5. CASE Overread
  <2>1. /\ phase = "reading" /\ phase' = "overread" /\ steps' = steps
        /\ streams' = streams /\ copies' = copies /\ ending' = ending /\ seen' = seen
    BY <1>5 DEF Overread, InCode
  <2>2. ReadingInv /\ ReadingInv'
    BY <1>1, <2>1 DEF ReadingInv
  <2>3. \E i \in DOMAIN streams[1].log : ~Fits(streams[1].log[i])
    BY <1>5, <2>2, OverreadMisfit, OnlyStream
  <2> QED
    BY <1>1, <2>1, <2>2, <2>3 DEF IInv
<1>6. CASE EndReading
  <2>1. /\ phase = "reading" /\ phase' = "read" /\ steps' = steps
        /\ streams' = streams /\ copies' = copies /\ ending' = ending /\ seen' = seen
        /\ Top.offset >= Len(Top.data)
    BY <1>6 DEF EndReading
  <2>2. ReadingInv'
    BY <1>1, <2>1 DEF ReadingInv
  <2>3. Top' = Top
    BY <2>1 DEF Top
  <2> QED
    BY <1>1, <2>1, <2>2, <2>3 DEF IInv
<1>7. CASE UNCHANGED vars
  <2>1. /\ streams' = streams /\ copies' = copies /\ ending' = ending /\ steps' = steps
        /\ phase' = phase /\ seen' = seen
    BY <1>7 DEF vars
  <2> QED
    BY <2>1, Zenon DEF IInv, WritingInv, ReadingInv, Top
<1> QED
  BY <1>2, <1>3, <1>4, <1>5, <1>6, <1>7, Zenon DEF Next, WritingStep

\* The invariant holds always.
LEMMA AlwaysIInv == Spec => []IInv
BY InitIInv, NextIInv, PTL DEF Spec

-----------------------------------------------------------------------------
(* The theorems.                                                            *)

LEMMA IInvTypeOK == IInv => TypeOK
<1> SUFFICES ASSUME IInv PROVE TypeOK
  OBVIOUS
<1>1. CASE phase = "writing"
  <2>1. Stack(streams) /\ CopiesOK(copies)
    BY <1>1 DEF IInv, WritingInv, Balanced
  <2>2. ASSUME NEW i \in DOMAIN streams
        PROVE  streams[i].data \in Seq(Byte256) /\ streams[i].offset = Len(streams[i].data)
    <3>1. AtEnd(streams[i])
      BY <2>1 DEF Stack
    <3> QED
      BY <3>1 DEF AtEnd, StreamRecord, Bytestrings
  <2>3. ASSUME NEW i \in DOMAIN copies
        PROVE  copies[i].offset \in 0..Len(copies[i].data)
    <3>1. copies[i] \in StreamRecord /\ copies[i].offset <= Len(copies[i].data)
      BY <2>1 DEF CopiesOK
    <3>2. copies[i].offset \in Nat /\ copies[i].data \in Bytestrings
      BY <3>1 DEF StreamRecord
    <3>3. Len(copies[i].data) \in Nat
      BY <3>2, Lengths
    <3> QED
      BY <3>1, <3>2, <3>3
  <2> QED
    BY <2>2, <2>3 DEF TypeOK, IInv
<1>2. CASE phase # "writing"
  <2>1. ReadingInv
    BY <1>2 DEF IInv
  <2>2. DOMAIN streams = {1} /\ streams[1].data \in Seq(Byte256)
    <3>1. Len(streams) = 1 /\ streams[1].data \in Seq(Byte256)
      BY <2>1, OnlyStream DEF Bytestrings
    <3> DEFINE s == streams[1]
    <3>2. streams = <<s>>
      BY <2>1 DEF ReadingInv
    <3> HIDE DEF s
    <3>3. DOMAIN <<s>> = {1}
      OBVIOUS
    <3> QED
      BY <3>1, <3>2, <3>3 DEF s
  <2>3. copies = <<>>
    BY <2>1 DEF ReadingInv
  <2> QED
    BY <1>2, <2>2, <2>3 DEF TypeOK, IInv
<1> QED
  BY <1>1, <1>2

\* Every variable keeps its type, a stream is copied no further than its end,
\* and while compile writes every stream is at its end (insert and append are
\* the same, statements_class.hpp).
THEOREM TypeCorrect == Spec => []TypeOK
BY AlwaysIInv, IInvTypeOK, PTL

\* When every command that was written fits its fields, runcode reads all of
\* them, one by one and in their order, and ends exactly at the end of the
\* stream: sizes of blocks and bodies are those of the code that is copied
\* behind them (copy_stream_buffer, compiler.cpp).
THEOREM EverythingRead == Spec => []AllRead
<1>1. IInv => AllRead
  <2> SUFFICES ASSUME IInv, phase = "read", \A i \in DOMAIN streams[1].log : Fits(streams[1].log[i])
      PROVE  seen = streams[1].log
    BY DEF AllRead
  <2>1. ReadingInv /\ Top.offset >= Len(Top.data)
    BY DEF IInv
  <2> QED
    BY <2>1, OnlyStream, EndFound
<1> QED
  BY <1>1, AlwaysIInv, PTL

\* The reader passes the end of the stream, where nothing stops it, only when
\* something that was written did not fit its field.
THEOREM OverreadOnlyBehindMisfits == Spec => []OverreadsOnlyMisfits
<1>1. IInv => OverreadsOnlyMisfits
  BY DEF IInv, OverreadsOnlyMisfits
<1> QED
  BY <1>1, AlwaysIInv, PTL

-----------------------------------------------------------------------------
(* The stream implements the log.                                           *)

LEMMA LogInit == Init => Log!Init
<1> SUFFICES ASSUME Init PROVE Log!Init
  OBVIOUS
<1>1. streams[1].log = <<>> /\ seen = <<>> /\ (phase # "writing") = FALSE
  BY NewStream DEF Init
<1> QED
  BY <1>1, Zenon DEF Log!Init

LEMMA LogNext == IInv /\ [Next]_vars => [Log!Next]_Log!vars
<1> SUFFICES ASSUME IInv, [Next]_vars PROVE [Log!Next]_Log!vars
  OBVIOUS
<1>1. CASE WritingStep
  <2>1. phase = "writing" /\ phase' = "writing" /\ seen' = seen
    BY <1>1, WritingSteps
  <2> QED
    BY <2>1, Zenon DEF Log!Next, Log!Write
<1>2. CASE Rewind
  <2>1. phase = "writing" /\ phase' = "reading" /\ seen' = seen
    BY <1>2 DEF Rewind, Writing
  <2>2. streams[1].log' = streams[1].log
    <3>1. Len(streams) = 1 /\ streams' = <<Seek(Top, 0)>> /\ Writing
      BY <1>2 DEF Rewind
    <3>2. Whole(Top) /\ Top = streams[1]
      BY <2>1, <3>1, WritingWhole DEF IInv, Top
    <3>3. Top \in StreamRecord
      BY <3>2 DEF Whole, AtEnd
    <3>4. Seek(Top, 0).log = Top.log
      <4> DEFINE t == Top
      <4> HIDE DEF t
      <4>1. t \in StreamRecord
        BY <3>3 DEF t
      <4>2. Seek(t, 0).log = t.log
        BY <4>1, SeekRest
      <4> QED
        BY <4>2 DEF t
    <3> QED
      BY <3>1, <3>2, <3>4
  <2> QED
    BY <2>1, <2>2 DEF Log!Next, Log!Close
<1>3. CASE ReadCommand
  <2>1. phase = "reading" /\ phase' = "reading" /\ ReadingInv
    BY <1>3 DEF ReadCommand, InCode, IInv
  <2> DEFINE x == Decoded(Top.offset).item
             n == Len(seen)
             log == Top.log
  <2>2. seen' = Append(seen, x) /\ Top.offset < Len(Top.data)
    BY <1>3 DEF ReadCommand, InCode
  <2>3. Top = streams[1]
    BY <2>1, OnlyStream
  <2>4. streams[1].log' = streams[1].log
    <3>1. streams' = [streams EXCEPT ![1] = Seek(Top, Decoded(Top.offset).next)]
      BY <1>3, <2>1, OnlyStream, TopIsLast DEF ReadCommand
    <3> DEFINE t == Top
               o == Decoded(Top.offset).next
    <3>2. t \in StreamRecord /\ streams = <<t>> /\ streams' = [streams EXCEPT ![1] = Seek(t, o)]
      BY <2>1, <2>3, <3>1, OnlyStream DEF ReadingInv
    <3> HIDE DEF t, o
    <3>3. Seek(t, o).log = t.log
      BY <3>2 DEF Seek, StreamRecord
    <3> QED
      BY <3>2, <3>3
  <2>5. ASSUME \A i \in 1..(n + 1) : i \in DOMAIN log => Fits(log[i])
        PROVE  n < Len(log) /\ x = log[n + 1]
    <3>1. n \in Nat /\ Len(log) \in Nat /\ DOMAIN log = 1..Len(log)
      BY <2>1, OnlyStream
    <3>2. Trusted(seen, log)
      <4>1. \A i \in 1..n : i \in 1..(n + 1)
        BY <3>1
      <4> QED
        BY <2>5, <4>1 DEF Trusted
    <3>3. PICK cut : InStep(Top, seen, cut)
      BY <2>1, <2>3 DEF ReadingInv
    <3>4. n < Len(log) /\ (Fits(log[n + 1]) => Found(Top.offset, log[n + 1], cut[n + 1]))
      BY <2>1, <2>2, <3>2, <3>3, NextFound
    <3>5. n + 1 \in DOMAIN log /\ n + 1 \in 1..(n + 1)
      <4> DEFINE l == Len(log)
      <4>1. n \in Nat /\ l \in Nat /\ n < l /\ DOMAIN log = 1..l
        BY <3>1, <3>4
      <4> HIDE DEF n, l, log
      <4>2. n + 1 \in 1..l /\ n + 1 \in 1..(n + 1)
        BY <4>1
      <4> QED
        BY <4>1, <4>2
    <3> QED
      BY <2>5, <3>4, <3>5 DEF Found
  <2>6. Log!Promised => Len(seen) < Len(streams[1].log)
                        /\ seen' = Append(seen, streams[1].log[Len(seen) + 1])
    BY <2>2, <2>3, <2>5 DEF Log!Promised
  <2> QED
    BY <2>1, <2>4, <2>6 DEF Log!Next, Log!Read
<1>4. CASE Overread \/ EndReading
  <2>1. streams' = streams /\ seen' = seen /\ (phase # "writing") = (phase' # "writing")
    BY <1>4 DEF Overread, EndReading, InCode
  <2> QED
    BY <2>1 DEF Log!vars
<1>5. CASE UNCHANGED vars
  BY <1>5 DEF vars, Log!vars
<1> QED
  BY <1>1, <1>2, <1>3, <1>4, <1>5, Zenon DEF Next, WritingStep

\* The stream implements KanLog: whatever is written, in how many pieces it is
\* copied and whichever bytes a reader takes for commands, the log comes back
\* from its beginning up to the first command that does not fit.
THEOREM Implements == Spec => ImplementsLog
<1>1. Init => Log!Init
  BY LogInit
<1>2. IInv /\ [Next]_vars => [Log!Next]_Log!vars
  BY LogNext
<1> QED
  BY <1>1, <1>2, AlwaysIInv, PTL DEF Spec, ImplementsLog, Log!Spec

=============================================================================
