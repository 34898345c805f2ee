--------------------------- MODULE KanExprProofs ---------------------------
(***************************************************************************)
(* Proofs about KanExpr, for every set of objects, every set of            *)
(* expressions and every width of a position: the types of its variables,  *)
(* that no operation is compiled at a place its objects do not have, and   *)
(* that no operand is compiled twice.                                      *)
(***************************************************************************)
EXTENDS KanExpr, KanInduction, SequenceTheorems

-----------------------------------------------------------------------------
(* get_operation.                                                           *)

OperationTypes == {"BRACKETS", "UNARY_OP", "BINARY_OP", "CALL", "DONE", "ERROR"}

\* How many objects an operation of a type looks at.
Width(type) ==
  CASE type = "BINARY_OP" -> 3
    [] type \in {"UNARY_OP", "CALL"} -> 2
    [] type \in {"BRACKETS", "DONE"} -> 1
    [] OTHER -> 0

\* An operation as it is offered for the list l.
Offer(l, c) ==
  /\ c.priority \in 1..VTop
  /\ c.type \in OperationTypes \ {"DONE", "ERROR"}
  /\ c.when \in Nat
  /\ c.pos \in 0..(Positions - 1)
  /\ c.pos + Width(c.type) <= Len(l)

\* The position that is kept is not behind the position that was found.
LEMMA Wrapped ==
  ASSUME NEW p \in Nat, NEW d \in Nat \ {0}
  PROVE  p % d \in 0..(d - 1) /\ p % d <= p
<1>1. p % d \in 0..(d - 1)
  OBVIOUS
<1>2. CASE p < d
  BY <1>2
<1>3. CASE p >= d
  BY <1>1, <1>3
<1> QED
  BY <1>1, <1>2, <1>3

LEMMA CandidateOffered ==
  ASSUME NEW l \in Lists, NEW priority \in 1..VTop, NEW p \in Nat, NEW when \in Nat,
         NEW type \in OperationTypes \ {"DONE", "ERROR"},
         p + Width(type) <= Len(l), Positions \in Nat \ {0}
  PROVE  Offer(l, Candidate(priority, p, type, when))
<1>1. p % Positions \in 0..(Positions - 1) /\ p % Positions <= p
  BY Wrapped
<1>2. Width(type) \in Nat
  BY DEF Width
<1>3. Len(l) \in Nat
  BY LenProperties DEF Lists
<1>4. (p % Positions) + Width(type) <= Len(l)
  BY <1>1, <1>2, <1>3
<1> QED
  BY <1>1, <1>4 DEF Offer, Candidate

LEMMA PriorityType == \A x : Priority(x) \in 1..5
BY DEF Priority

LEMMA Offered ==
  ASSUME NEW l \in Lists, NEW o \in 0..(Len(l) - 1), NEW c \in OffersAt(l, o)
  PROVE  Offer(l, c)
<1>1. Len(l) \in Nat /\ o \in Nat /\ 4 * o \in Nat /\ 4 * o + 1 \in Nat /\ 4 * o + 3 \in Nat
  BY LenProperties DEF Lists
<1>2. Positions \in Nat \ {0}
  BY ObjectsAssumption
<1>3. \A x : Priority(x) \in 1..VTop
  BY PriorityType DEF VTop
<1>4. CASE LooksAtOperator(l, o)
  <2>1. o + 1 < Len(l)
    BY <1>4 DEF LooksAtOperator
  <2>2. \/ c = Candidate(Priority(Obj(l, o)), o, "UNARY_OP", 4 * o)
        \/ c = Candidate(Priority(Obj(l, o + 1)), o + 1, "BRACKETS", 4 * o + 1)
    <3>1. ~LooksAtCall(l, o) /\ ~LooksAtThree(l, o)
      BY <1>4 DEF LooksAtOperator, LooksAtCall, LooksAtThree
    <3>2. OffersAt(l, o) =
            {Candidate(Priority(Obj(l, o)), o, "UNARY_OP", 4 * o),
             Candidate(Priority(Obj(l, o + 1)), o + 1, "BRACKETS", 4 * o + 1)}
      BY <1>4, <3>1, Zenon DEF OffersAt
    <3> QED
      BY <3>2
  <2>3. o + Width("UNARY_OP") <= Len(l) /\ (o + 1) + Width("BRACKETS") <= Len(l)
    BY <1>1, <2>1 DEF Width
  <2> QED
    BY <1>1, <1>2, <1>3, <2>2, <2>3, CandidateOffered DEF OperationTypes
<1>5. CASE LooksAtCall(l, o)
  <2>1. o + 1 < Len(l) /\ ~LooksAtOperator(l, o) /\ ~LooksAtThree(l, o)
    BY <1>5 DEF LooksAtCall, LooksAtOperator, LooksAtThree
  <2>2. c = Candidate(Priority(Obj(l, o + 1)), o, "CALL", 4 * o)
    <3>1. OffersAt(l, o) = {Candidate(Priority(Obj(l, o + 1)), o, "CALL", 4 * o)}
      BY <1>5, <2>1, Zenon DEF OffersAt
    <3> QED
      BY <3>1
  <2>3. o + Width("CALL") <= Len(l)
    BY <1>1, <2>1 DEF Width
  <2> QED
    BY <1>1, <1>2, <1>3, <2>2, <2>3, CandidateOffered DEF OperationTypes
<1>6. CASE LooksAtThree(l, o)
  <2>1. o + 2 < Len(l) /\ ~LooksAtOperator(l, o) /\ ~LooksAtCall(l, o)
    BY <1>6 DEF LooksAtCall, LooksAtOperator, LooksAtThree
  <2> DEFINE Rank(p) == IF p = o + 2 THEN Priority(Obj(l, o + 2))
                        ELSE IF Obj(l, o + 1).type = "DOT" THEN VTop
                        ELSE Priority(Obj(l, o))
  <2>2. \/ c = Candidate(Priority(Obj(l, o + 1)), o, "BINARY_OP", 4 * o + 3)
        \/ \E p \in {o, o + 2} : c = Candidate(Rank(p), p, "BRACKETS", 3 * o + p)
    <3>1. OffersAt(l, o) =
            {Candidate(Priority(Obj(l, o + 1)), o, "BINARY_OP", 4 * o + 3)}
              \cup {Candidate(Rank(p), p, "BRACKETS", 3 * o + p) :
                      p \in {q \in {o, o + 2} : IsTree(Obj(l, q))}}
      BY <1>6, <2>1, Zenon DEF OffersAt
    <3> HIDE DEF Rank
    <3> QED
      BY <3>1
  <2>3. o + Width("BINARY_OP") <= Len(l)
    BY <1>1, <2>1 DEF Width
  <2>4. \A p \in {o, o + 2} : p \in Nat /\ 3 * o + p \in Nat /\ p + Width("BRACKETS") <= Len(l)
    <3>1. Width("BRACKETS") = 1
      BY DEF Width
    <3>2. ASSUME NEW p, p = o \/ p = o + 2
          PROVE  p \in Nat /\ 3 * o + p \in Nat /\ p + 1 <= Len(l)
      BY ONLY <1>1, <2>1, <3>2
    <3> QED
      BY <3>1, <3>2, Zenon
  <2>5. \A p : Rank(p) \in 1..VTop
    BY <1>3 DEF VTop
  <2> HIDE DEF Rank
  <2>6. CASE c = Candidate(Priority(Obj(l, o + 1)), o, "BINARY_OP", 4 * o + 3)
    BY <1>1, <1>2, <1>3, <2>3, <2>6, CandidateOffered DEF OperationTypes
  <2>7. ASSUME NEW p \in {o, o + 2}, c = Candidate(Rank(p), p, "BRACKETS", 3 * o + p)
        PROVE  Offer(l, c)
    BY <1>2, <2>4, <2>5, <2>7, CandidateOffered DEF OperationTypes
  <2> QED
    BY <2>2, <2>6, <2>7
<1>7. CASE ~LooksAtOperator(l, o) /\ ~LooksAtCall(l, o) /\ ~LooksAtThree(l, o)
  BY <1>7 DEF OffersAt
<1> QED
  BY <1>4, <1>5, <1>6, <1>7

\* Among offers there is a first one of the highest priority.
LEMMA BestOffer ==
  ASSUME NEW l, NEW S, S # {}, \A c \in S : Offer(l, c)
  PROVE  \E c \in S : \A d \in S :
           \/ c.priority > d.priority
           \/ c.priority = d.priority /\ c.when <= d.when
<1> DEFINE P == {c.priority : c \in S}
<1>1. P \subseteq Nat /\ P # {} /\ \A p \in P : p <= VTop
  BY DEF Offer, VTop
<1>2. PICK p \in P : \A q \in P : q <= p
  BY <1>1, GreatestElement DEF VTop
<1> DEFINE W == {c.when : c \in {d \in S : d.priority = p}}
<1>3. W \subseteq Nat /\ W # {}
  BY <1>2 DEF Offer
<1>4. PICK w \in W : \A v \in W : w <= v
  BY <1>3, LeastElement
<1>5. PICK c \in S : c.priority = p /\ c.when = w
  BY <1>4
<1>6. ASSUME NEW d \in S
      PROVE  \/ c.priority > d.priority
             \/ c.priority = d.priority /\ c.when <= d.when
  <2>1. d.priority \in Nat /\ d.priority <= p /\ p \in Nat
    BY <1>1, <1>2
  <2>2. d.priority = p => w <= d.when
    BY <1>4
  <2> QED
    BY <1>5, <2>1, <2>2
<1> QED
  BY <1>6

\* The operation that is chosen has all its objects in the list.
LEMMA OperationFits ==
  ASSUME NEW l \in Lists, l # <<>>
  PROVE  /\ Operation(l).type \in OperationTypes
         /\ Operation(l).pos \in 0..(Positions - 1)
         /\ Operation(l).pos + Width(Operation(l).type) <= Len(l)
         /\ Operation(l).type = "DONE" => Len(l) = 1 /\ Operation(l).pos = 0
<1>1. Positions \in Nat \ {0} /\ Len(l) \in Nat /\ Len(l) > 0
  BY ObjectsAssumption, LenProperties, EmptySeq DEF Lists
<1>2. CASE Len(l) = 1
  <2>1. Operation(l) = Candidate(0, 0, "DONE", 0)
    BY <1>2 DEF Operation
  <2>2. 0 % Positions = 0
    BY <1>1, Wrapped
  <2> QED
    BY <1>1, <1>2, <2>1, <2>2 DEF Candidate, OperationTypes, Width
<1>3. CASE Len(l) # 1 /\ Malformed(l)
  <2>1. Operation(l) = Candidate(0, 0, "ERROR", 0)
    BY <1>3 DEF Operation
  <2>2. 0 % Positions = 0
    BY <1>1, Wrapped
  <2> QED
    BY <1>1, <2>1, <2>2 DEF Candidate, OperationTypes, Width
<1>4. CASE Len(l) # 1 /\ ~Malformed(l)
  <2>1. Offers(l) # {}
    BY <1>4 DEF Malformed
  <2>2. \A c \in Offers(l) : Offer(l, c)
    BY Offered DEF Offers, Visited
  <2>3. Operation(l) = CHOOSE c \in Offers(l) : \A d \in Offers(l) :
                         \/ c.priority > d.priority
                         \/ c.priority = d.priority /\ c.when <= d.when
    BY <1>4 DEF Operation
  <2>4. Operation(l) \in Offers(l)
    BY <2>1, <2>2, <2>3, BestOffer
  <2> QED
    BY <2>2, <2>4 DEF Offer
<1> QED
  BY <1>2, <1>3, <1>4

-----------------------------------------------------------------------------
(* Lists.                                                                   *)

LEMMA TreeObjects ==
  ASSUME NEW x \in Objects, IsTree(x)
  PROVE  x.objects \in Lists
BY ObjectsAssumption DEF Lists

\* The objects behind the replaced ones move up, those before them stay.
LEMMA Replacing ==
  ASSUME NEW l \in Lists, NEW pos \in Nat, NEW count \in Nat \ {0},
         pos + count <= Len(l)
  PROVE  /\ ReplaceWithEmpty(l, pos, count) \in Lists
         /\ Len(ReplaceWithEmpty(l, pos, count)) = Len(l) - count + 1
         /\ \A i \in 1..(Len(l) - count + 1) :
              ReplaceWithEmpty(l, pos, count)[i] =
                IF i <= pos THEN l[i]
                ELSE IF i = pos + 1 THEN EmptyToken ELSE l[i + count - 1]
<1> DEFINE before == SubSeq(l, 1, pos)
           behind == SubSeq(l, pos + count + 1, Len(l))
<1>0. l \in Seq(Objects) /\ Len(l) \in Nat /\ \A i \in 1..Len(l) : l[i] \in Objects
  BY LenProperties, ElementOfSeq DEF Lists
<1>1. /\ before \in Seq(Objects) /\ Len(before) = pos
      /\ \A i \in 1..pos : before[i] = l[i]
  BY <1>0, SubSeqProperties
<1>2. /\ behind \in Seq(Objects) /\ Len(behind) = Len(l) - pos - count
      /\ \A i \in 1..(Len(l) - pos - count) : behind[i] = l[pos + count + i]
  <2>1. \A i \in (pos + count + 1)..Len(l) : l[i] \in Objects
    BY <1>0
  <2>2. /\ behind \in Seq(Objects)
        /\ Len(behind) = IF pos + count + 1 <= Len(l) THEN Len(l) - (pos + count + 1) + 1 ELSE 0
        /\ \A i \in 1..(Len(l) - (pos + count + 1) + 1) : behind[i] = l[(pos + count + 1) + i - 1]
    BY <1>0, <2>1, SubSeqProperties
  <2> HIDE DEF behind
  <2>3. Len(behind) = Len(l) - pos - count
    BY <1>0, <2>2
  <2>4. \A i \in 1..(Len(l) - pos - count) : behind[i] = l[pos + count + i]
    <3> SUFFICES ASSUME NEW i \in 1..(Len(l) - pos - count)
                 PROVE  behind[i] = l[pos + count + i]
      OBVIOUS
    <3>1. i \in 1..(Len(l) - (pos + count + 1) + 1) /\ (pos + count + 1) + i - 1 = pos + count + i
      BY <1>0
    <3> QED
      BY <2>2, <3>1
  <2> QED
    BY <2>2, <2>3, <2>4
<1> HIDE DEF before, behind
<1>3. EmptyToken \in Objects
  BY ObjectsAssumption
<1> DEFINE front == before \o <<EmptyToken>>
<1>4. /\ front \in Seq(Objects) /\ Len(front) = pos + 1
      /\ \A i \in 1..(pos + 1) : front[i] = IF i <= pos THEN before[i] ELSE EmptyToken
  <2>1. <<EmptyToken>> \in Seq(Objects) /\ Len(<<EmptyToken>>) = 1 /\ <<EmptyToken>>[1] = EmptyToken
    BY <1>3
  <2>2. /\ front \in Seq(Objects) /\ Len(front) = Len(before) + 1
        /\ \A i \in 1..(Len(before) + 1) :
             front[i] = IF i <= Len(before) THEN before[i] ELSE <<EmptyToken>>[i - Len(before)]
    BY <1>1, <2>1, ConcatProperties
  <2> HIDE DEF front
  <2> QED
    BY <1>1, <2>1, <2>2
<1> HIDE DEF front
<1>5. ReplaceWithEmpty(l, pos, count) = front \o behind
  BY DEF ReplaceWithEmpty, front, before, behind
<1>6. /\ front \o behind \in Seq(Objects)
      /\ Len(front \o behind) = Len(front) + Len(behind)
      /\ \A i \in 1..(Len(front) + Len(behind)) :
           (front \o behind)[i] = IF i <= Len(front) THEN front[i] ELSE behind[i - Len(front)]
  BY <1>2, <1>4, ConcatProperties
<1> DEFINE new == front \o behind
<1> HIDE DEF new
<1>7. /\ new \in Seq(Objects) /\ Len(new) = Len(l) - count + 1
      /\ \A i \in 1..(Len(l) - count + 1) :
           new[i] = IF i <= pos + 1 THEN front[i] ELSE behind[i - (pos + 1)]
  BY <1>0, <1>2, <1>4, <1>6 DEF new
<1>8. ASSUME NEW i \in 1..(Len(l) - count + 1), i > pos + 1
      PROVE  behind[i - (pos + 1)] = l[i + count - 1]
  <2>1. i - (pos + 1) \in 1..(Len(l) - pos - count) /\ pos + count + (i - (pos + 1)) = i + count - 1
    BY <1>0, <1>8
  <2> QED
    BY <1>2, <2>1
<1>9. ASSUME NEW i \in 1..(Len(l) - count + 1)
      PROVE  new[i] = IF i <= pos THEN l[i]
                      ELSE IF i = pos + 1 THEN EmptyToken ELSE l[i + count - 1]
  <2>1. CASE i <= pos
    <3>1. i \in 1..pos /\ i \in 1..(pos + 1) /\ i <= pos + 1
      BY <2>1
    <3>2. new[i] = front[i]
      BY <1>7, <3>1
    <3>3. front[i] = l[i]
      BY <1>1, <1>4, <2>1, <3>1
    <3> QED
      BY <2>1, <3>2, <3>3
  <2>2. CASE i = pos + 1
    BY <1>4, <1>7, <2>2
  <2>3. CASE i > pos + 1
    BY <1>7, <1>8, <2>3
  <2> QED
    BY <2>1, <2>2, <2>3
<1> QED
  BY <1>5, <1>7, <1>9 DEF new, Lists

\* How many commas there are up to a place.
CommasUpTo(l, p) == Cardinality({q \in Commas(l) : q <= p})

LEMMA CommasFinite ==
  ASSUME NEW l \in Lists
  PROVE  /\ IsFiniteSet(Commas(l)) /\ Cardinality(Commas(l)) \in Nat
         /\ \A p \in Nat : /\ IsFiniteSet({q \in Commas(l) : q <= p})
                          /\ CommasUpTo(l, p) \in Nat
<1>1. Len(l) \in Nat
  BY LenProperties DEF Lists
<1>2. Commas(l) \subseteq 1..Len(l) /\ IsFiniteSet(1..Len(l))
  BY <1>1, FS_Interval DEF Commas
<1>3. IsFiniteSet(Commas(l)) /\ Cardinality(Commas(l)) \in Nat
  BY <1>2, FS_Subset, FS_CardinalityType
<1>4. ASSUME NEW p \in Nat
      PROVE  IsFiniteSet({q \in Commas(l) : q <= p}) /\ CommasUpTo(l, p) \in Nat
  <2>1. {q \in Commas(l) : q <= p} \in SUBSET Commas(l)
    OBVIOUS
  <2> QED
    BY <1>3, <2>1, FS_Subset, FS_CardinalityType DEF CommasUpTo
<1> QED
  BY <1>3, <1>4

\* The i-th comma is a comma, and the i-th.
LEMMA CommaFound ==
  ASSUME NEW l \in Lists, NEW i \in 1..Cardinality(Commas(l))
  PROVE  Comma(l, i) \in Commas(l) /\ CommasUpTo(l, Comma(l, i)) = i
<1>1. Len(l) \in Nat /\ Cardinality(Commas(l)) \in Nat /\ i \in Nat \ {0}
  BY LenProperties, CommasFinite DEF Lists
<1>0. \A p \in Nat : CommasUpTo(l, p) \in Nat
  BY CommasFinite
<1>a. CommasUpTo(l, Len(l)) = Cardinality(Commas(l))
  <2>1. {q \in Commas(l) : q <= Len(l)} = Commas(l)
    BY <1>1 DEF Commas
  <2> QED
    BY <2>1, Zenon DEF CommasUpTo
<1>b. CommasUpTo(l, 0) = 0
  <2>1. {q \in Commas(l) : q <= 0} = {}
    BY DEF Commas
  <2> QED
    BY <2>1, FS_EmptySet, Zenon DEF CommasUpTo
<1> DEFINE P == {p \in 0..Len(l) : CommasUpTo(l, p) >= i}
<1>2. P \subseteq Nat /\ P # {}
  <2>1. Len(l) \in P
    BY <1>1, <1>a
  <2> QED
    BY <2>1
<1>3. PICK p \in P : \A q \in P : p <= q
  BY <1>2, LeastElement
<1>4. p # 0 /\ p \in 0..Len(l) /\ CommasUpTo(l, p) >= i
  BY <1>1, <1>3, <1>b
<1>5. p \in Nat \ {0} /\ p - 1 \in Nat /\ p \in 1..Len(l) /\ p - 1 \in 0..Len(l)
  BY <1>1, <1>4
<1>6. /\ CommasUpTo(l, p - 1) \in Nat /\ CommasUpTo(l, p) \in Nat
      /\ CommasUpTo(l, p - 1) < i
  <2>1. CommasUpTo(l, p - 1) \in Nat /\ CommasUpTo(l, p) \in Nat
    BY <1>0, <1>5
  <2>2. p - 1 \notin P
    BY <1>3, <1>5
  <2>3. ~(CommasUpTo(l, p - 1) >= i)
    BY <1>5, <2>2
  <2> QED
    BY <1>1, <2>1, <2>3
<1> HIDE DEF P
<1>7. CASE p \notin Commas(l)
  <2>1. {q \in Commas(l) : q <= p} = {q \in Commas(l) : q <= p - 1}
    BY <1>5, <1>7 DEF Commas
  <2>2. CommasUpTo(l, p) = CommasUpTo(l, p - 1)
    BY <2>1, Zenon DEF CommasUpTo
  <2> QED
    BY <1>1, <1>4, <1>6, <2>2
<1>8. CASE p \in Commas(l)
  <2> DEFINE S == {q \in Commas(l) : q <= p - 1}
  <2>1. {q \in Commas(l) : q <= p} = S \cup {p}
    BY <1>5, <1>8 DEF Commas
  <2>2. IsFiniteSet(S) /\ Cardinality(S) = CommasUpTo(l, p - 1)
    BY <1>5, CommasFinite, Zenon DEF CommasUpTo
  <2>3. CommasUpTo(l, p) = Cardinality(S \cup {p})
    BY <2>1, Zenon DEF CommasUpTo
  <2> HIDE DEF S
  <2>4. Cardinality(S \cup {p}) = IF p \in S THEN Cardinality(S) ELSE Cardinality(S) + 1
    BY <2>2, FS_AddElement
  <2>5. CommasUpTo(l, p) = i
    BY <1>1, <1>4, <1>6, <2>2, <2>3, <2>4
  <2>6. Comma(l, i) = CHOOSE q \in Commas(l) : CommasUpTo(l, q) = i
    <3>1. ~(i = 0) /\ ~(i > Cardinality(Commas(l)))
      BY <1>1
    <3> QED
      BY <3>1, Zenon DEF Comma, CommasUpTo
  <2> QED
    BY <1>8, <2>5, <2>6, Zenon
<1> QED
  BY <1>7, <1>8

\* The commas, and the ends of the list, in their order.
LEMMA CommaOrder ==
  ASSUME NEW l \in Lists
  PROVE  /\ \A i \in 0..(Cardinality(Commas(l)) + 1) : Comma(l, i) \in 0..(Len(l) + 1)
         /\ \A i, j \in 0..(Cardinality(Commas(l)) + 1) :
              i < j => Comma(l, i) < Comma(l, j)
<1>1. Len(l) \in Nat /\ Cardinality(Commas(l)) \in Nat
  BY LenProperties, CommasFinite DEF Lists
<1> DEFINE n == Cardinality(Commas(l))
<1>2. Comma(l, 0) = 0 /\ Comma(l, n + 1) = Len(l) + 1
  BY <1>1 DEF Comma
<1>3. \A i \in 1..n : Comma(l, i) \in 1..Len(l) /\ CommasUpTo(l, Comma(l, i)) = i
  BY CommaFound DEF Commas
<1>4. ASSUME NEW i \in 1..n, NEW j \in 1..n, i < j
      PROVE  Comma(l, i) < Comma(l, j)
  <2>1. SUFFICES ASSUME Comma(l, j) <= Comma(l, i) PROVE FALSE
    BY <1>1, <1>3
  <2>2. Comma(l, i) \in Nat /\ Comma(l, j) \in Nat
    BY <1>3
  <2> DEFINE S == {q \in Commas(l) : q <= Comma(l, j)}
             T == {q \in Commas(l) : q <= Comma(l, i)}
  <2>3. S \in SUBSET T
    BY <2>1, <2>2, <1>1 DEF Commas
  <2>4. IsFiniteSet(T)
    BY <2>2, CommasFinite
  <2>5. Cardinality(S) <= Cardinality(T)
    BY <2>3, <2>4, FS_Subset
  <2>6. j <= i
    BY <1>3, <2>5 DEF CommasUpTo
  <2> QED
    BY <1>4, <2>6
<1> HIDE DEF n
<1>5. n \in Nat
  BY <1>1 DEF n
<1>6. \A i \in 0..(n + 1) : i = 0 \/ i = n + 1 \/ i \in 1..n
  BY <1>5
<1>7. \A i \in 0..(n + 1) : Comma(l, i) \in 0..(Len(l) + 1)
  BY <1>1, <1>2, <1>3, <1>6
<1>8. ASSUME NEW i \in 0..(n + 1), NEW j \in 0..(n + 1), i < j
      PROVE  Comma(l, i) < Comma(l, j)
  <2>1. CASE i \in 1..n /\ j \in 1..n
    BY <1>4, <1>8, <2>1
  <2>2. CASE i = 0
    <3>1. j = n + 1 \/ j \in 1..n
      BY <1>6, <1>8, <2>2
    <3> QED
      BY <1>1, <1>2, <1>3, <2>2, <3>1
  <2>3. CASE j = n + 1
    <3>1. i = 0 \/ i \in 1..n
      BY <1>5, <1>6, <1>8, <2>3
    <3> QED
      BY <1>1, <1>2, <1>3, <2>3, <3>1
  <2> QED
    BY <1>5, <1>6, <1>8, <2>1, <2>2, <2>3
<1> QED
  BY <1>7, <1>8 DEF n

\* The arguments of a call: their objects are objects of the list, each at a
\* place of its own.
LEMMA Pieces ==
  ASSUME NEW l \in Lists
  PROVE  /\ SplitByComma(l) \in Seq(Lists)
         /\ \A r \in 1..Len(SplitByComma(l)) : \A i \in 1..Len(SplitByComma(l)[r]) :
              /\ Comma(l, r - 1) + i \in 1..Len(l)
              /\ Comma(l, r - 1) + i < Comma(l, r)
              /\ SplitByComma(l)[r][i] = l[Comma(l, r - 1) + i]
<1> DEFINE n == Cardinality(Commas(l)) + 1
           Piece(i) == SubSeq(l, Comma(l, i - 1) + 1, Comma(l, i) - 1)
           m == IF Piece(n) = <<>> THEN n - 1 ELSE n
<1>1. /\ Len(l) \in Nat /\ Cardinality(Commas(l)) \in Nat
      /\ \A i \in 1..Len(l) : l[i] \in Objects
  BY LenProperties, ElementOfSeq, CommasFinite DEF Lists
<1>2. n \in Nat /\ m \in Nat /\ m <= n
  BY <1>1
<1>3. SplitByComma(l) = [i \in 1..m |-> Piece(i)]
  BY DEF SplitByComma
<1>4. ASSUME NEW r \in 1..n
      PROVE  /\ Piece(r) \in Lists
             /\ \A i \in 1..Len(Piece(r)) :
                  /\ Comma(l, r - 1) + i \in 1..Len(l)
                  /\ Comma(l, r - 1) + i < Comma(l, r)
                  /\ Piece(r)[i] = l[Comma(l, r - 1) + i]
  <2> DEFINE a == Comma(l, r - 1) + 1
             b == Comma(l, r) - 1
  <2>1. /\ Comma(l, r - 1) \in 0..(Len(l) + 1) /\ Comma(l, r) \in 0..(Len(l) + 1)
        /\ Comma(l, r - 1) < Comma(l, r)
    <3>1. r \in 0..(Cardinality(Commas(l)) + 1) /\ r - 1 \in 0..(Cardinality(Commas(l)) + 1)
          /\ r - 1 < r
      BY <1>1
    <3> QED
      BY <3>1, CommaOrder
  <2>2. a \in Int /\ b \in Int /\ a >= 1 /\ b <= Len(l)
    BY <1>1, <2>1
  <2>3. \A i \in a..b : l[i] \in Objects
    BY <1>1, <2>2
  <2> HIDE DEF a, b
  <2>4. /\ SubSeq(l, a, b) \in Seq(Objects)
        /\ Len(SubSeq(l, a, b)) = IF a <= b THEN b - a + 1 ELSE 0
        /\ \A i \in 1..(b - a + 1) : SubSeq(l, a, b)[i] = l[a + i - 1]
    BY <2>2, <2>3, SubSeqProperties
  <2>5. Piece(r) = SubSeq(l, a, b)
    BY DEF a, b
  <2> HIDE DEF Piece
  <2>6. ASSUME NEW i \in 1..Len(Piece(r))
        PROVE  /\ Comma(l, r - 1) + i \in 1..Len(l)
               /\ Comma(l, r - 1) + i < Comma(l, r)
               /\ Piece(r)[i] = l[Comma(l, r - 1) + i]
    <3>1. i \in 1..(b - a + 1) /\ a <= b
      BY <2>2, <2>4, <2>5
    <3>2. a + i - 1 = Comma(l, r - 1) + i /\ b < Comma(l, r)
      <4>1. /\ Comma(l, r - 1) \in Int /\ Comma(l, r) \in Int /\ i \in Int
            /\ a = Comma(l, r - 1) + 1 /\ b = Comma(l, r) - 1
        BY <2>1, <3>1 DEF a, b
      <4> QED
        BY ONLY <4>1
    <3>3. a + i - 1 \in 1..Len(l) /\ a + i - 1 <= b
      BY <1>1, <2>2, <3>1
    <3>4. Piece(r)[i] = l[a + i - 1]
      BY <2>4, <2>5, <3>1
    <3> QED
      BY <2>1, <2>2, <3>2, <3>3, <3>4
  <2> QED
    BY <2>4, <2>5, <2>6 DEF Lists
<1> HIDE DEF n, m, Piece
<1>5. \A i \in 1..m : i \in 1..n
  BY <1>2
<1>6. SplitByComma(l) \in Seq(Lists) /\ Len(SplitByComma(l)) = m
  BY <1>2, <1>3, <1>4, <1>5
<1>7. \A r \in 1..m : SplitByComma(l)[r] = Piece(r)
  BY <1>3
<1> QED
  BY <1>4, <1>5, <1>6, <1>7

-----------------------------------------------------------------------------
(* The invariant: types, and places.                                        *)

\* What a call does while the call above it runs.
Waiting == {"brackets", "operand", "operator", "arguments", "last"}

\* How many objects, from its position on, a call is at.
Extent(c) ==
  CASE c.doing \in {"BINARY_OP", "operand", "operator"} -> 3
    [] c.doing \in {"UNARY_OP", "CALL", "arguments"} -> 2
    [] c.doing \in {"BRACKETS", "brackets", "DONE", "last", "finished"} -> 1
    [] OTHER -> 0

\* They are objects of its list; a call at its last object has no other one,
\* and arguments are left only of a call that compiles arguments.
Placed(c) ==
  /\ Extent(c) > 0 => c.at + Extent(c) <= Len(c.objects)
  /\ c.doing \in {"DONE", "last", "finished"} => Len(c.objects) = 1 /\ c.at = 0
  /\ c.doing # "arguments" => c.rest = <<>>

PInv ==
  /\ TypeOK
  /\ \A k \in DOMAIN calls : Placed(calls[k])
  /\ \A k \in DOMAIN calls : k < Len(calls) => calls[k].doing \in Waiting

LEMMA CallType ==
  ASSUME NEW c \in CallRecord
  PROVE  /\ c.objects \in Lists /\ Len(c.objects) \in Nat
         /\ DOMAIN c.objects = 1..Len(c.objects)
         /\ c.at \in Nat /\ c.at \in 0..(Positions - 1) /\ c.count \in Nat
         /\ c.rest \in Seq(Lists) /\ DOMAIN c.rest = 1..Len(c.rest) /\ Len(c.rest) \in Nat
         /\ \A i \in 1..Len(c.objects) : c.objects[i] \in Objects
<1>1. c.objects \in Lists /\ c.at \in 0..(Positions - 1) /\ c.rest \in Seq(Lists) /\ c.count \in Nat
  BY DEF CallRecord
<1>2. c.objects \in Seq(Objects)
  BY <1>1 DEF Lists
<1> QED
  BY <1>1, <1>2, LenProperties, ElementOfSeq

\* The calls and the innermost one.
LEMMA Calls ==
  ASSUME PInv
  PROVE  /\ Len(calls) \in Nat \ {0} /\ DOMAIN calls = 1..Len(calls)
         /\ calls \in Seq(CallRecord)
         /\ \A k \in 1..Len(calls) : calls[k] \in CallRecord
         /\ Top \in CallRecord /\ Placed(Top)
<1>1. calls \in Seq(CallRecord) /\ calls # <<>>
  BY DEF PInv, TypeOK
<1>2. /\ Len(calls) \in Nat \ {0} /\ DOMAIN calls = 1..Len(calls)
      /\ \A k \in 1..Len(calls) : calls[k] \in CallRecord
  BY <1>1, EmptySeq, LenProperties, ElementOfSeq
<1> QED
  BY <1>1, <1>2 DEF PInv, Top

\* The objects an operation looks at.
LEMMA OperationObjects ==
  ASSUME PInv
  PROVE  /\ Extent(Top) >= 1 => First \in Objects /\ First = Top.objects[Top.at + 1]
         /\ Extent(Top) >= 2 => Second \in Objects /\ Second = Top.objects[Top.at + 2]
         /\ Extent(Top) >= 3 => Third \in Objects /\ Third = Top.objects[Top.at + 3]
<1>1. Top \in CallRecord /\ Placed(Top)
  BY Calls
<1>2. /\ Len(Top.objects) \in Nat /\ Top.at \in Nat
      /\ \A i \in 1..Len(Top.objects) : Top.objects[i] \in Objects
  BY <1>1, CallType
<1>3. Extent(Top) \in 0..3 /\ (Extent(Top) > 0 => Top.at + Extent(Top) <= Len(Top.objects))
  BY <1>1 DEF Placed, Extent
<1>4. First = Top.objects[Top.at + 1] /\ Second = Top.objects[(Top.at + 1) + 1]
      /\ Third = Top.objects[(Top.at + 2) + 1]
  BY DEF First, Second, Third, Obj
<1>5. (Top.at + 1) + 1 = Top.at + 2 /\ (Top.at + 2) + 1 = Top.at + 3
  BY <1>2
<1>6. ASSUME NEW k \in 1..3, Extent(Top) >= k
      PROVE  Top.objects[Top.at + k] \in Objects
  <2>1. Top.at + k \in 1..Len(Top.objects)
    BY ONLY <1>2, <1>3, <1>6
  <2> QED
    BY <1>2, <2>1
<1>7. /\ Extent(Top) >= 1 => Top.objects[Top.at + 1] \in Objects
      /\ Extent(Top) >= 2 => Top.objects[Top.at + 2] \in Objects
      /\ Extent(Top) >= 3 => Top.objects[Top.at + 3] \in Objects
  BY <1>6
<1> QED
  BY <1>4, <1>5, <1>7, Zenon

\* The innermost call goes on as d.
LEMMA GoOn ==
  ASSUME PInv, NEW d \in CallRecord
  PROVE  /\ SetTop(d) \in Seq(CallRecord) /\ Len(SetTop(d)) = Len(calls)
         /\ SetTop(d)[Len(calls)] = d
         /\ \A k \in 1..Len(calls) : k < Len(calls) => SetTop(d)[k] = calls[k]
<1>1. calls \in Seq(CallRecord) /\ Len(calls) \in Nat /\ Len(calls) \in 1..Len(calls)
  BY Calls
<1> DEFINE new == [calls EXCEPT ![Len(calls)] = d]
<1>2. /\ new \in Seq(CallRecord) /\ Len(new) = Len(calls)
      /\ \A j \in 1..Len(calls) : new[j] = IF j = Len(calls) THEN d ELSE calls[j]
  BY <1>1, ExceptSeq
<1>3. SetTop(d) = new
  BY DEF SetTop
<1> HIDE DEF new
<1> QED
  BY <1>1, <1>2, <1>3

LEMMA GoOnP ==
  ASSUME PInv, NEW d \in CallRecord, Placed(d), calls' = SetTop(d),
         NEW N \in Seq(CodeRecord), code' = code \o N, UNCHANGED <<source, status>>
  PROVE  PInv'
<1>1. /\ SetTop(d) \in Seq(CallRecord) /\ Len(SetTop(d)) = Len(calls)
      /\ SetTop(d)[Len(calls)] = d
      /\ \A k \in 1..Len(calls) : k < Len(calls) => SetTop(d)[k] = calls[k]
  BY GoOn
<1>2. Len(calls) \in Nat \ {0} /\ DOMAIN calls = 1..Len(calls)
  BY Calls
<1>3. DOMAIN calls' = 1..Len(calls) /\ Len(calls') = Len(calls) /\ calls' # <<>>
  BY <1>1, <1>2, LenProperties, EmptySeq
<1>4. code' \in Seq(CodeRecord)
  BY ConcatProperties DEF PInv, TypeOK
<1>5. TypeOK'
  BY <1>1, <1>3, <1>4 DEF PInv, TypeOK
<1>6. \A k \in DOMAIN calls' : Placed(calls'[k])
  BY <1>1, <1>2, <1>3 DEF PInv
<1>7. \A k \in DOMAIN calls' : k < Len(calls') => calls'[k].doing \in Waiting
  BY <1>1, <1>2, <1>3 DEF PInv
<1> QED
  BY <1>5, <1>6, <1>7 DEF PInv

LEMMA NewCall ==
  ASSUME NEW l \in Lists
  PROVE  CallOn(l) \in CallRecord /\ Placed(CallOn(l)) /\ Extent(CallOn(l)) = 0
BY ObjectsAssumption, EmptySeq DEF CallOn, CallRecord, Placed, Extent

\* The innermost call waits as d for a call on the list l.
LEMMA DescendP ==
  ASSUME PInv, NEW d \in CallRecord, Placed(d), d.doing \in Waiting,
         NEW l \in Lists, Descend(d, l),
         NEW N \in Seq(CodeRecord), code' = code \o N, UNCHANGED <<source, status>>
  PROVE  PInv'
<1>1. /\ SetTop(d) \in Seq(CallRecord) /\ Len(SetTop(d)) = Len(calls)
      /\ SetTop(d)[Len(calls)] = d
      /\ \A k \in 1..Len(calls) : k < Len(calls) => SetTop(d)[k] = calls[k]
  BY GoOn
<1>2. Len(calls) \in Nat \ {0} /\ DOMAIN calls = 1..Len(calls)
  BY Calls
<1>3. CallOn(l) \in CallRecord /\ Placed(CallOn(l))
  BY NewCall
<1>4. /\ calls' \in Seq(CallRecord) /\ calls' # <<>> /\ Len(calls') = Len(calls) + 1
      /\ \A k \in 1..Len(calls) : calls'[k] = SetTop(d)[k]
      /\ calls'[Len(calls) + 1] = CallOn(l)
  BY <1>1, <1>3, AppendProperties DEF Descend
<1>5. DOMAIN calls' = 1..(Len(calls) + 1)
  BY <1>4, LenProperties
<1>6. code' \in Seq(CodeRecord)
  BY ConcatProperties DEF PInv, TypeOK
<1>7. TypeOK'
  BY <1>4, <1>6 DEF PInv, TypeOK
<1>8. \A k \in 1..(Len(calls) + 1) :
        \/ k = Len(calls) + 1
        \/ k = Len(calls)
        \/ k \in 1..Len(calls) /\ k < Len(calls)
  <2>1. Len(calls) \in Nat
    BY <1>2
  <2> QED
    BY ONLY <2>1
<1>9. \A k \in DOMAIN calls' : Placed(calls'[k])
  BY <1>1, <1>2, <1>3, <1>4, <1>5, <1>8 DEF PInv
<1>10. \A k \in DOMAIN calls' : k < Len(calls') => calls'[k].doing \in Waiting
  BY <1>1, <1>2, <1>4, <1>5, <1>8 DEF PInv
<1> QED
  BY <1>7, <1>9, <1>10 DEF PInv

\* The call below the innermost one goes on as d.
LEMMA ReturnP ==
  ASSUME PInv, Len(calls) > 1, NEW d \in CallRecord, Placed(d),
         calls' = Append(SubSeq(calls, 1, Len(calls) - 2), d),
         UNCHANGED <<source, code, status>>
  PROVE  /\ PInv' /\ Len(calls') = Len(calls) - 1 /\ calls'[Len(calls) - 1] = d
         /\ \A k \in 1..(Len(calls) - 2) : calls'[k] = calls[k]
         /\ DOMAIN calls' = 1..(Len(calls) - 1)
<1>1. /\ calls \in Seq(CallRecord) /\ Len(calls) \in Nat /\ DOMAIN calls = 1..Len(calls)
      /\ \A k \in 1..Len(calls) : calls[k] \in CallRecord
  BY Calls
<1> DEFINE m == Len(calls) - 2
           below == SubSeq(calls, 1, m)
<1>2. m \in Nat /\ \A k \in 1..m : calls[k] \in CallRecord
  BY <1>1
<1>a. calls' = Append(below, d)
  OBVIOUS
<1> HIDE DEF m
<1>3. /\ below \in Seq(CallRecord) /\ Len(below) = m
      /\ \A k \in 1..m : below[k] = calls[k]
  BY <1>2, SubSeqProperties
<1> HIDE DEF below
<1>4. /\ calls' \in Seq(CallRecord) /\ calls' # <<>> /\ Len(calls') = m + 1
      /\ \A k \in 1..m : calls'[k] = below[k]
      /\ calls'[m + 1] = d
  BY ONLY <1>3, <1>a, AppendProperties, d \in CallRecord
<1>5. DOMAIN calls' = 1..(m + 1)
  BY <1>4, LenProperties
<1>6. /\ m + 1 = Len(calls) - 1 /\ m = Len(calls) - 2
      /\ \A k \in 1..(m + 1) : k \in 1..m \/ k = m + 1
      /\ \A k \in 1..m : k \in 1..Len(calls) /\ k < Len(calls)
  <2>1. m = Len(calls) - 2 /\ m \in Nat /\ Len(calls) \in Nat
    BY <1>1, <1>2 DEF m
  <2> QED
    BY ONLY <2>1
<1>7. TypeOK'
  BY <1>4 DEF PInv, TypeOK
<1>8. \A k \in DOMAIN calls' : Placed(calls'[k])
  <2>1. \A k \in 1..m : Placed(calls[k])
    BY <1>1, <1>6 DEF PInv
  <2>2. ASSUME NEW k \in 1..(m + 1)
        PROVE  Placed(calls'[k])
    <3>1. CASE k \in 1..m
      BY <1>3, <1>4, <2>1, <3>1, Zenon
    <3>2. CASE k = m + 1
      BY <1>4, <3>2, Zenon
    <3> QED
      BY <1>6, <3>1, <3>2
  <2> QED
    BY <1>5, <2>2, Zenon
<1>9. \A k \in DOMAIN calls' : k < Len(calls') => calls'[k].doing \in Waiting
  <2> SUFFICES ASSUME NEW k \in 1..(m + 1), k < m + 1
               PROVE  calls'[k].doing \in Waiting
    BY <1>4, <1>5
  <2>1. k \in 1..m
    <3>1. m \in Nat
      BY <1>2
    <3> QED
      BY ONLY <3>1, k \in 1..(m + 1), k < m + 1
  <2>2. k \in DOMAIN calls /\ k < Len(calls)
    BY <1>1, <1>6, <2>1
  <2>3. calls'[k] = calls[k]
    BY <1>3, <1>4, <2>1, Zenon
  <2> QED
    BY <2>2, <2>3 DEF PInv
<1> QED
  BY <1>3, <1>4, <1>5, <1>6, <1>7, <1>8, <1>9 DEF PInv

-----------------------------------------------------------------------------
(* What the actions do: the innermost call goes on as d, or waits as d for a *)
(* call on l, and the instructions N are written.                           *)

GoesOn(d, N) ==
  /\ d \in CallRecord /\ Placed(d)
  /\ calls' = SetTop(d)
  /\ N \in Seq(CodeRecord) /\ code' = code \o N
  /\ UNCHANGED <<source, status>>

Descends(d, l, N) ==
  /\ d \in CallRecord /\ Placed(d) /\ d.doing \in Waiting
  /\ l \in Lists
  /\ Descend(d, l)
  /\ N \in Seq(CodeRecord) /\ code' = code \o N
  /\ UNCHANGED <<source, status>>

\* The innermost call with another thing to do.
Does(doing) == [Top EXCEPT !.doing = doing]

Chose(op) == [Top EXCEPT !.doing = op.type, !.at = op.pos]

Passing(args) == [Top EXCEPT !.doing = "arguments", !.rest = args, !.count = Len(args)]

Passed == [Top EXCEPT !.rest = Tail(@)]

Doings == {"loop", "BRACKETS", "UNARY_OP", "BINARY_OP", "CALL", "DONE", "ERROR",
           "brackets", "operand", "operator", "arguments", "last", "finished"}

LEMMA DoesIs ==
  ASSUME Top \in CallRecord, NEW doing \in Doings
  PROVE  /\ Does(doing) \in CallRecord /\ Does(doing).objects = Top.objects
         /\ Does(doing).at = Top.at /\ Does(doing).rest = Top.rest
         /\ Does(doing).doing = doing
BY DEF Does, CallRecord, Doings

LEMMA ChoseIs ==
  ASSUME Top \in CallRecord, NEW op, op.type \in Doings, op.pos \in 0..(Positions - 1)
  PROVE  /\ Chose(op) \in CallRecord /\ Chose(op).objects = Top.objects
         /\ Chose(op).at = op.pos /\ Chose(op).rest = Top.rest
         /\ Chose(op).doing = op.type
BY DEF Chose, CallRecord, Doings

LEMMA PassingIs ==
  ASSUME Top \in CallRecord, NEW args \in Seq(Lists)
  PROVE  /\ Passing(args) \in CallRecord /\ Passing(args).objects = Top.objects
         /\ Passing(args).at = Top.at /\ Passing(args).rest = args
         /\ Passing(args).doing = "arguments"
<1>1. Len(args) \in Nat
  BY LenProperties
<1> QED
  BY <1>1 DEF Passing, CallRecord

LEMMA PassedIs ==
  ASSUME Top \in CallRecord, Top.rest # <<>>
  PROVE  /\ Passed \in CallRecord /\ Passed.objects = Top.objects
         /\ Passed.at = Top.at /\ Passed.rest = Tail(Top.rest)
         /\ Passed.doing = Top.doing
         /\ Head(Top.rest) \in Lists
<1>1. Top.rest \in Seq(Lists)
  BY CallType
<1>2. Tail(Top.rest) \in Seq(Lists) /\ Head(Top.rest) \in Lists
  BY <1>1, HeadTailProperties
<1> QED
  BY <1>2 DEF Passed, CallRecord

\* c with count objects at its position replaced, doing something else.
Shortened(c, count, doing) ==
  [c EXCEPT !.objects = ReplaceWithEmpty(@, c.at, count), !.doing = doing]

LEMMA ShortenedIs ==
  ASSUME NEW c \in CallRecord, NEW count \in 1..3, c.at + count <= Len(c.objects),
         NEW doing \in Doings
  PROVE  /\ Shortened(c, count, doing) \in CallRecord
         /\ Shortened(c, count, doing).objects = ReplaceWithEmpty(c.objects, c.at, count)
         /\ Shortened(c, count, doing).at = c.at /\ Shortened(c, count, doing).rest = c.rest
         /\ Shortened(c, count, doing).doing = doing
<1>1. c.objects \in Lists /\ c.at \in Nat
  BY CallType
<1>2. ReplaceWithEmpty(c.objects, c.at, count) \in Lists
  BY <1>1, Replacing
<1> QED
  BY <1>2 DEF Shortened, CallRecord, Doings

LEMMA ReplacedIs ==
  ASSUME NEW count
  PROVE  Replaced(Top.at, count) = Shortened(Top, count, "loop")
BY DEF Replaced, Shortened

\* The instructions.
LEMMA OneInstruction ==
  ASSUME NEW op \in Opcodes, NEW text \in Texts, NEW count \in Nat
  PROVE  /\ Instruction(op, text, count) \in CodeRecord
         /\ Instruction(op, text, count).text = text
         /\ <<Instruction(op, text, count)>> \in Seq(CodeRecord)
BY DEF Instruction, CodeRecord

LEMMA TokenTexts == \A x \in Objects : ~IsTree(x) => x.text \in Texts
BY DEF Texts

LEMMA EmptyText == "" \in Texts
BY ObjectsAssumption, TokenTexts DEF EmptyToken, IsTree, TreeTypes

LEMMA LiteralCode ==
  ASSUME NEW x \in Objects
  PROVE  /\ Literal(x) \in Seq(CodeRecord)
         /\ \/ Literal(x) = <<>>
            \/ \E i \in CodeRecord :
                 /\ Literal(x) = <<i>>
                 /\ x.type \in LiteralTypes
                 /\ i.text \in {"", x.text}
<1>1. CASE x.type \in NumberTypes
  <2>1. x.text \in Texts /\ x.type \in LiteralTypes
    BY <1>1, TokenTexts DEF NumberTypes, IsTree, TreeTypes, LiteralTypes
  <2> DEFINE i == Instruction("PUSH_INTEGRAL", x.text, 0)
  <2>2. Literal(x) = <<i>>
    BY <1>1 DEF Literal, NumberTypes
  <2>3. i \in CodeRecord /\ i.text = x.text /\ <<i>> \in Seq(CodeRecord)
    BY <2>1, OneInstruction DEF Opcodes
  <2> HIDE DEF i
  <2> QED
    BY <2>1, <2>2, <2>3
<1>2. CASE x.type = "STRING"
  <2>1. x.text \in Texts /\ x.type \in LiteralTypes
    BY <1>2, TokenTexts DEF IsTree, TreeTypes, LiteralTypes
  <2> DEFINE i == Instruction("PUSH_STRING", x.text, 0)
  <2>2. Literal(x) = <<i>>
    BY <1>2 DEF Literal, NumberTypes
  <2>3. i \in CodeRecord /\ i.text = x.text /\ <<i>> \in Seq(CodeRecord)
    BY <2>1, OneInstruction DEF Opcodes
  <2> HIDE DEF i
  <2> QED
    BY <2>1, <2>2, <2>3
<1>3. CASE x.type = "ID" /\ x.text \notin Keywords
  <2>1. x.text \in Texts /\ x.type \in LiteralTypes
    BY <1>3, TokenTexts DEF IsTree, TreeTypes, LiteralTypes
  <2> DEFINE i == Instruction("LOAD_ID", x.text, 0)
  <2>2. Literal(x) = <<i>>
    BY <1>3 DEF Literal, NumberTypes
  <2>3. i \in CodeRecord /\ i.text = x.text /\ <<i>> \in Seq(CodeRecord)
    BY <2>1, OneInstruction DEF Opcodes
  <2> HIDE DEF i
  <2> QED
    BY <2>1, <2>2, <2>3
<1>4. CASE x.type = "ID" /\ x.text \in Keywords
  <2> DEFINE op == CASE x.text = "true"  -> "PUSH_TRUE"
                     [] x.text = "false" -> "PUSH_FALSE"
                     [] OTHER            -> "PUSH_NONE"
  <2>1. op \in Opcodes /\ x.type \in LiteralTypes
    BY <1>4 DEF LiteralTypes, Opcodes
  <2> DEFINE i == Instruction(op, "", 0)
  <2>2. Literal(x) = <<i>>
    BY <1>4 DEF Literal, NumberTypes
  <2> HIDE DEF op
  <2>3. i \in CodeRecord /\ i.text = "" /\ <<i>> \in Seq(CodeRecord)
    BY <2>1, OneInstruction, EmptyText
  <2> HIDE DEF i
  <2> QED
    BY <2>1, <2>2, <2>3
<1>5. CASE x.type \notin NumberTypes /\ x.type # "STRING" /\ x.type # "ID"
  <2>1. Literal(x) = <<>>
    BY <1>5, Zenon DEF Literal
  <2> QED
    BY <2>1, EmptySeq
<1> QED
  BY <1>1, <1>2, <1>3, <1>4, <1>5

LEMMA PlainCode ==
  ASSUME NEW x
  PROVE  /\ \E i \in CodeRecord : UnaryInstruction(x) = <<i>> /\ i.text = ""
         /\ \/ BinaryInstruction(x) = <<>>
            \/ \E i \in CodeRecord : BinaryInstruction(x) = <<i>> /\ i.text = ""
<1> DEFINE op == CASE x.type = "PLUS"  -> "UPLUS"
                   [] x.type = "MINUS" -> "UMINUS"
                   [] OTHER            -> "BIN_NOTB"
<1>1. op \in Opcodes
  BY DEF Opcodes
<1>2. UnaryInstruction(x) = <<Instruction(op, "", 0)>>
  BY DEF UnaryInstruction
<1> HIDE DEF op
<1>3. \E i \in CodeRecord : UnaryInstruction(x) = <<i>> /\ i.text = ""
  BY <1>1, <1>2, OneInstruction, EmptyText
<1>4. ASSUME BinaryInstruction(x) # <<>>
      PROVE  \E i \in CodeRecord : BinaryInstruction(x) = <<i>> /\ i.text = ""
  <2>1. /\ x.type \in DOMAIN BinaryOpcode
        /\ BinaryInstruction(x) = <<Instruction(BinaryOpcode[x.type], "", 0)>>
    BY <1>4, Zenon DEF BinaryInstruction
  <2>2. BinaryOpcode[x.type] \in Opcodes
    BY <2>1 DEF Opcodes
  <2> DEFINE i == Instruction(BinaryOpcode[x.type], "", 0)
  <2>3. i \in CodeRecord /\ i.text = "" /\ BinaryInstruction(x) = <<i>>
    BY <2>1, <2>2, OneInstruction, EmptyText
  <2> HIDE DEF i
  <2> QED
    BY <2>3
<1> QED
  BY <1>3, <1>4

LEMMA PlainInstructions ==
  ASSUME NEW x
  PROVE  UnaryInstruction(x) \in Seq(CodeRecord) /\ BinaryInstruction(x) \in Seq(CodeRecord)
<1>1. \A i \in CodeRecord : <<i>> \in Seq(CodeRecord)
  OBVIOUS
<1>2. <<>> \in Seq(CodeRecord)
  BY EmptySeq
<1>3. /\ \E i \in CodeRecord : UnaryInstruction(x) = <<i>>
      /\ BinaryInstruction(x) = <<>> \/ \E i \in CodeRecord : BinaryInstruction(x) = <<i>>
  BY PlainCode
<1> QED
  BY <1>1, <1>2, <1>3

-----------------------------------------------------------------------------
(* Each action in these terms.                                              *)

\* Writing nothing.
LEMMA NothingWritten ==
  ASSUME PInv, UNCHANGED code
  PROVE  <<>> \in Seq(CodeRecord) /\ code' = code \o <<>>
BY EmptySeq, ConcatEmptySeq DEF PInv, TypeOK

\* Writing in several parts.
LEMMA WrittenTwice ==
  ASSUME PInv, NEW M \in Seq(CodeRecord), NEW N \in Seq(CodeRecord)
  PROVE  M \o N \in Seq(CodeRecord) /\ (code \o M) \o N = code \o (M \o N)
<1>1. code \in Seq(CodeRecord)
  BY DEF PInv, TypeOK
<1>2. M \o N \in Seq(CodeRecord)
  BY ONLY ConcatProperties, M \in Seq(CodeRecord), N \in Seq(CodeRecord)
<1>3. (code \o M) \o N = code \o (M \o N)
  BY ONLY <1>1, ConcatAssociative, M \in Seq(CodeRecord), N \in Seq(CodeRecord)
<1> QED
  BY <1>2, <1>3

\* A call that is at an operation or waits keeps its place.
LEMMA DoesPlaced ==
  ASSUME PInv, NEW doing \in Doings, Top.doing # "arguments",
         Extent(Does(doing)) <= Extent(Top),
         doing \in {"DONE", "last", "finished"} => Top.doing \in {"DONE", "last", "finished"}
  PROVE  Does(doing) \in CallRecord /\ Placed(Does(doing))
<1>1. Top \in CallRecord /\ Placed(Top)
  BY Calls
<1>2. /\ Does(doing) \in CallRecord /\ Does(doing).objects = Top.objects
      /\ Does(doing).at = Top.at /\ Does(doing).rest = Top.rest
      /\ Does(doing).doing = doing
  BY <1>1, DoesIs
<1>3. Len(Top.objects) \in Nat /\ Top.at \in Nat
  BY <1>1, CallType
<1>4. Extent(Does(doing)) \in 0..3 /\ Extent(Top) \in 0..3
  BY DEF Extent
<1> QED
  BY <1>1, <1>2, <1>3, <1>4 DEF Placed

\* A call that replaces what it is at is at nothing.
LEMMA ShortenedPlaced ==
  ASSUME NEW c \in CallRecord, Placed(c), NEW count \in 1..3, Extent(c) = count,
         c.doing = "arguments" => c.rest = <<>>
  PROVE  Shortened(c, count, "loop") \in CallRecord /\ Placed(Shortened(c, count, "loop"))
<1>1. c.at + count <= Len(c.objects)
  BY DEF Placed
<1>2. /\ Shortened(c, count, "loop") \in CallRecord
      /\ Shortened(c, count, "loop").rest = c.rest
      /\ Shortened(c, count, "loop").doing = "loop"
  BY <1>1, ShortenedIs DEF Doings
<1> QED
  BY <1>2 DEF Placed, Extent

LEMMA GetOperationStep ==
  ASSUME PInv, GetOperation
  PROVE  /\ GoesOn(Chose(Operation(Top.objects)), <<>>)
         /\ Operation(Top.objects).type \in OperationTypes
         /\ Top.doing = "loop"
<1> DEFINE op == Operation(Top.objects)
           d == Chose(op)
<1>1. Top \in CallRecord /\ Placed(Top) /\ Top.doing = "loop" /\ Top.objects # <<>>
  BY Calls DEF GetOperation, Doing
<1>2. Top.objects \in Lists /\ Len(Top.objects) \in Nat
  BY <1>1, CallType
<1>3. /\ op.type \in OperationTypes /\ op.pos \in 0..(Positions - 1)
      /\ op.pos + Width(op.type) <= Len(Top.objects)
      /\ op.type = "DONE" => Len(Top.objects) = 1 /\ op.pos = 0
  BY <1>1, <1>2, OperationFits
<1>4. calls' = SetTop(d)
  BY DEF GetOperation, Chose
<1> HIDE DEF op
<1>5. op.type \in Doings
  BY <1>3 DEF OperationTypes, Doings
<1>6. /\ d \in CallRecord /\ d.objects = Top.objects /\ d.at = op.pos
      /\ d.rest = Top.rest /\ d.doing = op.type
  BY <1>1, <1>3, <1>5, ChoseIs
<1> HIDE DEF d
<1>7. Extent(d) = Width(op.type)
  BY <1>3, <1>6 DEF Extent, Width, OperationTypes
<1>8. Placed(d)
  BY <1>1, <1>3, <1>6, <1>7 DEF Placed, OperationTypes
<1>9. <<>> \in Seq(CodeRecord) /\ code' = code \o <<>> /\ UNCHANGED <<source, status>>
  BY NothingWritten DEF GetOperation
<1> QED
  BY <1>1, <1>3, <1>4, <1>6, <1>8, <1>9 DEF GoesOn, op, d

LEMMA CompileUnaryStep ==
  ASSUME PInv, CompileUnary
  PROVE  /\ GoesOn(Shortened(Top, 2, "loop"), Literal(Second) \o UnaryInstruction(First))
         /\ Top.doing = "UNARY_OP"
<1>1. Top \in CallRecord /\ Placed(Top) /\ Top.doing = "UNARY_OP" /\ Extent(Top) = 2
  BY Calls DEF CompileUnary, Doing, Extent
<1>2. Shortened(Top, 2, "loop") \in CallRecord /\ Placed(Shortened(Top, 2, "loop"))
  BY <1>1, ShortenedPlaced
<1>3. Literal(Second) \in Seq(CodeRecord) /\ UnaryInstruction(First) \in Seq(CodeRecord)
  <2>1. Second \in Objects
    BY <1>1, OperationObjects
  <2> QED
    BY <2>1, LiteralCode, PlainInstructions
<1>4. /\ calls' = SetTop(Shortened(Top, 2, "loop")) /\ UNCHANGED <<source, status>>
      /\ code' = (code \o Literal(Second)) \o UnaryInstruction(First)
  BY ReplacedIs DEF CompileUnary
<1> QED
  BY <1>1, <1>2, <1>3, <1>4, WrittenTwice DEF GoesOn

LEMMA CompileBinaryStep ==
  ASSUME PInv, CompileBinary
  PROVE  /\ GoesOn(Shortened(Top, 3, "loop"),
                   (Literal(First) \o Literal(Third)) \o BinaryInstruction(Second))
         /\ Top.doing = "BINARY_OP"
<1>1. Top \in CallRecord /\ Placed(Top) /\ Top.doing = "BINARY_OP" /\ Extent(Top) = 3
  BY Calls DEF CompileBinary, Doing, Extent
<1>2. Shortened(Top, 3, "loop") \in CallRecord /\ Placed(Shortened(Top, 3, "loop"))
  BY <1>1, ShortenedPlaced
<1>3. /\ Literal(First) \in Seq(CodeRecord) /\ Literal(Third) \in Seq(CodeRecord)
      /\ BinaryInstruction(Second) \in Seq(CodeRecord)
  <2>1. First \in Objects /\ Third \in Objects
    BY <1>1, OperationObjects
  <2> QED
    BY <2>1, LiteralCode, PlainInstructions
<1>4. /\ calls' = SetTop(Shortened(Top, 3, "loop")) /\ UNCHANGED <<source, status>>
      /\ code' = ((code \o Literal(First)) \o Literal(Third)) \o BinaryInstruction(Second)
  BY ReplacedIs DEF CompileBinary
<1> DEFINE M == Literal(First) \o Literal(Third)
<1>5. M \in Seq(CodeRecord) /\ (code \o Literal(First)) \o Literal(Third) = code \o M
  BY <1>3, WrittenTwice
<1>6. code' = (code \o M) \o BinaryInstruction(Second)
  BY <1>4, <1>5, Zenon
<1> HIDE DEF M
<1>7. GoesOn(Shortened(Top, 3, "loop"), M \o BinaryInstruction(Second))
  BY <1>2, <1>3, <1>4, <1>5, <1>6, WrittenTwice DEF GoesOn
<1> QED
  BY <1>1, <1>7 DEF M

LEMMA CompileAttributeStep ==
  ASSUME PInv, CompileAttribute
  PROVE  /\ GoesOn(Shortened(Top, 3, "loop"),
                   Literal(First) \o <<Instruction("GET_ATTRIBUTESB", Third.text, 0)>>)
         /\ Instruction("GET_ATTRIBUTESB", Third.text, 0).text = Third.text
         /\ Top.doing = "BINARY_OP"
<1>1. Top \in CallRecord /\ Placed(Top) /\ Top.doing = "BINARY_OP" /\ Extent(Top) = 3
  BY Calls DEF CompileAttribute, Doing, Extent
<1>2. Shortened(Top, 3, "loop") \in CallRecord /\ Placed(Shortened(Top, 3, "loop"))
  BY <1>1, ShortenedPlaced
<1>3. First \in Objects /\ Third \in Objects /\ Third.type = "ID"
  BY <1>1, OperationObjects DEF CompileAttribute
<1>4. Third.text \in Texts
  BY <1>3, TokenTexts DEF IsTree, TreeTypes
<1> DEFINE I == Instruction("GET_ATTRIBUTESB", Third.text, 0)
<1>5. /\ Literal(First) \in Seq(CodeRecord) /\ <<I>> \in Seq(CodeRecord)
      /\ I.text = Third.text
  <2>1. Literal(First) \in Seq(CodeRecord)
    BY <1>3, LiteralCode
  <2>2. "GET_ATTRIBUTESB" \in Opcodes
    BY DEF Opcodes
  <2>3. <<I>> \in Seq(CodeRecord) /\ I.text = Third.text
    BY <1>4, <2>2, OneInstruction
  <2> QED
    BY <2>1, <2>3
<1>6. /\ calls' = SetTop(Shortened(Top, 3, "loop")) /\ UNCHANGED <<source, status>>
      /\ code' = (code \o Literal(First)) \o <<I>>
  BY ReplacedIs DEF CompileAttribute
<1> HIDE DEF I
<1>7. GoesOn(Shortened(Top, 3, "loop"), Literal(First) \o <<I>>)
  BY <1>2, <1>5, <1>6, WrittenTwice DEF GoesOn
<1> QED
  BY <1>1, <1>5, <1>7 DEF I

LEMMA StartCallStep ==
  ASSUME PInv, StartCall
  PROVE  /\ GoesOn(Passing(SplitByComma(Second.objects)), Literal(First))
         /\ IsTree(Second) /\ Top.doing = "CALL"
<1>1. Top \in CallRecord /\ Placed(Top) /\ Top.doing = "CALL" /\ Extent(Top) = 2
  BY Calls DEF StartCall, Doing, Extent
<1>2. First \in Objects /\ Second \in Objects /\ IsTree(Second)
  BY <1>1, OperationObjects DEF StartCall
<1> DEFINE args == SplitByComma(Second.objects)
<1>3. args \in Seq(Lists)
  BY <1>2, TreeObjects, Pieces
<1>4. calls' = SetTop(Passing(args)) /\ code' = code \o Literal(First) /\ UNCHANGED <<source, status>>
  BY DEF StartCall, Passing
<1> HIDE DEF args
<1>5. /\ Passing(args) \in CallRecord /\ Passing(args).objects = Top.objects
      /\ Passing(args).at = Top.at /\ Passing(args).doing = "arguments"
  BY <1>1, <1>3, PassingIs
<1>6. Placed(Passing(args))
  BY <1>1, <1>5 DEF Placed, Extent
<1> QED
  BY <1>1, <1>2, <1>4, <1>5, <1>6, LiteralCode DEF GoesOn, args

LEMMA EndCallStep ==
  ASSUME PInv, EndCall
  PROVE  /\ GoesOn(Shortened(Top, 2, "loop"), <<Instruction("CALLB", "", Top.count)>>)
         /\ Instruction("CALLB", "", Top.count).text = ""
         /\ Top.doing = "arguments" /\ Top.rest = <<>>
<1>1. /\ Top \in CallRecord /\ Placed(Top) /\ Top.doing = "arguments" /\ Extent(Top) = 2
      /\ Top.rest = <<>>
  BY Calls DEF EndCall, Doing, Extent
<1>2. Shortened(Top, 2, "loop") \in CallRecord /\ Placed(Shortened(Top, 2, "loop"))
  BY <1>1, ShortenedPlaced
<1> DEFINE I == Instruction("CALLB", "", Top.count)
<1>3. I \in CodeRecord /\ I.text = "" /\ <<I>> \in Seq(CodeRecord)
  <2>1. Top.count \in Nat
    BY <1>1 DEF CallRecord
  <2>2. "CALLB" \in Opcodes
    BY DEF Opcodes
  <2> QED
    BY <2>1, <2>2, EmptyText, OneInstruction
<1>4. calls' = SetTop(Shortened(Top, 2, "loop")) /\ UNCHANGED <<source, status>>
      /\ code' = Append(code, I)
  BY ReplacedIs DEF EndCall
<1> HIDE DEF I
<1>5. code' = code \o <<I>>
  BY <1>3, <1>4, AppendIsConcat DEF PInv, TypeOK
<1> QED
  BY <1>1, <1>2, <1>3, <1>4, <1>5 DEF GoesOn, I

LEMMA CompileLastStep ==
  ASSUME PInv, CompileLast
  PROVE  GoesOn(Does("finished"), Literal(First)) /\ Top.doing = "DONE"
<1>1. Top \in CallRecord /\ Top.doing = "DONE" /\ Extent(Top) = 1
  BY Calls DEF CompileLast, Doing, Extent
<1>2. Does("finished") \in CallRecord /\ Does("finished").doing = "finished"
  BY <1>1, DoesIs DEF Doings
<1>3. Extent(Does("finished")) <= Extent(Top)
  BY <1>1, <1>2 DEF Extent
<1>4. Placed(Does("finished"))
  BY <1>1, <1>3, DoesPlaced DEF Doings
<1>5. Literal(First) \in Seq(CodeRecord)
  <2>1. First \in Objects
    BY <1>1, OperationObjects
  <2> QED
    BY <2>1, LiteralCode
<1>6. calls' = SetTop(Does("finished")) /\ code' = code \o Literal(First) /\ UNCHANGED <<source, status>>
  BY DEF CompileLast, Does
<1> QED
  BY <1>1, <1>2, <1>4, <1>5, <1>6 DEF GoesOn

LEMMA CompileBracketsStep ==
  ASSUME PInv, CompileBrackets
  PROVE  /\ Descends(Does("brackets"), First.objects, <<>>)
         /\ IsTree(First) /\ Top.doing = "BRACKETS"
<1>1. Top \in CallRecord /\ Top.doing = "BRACKETS" /\ Extent(Top) = 1
  BY Calls DEF CompileBrackets, Doing, Extent
<1>2. Does("brackets") \in CallRecord /\ Does("brackets").doing = "brackets"
  BY <1>1, DoesIs DEF Doings
<1>3. Extent(Does("brackets")) <= Extent(Top)
  BY <1>1, <1>2 DEF Extent
<1>4. Placed(Does("brackets"))
  BY <1>1, <1>3, DoesPlaced DEF Doings
<1>5. First.objects \in Lists /\ IsTree(First)
  <2>1. First \in Objects /\ IsTree(First)
    BY <1>1, OperationObjects DEF CompileBrackets
  <2> QED
    BY <2>1, TreeObjects
<1>6. Descend(Does("brackets"), First.objects) /\ UNCHANGED <<source, code, status>>
  BY DEF CompileBrackets, Does
<1>7. <<>> \in Seq(CodeRecord) /\ code' = code \o <<>>
  BY <1>6, NothingWritten
<1> QED
  BY <1>1, <1>2, <1>4, <1>5, <1>6, <1>7 DEF Descends, Waiting

LEMMA CompileOperandStep ==
  ASSUME PInv, CompileOperand
  PROVE  /\ Descends(Does("operand"), First.objects, <<>>)
         /\ IsTree(First) /\ Top.doing = "BINARY_OP"
<1>1. Top \in CallRecord /\ Top.doing = "BINARY_OP" /\ Extent(Top) = 3
  BY Calls DEF CompileOperand, Doing, Extent
<1>2. Does("operand") \in CallRecord /\ Does("operand").doing = "operand"
  BY <1>1, DoesIs DEF Doings
<1>3. Extent(Does("operand")) <= Extent(Top)
  BY <1>1, <1>2 DEF Extent
<1>4. Placed(Does("operand"))
  BY <1>1, <1>3, DoesPlaced DEF Doings
<1>5. First.objects \in Lists /\ IsTree(First)
  <2>1. First \in Objects /\ IsTree(First)
    BY <1>1, OperationObjects DEF CompileOperand
  <2> QED
    BY <2>1, TreeObjects
<1>6. Descend(Does("operand"), First.objects) /\ UNCHANGED <<source, code, status>>
  BY DEF CompileOperand, Does
<1>7. <<>> \in Seq(CodeRecord) /\ code' = code \o <<>>
  BY <1>6, NothingWritten
<1> QED
  BY <1>1, <1>2, <1>4, <1>5, <1>6, <1>7 DEF Descends, Waiting

LEMMA CompileOperatorStep ==
  ASSUME PInv, CompileOperator
  PROVE  /\ Descends(Does("operator"), Second.objects, Literal(First))
         /\ IsTree(Second) /\ Top.doing = "BINARY_OP"
<1>1. Top \in CallRecord /\ Top.doing = "BINARY_OP" /\ Extent(Top) = 3
  BY Calls DEF CompileOperator, Doing, Extent
<1>2. Does("operator") \in CallRecord /\ Does("operator").doing = "operator"
  BY <1>1, DoesIs DEF Doings
<1>3. Extent(Does("operator")) <= Extent(Top)
  BY <1>1, <1>2 DEF Extent
<1>4. Placed(Does("operator"))
  BY <1>1, <1>3, DoesPlaced DEF Doings
<1>5. Second.objects \in Lists /\ IsTree(Second) /\ Literal(First) \in Seq(CodeRecord)
  <2>1. First \in Objects /\ Second \in Objects /\ IsTree(Second)
    BY <1>1, OperationObjects DEF CompileOperator
  <2> QED
    BY <2>1, TreeObjects, LiteralCode
<1>6. /\ Descend(Does("operator"), Second.objects) /\ UNCHANGED <<source, status>>
      /\ code' = code \o Literal(First)
  BY DEF CompileOperator, Does
<1> QED
  BY <1>1, <1>2, <1>4, <1>5, <1>6 DEF Descends, Waiting

LEMMA NextArgumentStep ==
  ASSUME PInv, NextArgument
  PROVE  /\ Descends(Passed, Head(Top.rest), <<>>)
         /\ Top.doing = "arguments" /\ Top.rest # <<>>
<1>1. Top \in CallRecord /\ Placed(Top) /\ Top.doing = "arguments" /\ Top.rest # <<>>
  BY Calls DEF NextArgument, Doing
<1>2. /\ Passed \in CallRecord /\ Passed.objects = Top.objects
      /\ Passed.at = Top.at /\ Passed.doing = "arguments" /\ Head(Top.rest) \in Lists
  BY <1>1, PassedIs
<1>3. Placed(Passed)
  BY <1>1, <1>2 DEF Placed, Extent
<1>4. Descend(Passed, Head(Top.rest)) /\ UNCHANGED <<source, code, status>>
  BY DEF NextArgument, Passed
<1>5. <<>> \in Seq(CodeRecord) /\ code' = code \o <<>>
  BY <1>4, NothingWritten
<1> QED
  BY <1>1, <1>2, <1>3, <1>4, <1>5 DEF Descends, Waiting

LEMMA CompileLastBracketsStep ==
  ASSUME PInv, CompileLastBrackets
  PROVE  /\ Descends(Does("last"), First.objects, <<>>)
         /\ IsTree(First) /\ Top.doing = "DONE"
<1>1. Top \in CallRecord /\ Top.doing = "DONE" /\ Extent(Top) = 1
  BY Calls DEF CompileLastBrackets, Doing, Extent
<1>2. Does("last") \in CallRecord /\ Does("last").doing = "last"
  BY <1>1, DoesIs DEF Doings
<1>3. Extent(Does("last")) <= Extent(Top)
  BY <1>1, <1>2 DEF Extent
<1>4. Placed(Does("last"))
  BY <1>1, <1>3, DoesPlaced DEF Doings
<1>5. First.objects \in Lists /\ IsTree(First)
  <2>1. First \in Objects /\ IsTree(First)
    BY <1>1, OperationObjects DEF CompileLastBrackets
  <2> QED
    BY <2>1, TreeObjects
<1>6. Descend(Does("last"), First.objects) /\ UNCHANGED <<source, code, status>>
  BY DEF CompileLastBrackets, Does
<1>7. <<>> \in Seq(CodeRecord) /\ code' = code \o <<>>
  BY <1>6, NothingWritten
<1> QED
  BY <1>1, <1>2, <1>4, <1>5, <1>6, <1>7 DEF Descends, Waiting

\* What a return does: the caller goes on without what it was at, or, at its
\* arguments, as before.
Returns(d) ==
  /\ Len(calls) > 1
  /\ d \in CallRecord /\ Placed(d)
  /\ calls' = Append(SubSeq(calls, 1, Len(calls) - 2), d)
  /\ UNCHANGED <<source, code, status>>

LEMMA ReturnToCallerStep ==
  ASSUME PInv, ReturnToCaller
  PROVE  /\ Caller \in CallRecord /\ Placed(Caller)
         /\ \/ Caller.doing = "brackets" /\ Returns(Shortened(Caller, 1, "loop"))
            \/ Caller.doing = "operand" /\ Returns(Shortened(Caller, 1, "BINARY_OP"))
            \/ Caller.doing = "operator" /\ Returns(Shortened(Caller, 3, "loop"))
            \/ Caller.doing = "arguments" /\ Returns(Caller)
<1>1. /\ Len(calls) \in Nat /\ Len(calls) > 1 /\ DOMAIN calls = 1..Len(calls)
      /\ \A k \in 1..Len(calls) : calls[k] \in CallRecord
  BY Calls DEF ReturnToCaller
<1>2. Len(calls) - 1 \in 1..Len(calls) /\ Len(calls) - 1 < Len(calls)
  BY <1>1
<1>3. Caller \in CallRecord /\ Placed(Caller) /\ Caller.doing \in Waiting \ {"last"}
  BY <1>1, <1>2 DEF PInv, Caller, ReturnToCaller
<1>4. /\ calls' = Append(SubSeq(calls, 1, Len(calls) - 2), Resumed(Caller))
      /\ UNCHANGED <<source, code, status>>
  BY DEF ReturnToCaller
<1>5. CASE Caller.doing = "brackets"
  <2>1. Resumed(Caller) = Shortened(Caller, 1, "loop") /\ Extent(Caller) = 1
    BY <1>5 DEF Resumed, Shortened, Extent
  <2>2. Shortened(Caller, 1, "loop") \in CallRecord /\ Placed(Shortened(Caller, 1, "loop"))
    BY <1>3, <1>5, <2>1, ShortenedPlaced
  <2> QED
    BY <1>1, <1>3, <1>4, <1>5, <2>1, <2>2 DEF Returns
<1>6. CASE Caller.doing = "operand"
  <2> DEFINE d == Shortened(Caller, 1, "BINARY_OP")
  <2>1. Resumed(Caller) = d /\ Extent(Caller) = 3
    BY <1>6 DEF Resumed, Shortened, Extent
  <2>2. /\ Caller.objects \in Lists /\ Caller.at \in Nat /\ Len(Caller.objects) \in Nat
        /\ Caller.at + 3 <= Len(Caller.objects) /\ Caller.rest = <<>>
    BY <1>3, <1>6, <2>1, CallType DEF Placed
  <2>3. /\ d \in CallRecord /\ d.objects = ReplaceWithEmpty(Caller.objects, Caller.at, 1)
        /\ d.at = Caller.at /\ d.rest = <<>> /\ d.doing = "BINARY_OP"
    BY <1>3, <2>2, ShortenedIs DEF Doings
  <2> HIDE DEF d
  <2>4. Len(d.objects) = Len(Caller.objects)
    <3>1. Len(ReplaceWithEmpty(Caller.objects, Caller.at, 1)) = Len(Caller.objects) - 1 + 1
      <4>1. 1 \in Nat \ {0} /\ Caller.at + 1 <= Len(Caller.objects)
        BY <2>2
      <4> QED
        BY ONLY <2>2, <4>1, Replacing
    <3> QED
      BY <2>2, <2>3, <3>1
  <2>5. Placed(d)
    BY <2>2, <2>3, <2>4 DEF Placed, Extent
  <2> QED
    BY <1>1, <1>3, <1>4, <1>6, <2>1, <2>3, <2>5 DEF Returns, d
<1>7. CASE Caller.doing = "operator"
  <2>1. Resumed(Caller) = Shortened(Caller, 3, "loop") /\ Extent(Caller) = 3
    BY <1>7 DEF Resumed, Shortened, Extent
  <2>2. Shortened(Caller, 3, "loop") \in CallRecord /\ Placed(Shortened(Caller, 3, "loop"))
    BY <1>3, <1>7, <2>1, ShortenedPlaced
  <2> QED
    BY <1>1, <1>3, <1>4, <1>7, <2>1, <2>2 DEF Returns
<1>8. CASE Caller.doing = "arguments"
  <2>1. Resumed(Caller) = Caller
    BY <1>8 DEF Resumed
  <2> QED
    BY <1>1, <1>3, <1>4, <1>8, <2>1 DEF Returns
<1> QED
  BY <1>3, <1>5, <1>6, <1>7, <1>8 DEF Waiting

-----------------------------------------------------------------------------
(* The types, and the places of the operations.                             *)

LEMMA InitPInv == Init => PInv
<1> SUFFICES ASSUME Init PROVE PInv
  OBVIOUS
<1>1. source \in Lists
  BY ObjectsAssumption DEF Init, Lists
<1>2. CallOn(source) \in CallRecord /\ Placed(CallOn(source))
  BY <1>1, NewCall
<1>3. calls = <<CallOn(source)>> /\ code = <<>> /\ status = "compiling"
  BY DEF Init
<1>4. calls \in Seq(CallRecord) /\ calls # <<>> /\ Len(calls) = 1 /\ DOMAIN calls = {1}
      /\ calls[1] = CallOn(source)
  BY <1>2, <1>3
<1>5. TypeOK
  BY <1>1, <1>3, <1>4, EmptySeq DEF TypeOK
<1> QED
  BY <1>2, <1>4, <1>5 DEF PInv

LEMMA NextPInv == PInv /\ [Next]_vars => PInv'
<1> SUFFICES ASSUME PInv, [Next]_vars PROVE PInv'
  OBVIOUS
<1>1. ASSUME NEW d, NEW N, GoesOn(d, N) PROVE PInv'
  BY <1>1, GoOnP DEF GoesOn
<1>2. ASSUME NEW d, NEW l, NEW N, Descends(d, l, N) PROVE PInv'
  BY <1>2, DescendP DEF Descends
<1>3. ASSUME NEW d, Returns(d) PROVE PInv'
  BY <1>3, ReturnP DEF Returns
<1>4. CASE GetOperation
  BY <1>1, <1>4, GetOperationStep
<1>5. CASE CompileBrackets
  BY <1>2, <1>5, CompileBracketsStep
<1>6. CASE CompileUnary
  BY <1>1, <1>6, CompileUnaryStep
<1>7. CASE CompileOperand
  BY <1>2, <1>7, CompileOperandStep
<1>8. CASE CompileOperator
  BY <1>2, <1>8, CompileOperatorStep
<1>9. CASE CompileBinary
  BY <1>1, <1>9, CompileBinaryStep
<1>10. CASE CompileAttribute
  BY <1>1, <1>10, CompileAttributeStep
<1>11. CASE StartCall
  BY <1>1, <1>11, StartCallStep
<1>12. CASE NextArgument
  BY <1>2, <1>12, NextArgumentStep
<1>13. CASE EndCall
  BY <1>1, <1>13, EndCallStep
<1>14. CASE CompileLast
  BY <1>1, <1>14, CompileLastStep
<1>15. CASE CompileLastBrackets
  BY <1>2, <1>15, CompileLastBracketsStep
<1>16. CASE ReturnToCaller
  BY <1>3, <1>16, ReturnToCallerStep
<1>17. CASE ReturnFromCompiler
  BY <1>17 DEF ReturnFromCompiler, PInv, TypeOK
<1>18. CASE Reject
  BY <1>18 DEF Reject, PInv, TypeOK
<1>19. CASE Crash
  BY <1>19 DEF Crash, PInv, TypeOK
<1>20. CASE UNCHANGED vars
  BY <1>20 DEF vars, PInv, TypeOK
<1> QED
  BY <1>4, <1>5, <1>6, <1>7, <1>8, <1>9, <1>10, <1>11, <1>12, <1>13, <1>14, <1>15,
     <1>16, <1>17, <1>18, <1>19, <1>20 DEF Next

LEMMA AlwaysPInv == Spec => []PInv
<1> QED
  BY InitPInv, NextPInv, PTL DEF Spec

\* Every variable keeps its type: a call has a list of objects, a position that
\* fits priority_t and, once it has chosen an operation, one of the operations
\* of get_operation (compiler.cpp:79).
THEOREM TypeCorrect == Spec => []TypeOK
<1>1. PInv => TypeOK
  BY DEF PInv
<1> QED
  BY <1>1, AlwaysPInv, PTL

-----------------------------------------------------------------------------
(* No operand twice: the hypothesis.                                        *)

\* texts are the texts of the operands in an object.  No two objects of a list
\* have one in common.
Apart(texts, l) ==
  \A i, j \in 1..Len(l) : i # j => texts[l[i]] \cap texts[l[j]] = {}

TextsOf(texts, x) ==
  IF IsTree(x) THEN UNION {texts[x.objects[i]] : i \in 1..Len(x.objects)}
  ELSE IF x.type \in LiteralTypes THEN {x.text} \ {""}
  ELSE {}

Separates(texts) ==
  /\ texts \in [Objects -> SUBSET (Texts \ {""})]
  /\ \A x \in Objects :
       /\ texts[x] = TextsOf(texts, x)
       /\ IsTree(x) => Apart(texts, x.objects)

\* No two operands of an expression have the same text.
OperandsDiffer ==
  \E texts : Separates(texts) /\ \A e \in Expressions : Apart(texts, e)

-----------------------------------------------------------------------------
(* No operand twice: the invariant.                                         *)

\* The places of a call's list whose objects have been compiled, or are
\* compiled by the call above.
Gone(c) ==
  CASE c.doing \in {"brackets", "operand", "last", "finished"} -> {c.at + 1}
    [] c.doing = "arguments" -> {c.at + 1, c.at + 2}
    [] c.doing = "operator" -> {c.at + 1, c.at + 2, c.at + 3}
    [] OTHER -> {}

\* The call c has still to compile an operand with the text t: at place i of
\* its list, r = 0, or of the r-th of the arguments that are left.
Has(texts, c, r, i, t) ==
  \/ /\ r = 0
     /\ i \in 1..Len(c.objects)
     /\ i \notin Gone(c)
     /\ t \in texts[c.objects[i]]
  \/ /\ r \in 1..Len(c.rest)
     /\ i \in 1..Len(c.rest[r])
     /\ t \in texts[c.rest[r][i]]

Keeps(texts, c, t) == \E r, i : Has(texts, c, r, i, t)

Single(texts, c) ==
  \A t, r, i, s, j :
    Has(texts, c, r, i, t) /\ Has(texts, c, s, j, t) => r = s /\ i = j

\* A text that is still to be compiled is at one place of one call, and not in
\* the code.
Once(texts) ==
  /\ \A k \in 1..Len(calls) : Single(texts, calls[k])
  /\ \A t : \A k, m \in 1..Len(calls) :
       Keeps(texts, calls[k], t) /\ Keeps(texts, calls[m], t) => k = m
  /\ \A t : \A k \in 1..Len(calls) :
       t # "" /\ Keeps(texts, calls[k], t) => \A i \in 1..Len(code) : code[i].text # t
  /\ \A i, j \in 1..Len(code) :
       code[i].text # "" /\ code[i].text = code[j].text => i = j

OInv == PInv /\ \E texts : Separates(texts) /\ Once(texts)

\* The instructions N have texts from T, each of them once.
Spells(N, T) ==
  /\ \A i \in 1..Len(N) : N[i].text # "" => N[i].text \in T
  /\ \A i, j \in 1..Len(N) : N[i].text # "" /\ N[i].text = N[j].text => i = j

\* d has nothing to compile that c has not.
Inherits(texts, c, d) ==
  Single(texts, d) /\ \A t : Keeps(texts, d, t) => Keeps(texts, c, t)

\* The texts in T are c's and not d's.
GivesUp(texts, c, d, T) ==
  \A t \in T : Keeps(texts, c, t) /\ ~Keeps(texts, d, t)

LEMMA SpellsConcat ==
  ASSUME NEW M \in Seq(CodeRecord), NEW N \in Seq(CodeRecord), NEW S, NEW T,
         Spells(M, S), Spells(N, T), S \cap T = {}
  PROVE  Spells(M \o N, S \cup T)
<1>1. /\ Len(M) \in Nat /\ Len(N) \in Nat /\ Len(M \o N) = Len(M) + Len(N)
      /\ \A i \in 1..(Len(M) + Len(N)) :
           (M \o N)[i] = IF i <= Len(M) THEN M[i] ELSE N[i - Len(M)]
  BY ConcatProperties, LenProperties
<1> DEFINE C == M \o N
<1> HIDE DEF C
<1>2. ASSUME NEW i \in 1..Len(C)
      PROVE  \/ i \in 1..Len(M) /\ C[i] = M[i]
             \/ i - Len(M) \in 1..Len(N) /\ C[i] = N[i - Len(M)]
  BY <1>1 DEF C
<1>3. ASSUME NEW i \in 1..Len(C), C[i].text # ""
      PROVE  C[i].text \in S \cup T
  <2>1. CASE i \in 1..Len(M) /\ C[i] = M[i]
    BY <1>3, <2>1 DEF Spells
  <2>2. CASE i - Len(M) \in 1..Len(N) /\ C[i] = N[i - Len(M)]
    BY <1>3, <2>2 DEF Spells
  <2> QED
    BY <1>2, <2>1, <2>2
<1>4. ASSUME NEW i \in 1..Len(C), NEW j \in 1..Len(C), C[i].text # "", C[i].text = C[j].text
      PROVE  i = j
  <2>1. CASE i \in 1..Len(M) /\ C[i] = M[i] /\ j \in 1..Len(M) /\ C[j] = M[j]
    BY <1>4, <2>1 DEF Spells
  <2>2. CASE /\ i - Len(M) \in 1..Len(N) /\ C[i] = N[i - Len(M)]
             /\ j - Len(M) \in 1..Len(N) /\ C[j] = N[j - Len(M)]
    <3>1. i - Len(M) = j - Len(M)
      BY <1>4, <2>2 DEF Spells
    <3> QED
      BY <1>1, <3>1 DEF C
  <2>3. CASE i \in 1..Len(M) /\ C[i] = M[i] /\ j - Len(M) \in 1..Len(N) /\ C[j] = N[j - Len(M)]
    BY <1>4, <2>3 DEF Spells
  <2>4. CASE i - Len(M) \in 1..Len(N) /\ C[i] = N[i - Len(M)] /\ j \in 1..Len(M) /\ C[j] = M[j]
    BY <1>4, <2>4 DEF Spells
  <2> QED
    BY <1>2, <2>1, <2>2, <2>3, <2>4
<1> QED
  BY <1>3, <1>4 DEF Spells, C

LEMMA OneLong == \A i : Len(<<i>>) = 1 /\ <<i>>[1] = i
OBVIOUS

LEMMA OneOnly == \A k \in 1..1 : k = 1
OBVIOUS

LEMMA SpellsNothing ==
  ASSUME NEW N, N = <<>> \/ \E i \in CodeRecord : N = <<i>> /\ i.text = ""
  PROVE  Spells(N, {})
<1>1. CASE N = <<>>
  BY <1>1 DEF Spells
<1>2. ASSUME NEW i \in CodeRecord, N = <<i>>, i.text = ""
      PROVE  Spells(N, {})
  <2>1. Len(N) = 1 /\ N[1].text = ""
    BY <1>2, OneLong, Zenon
  <2>2. \A k \in 1..Len(N) : k = 1
    BY <2>1, OneOnly, Zenon
  <2> QED
    BY <2>1, <2>2 DEF Spells
<1> QED
  BY <1>1, <1>2

LEMMA SpellsLiteral ==
  ASSUME NEW texts, Separates(texts), NEW x \in Objects
  PROVE  Spells(Literal(x), texts[x])
<1>1. CASE Literal(x) = <<>>
  BY <1>1 DEF Spells
<1>2. ASSUME NEW i \in CodeRecord, Literal(x) = <<i>>, x.type \in LiteralTypes,
             i.text \in {"", x.text}
      PROVE  Spells(Literal(x), texts[x])
  <2>1. ~IsTree(x)
    BY <1>2 DEF IsTree, TreeTypes, LiteralTypes, NumberTypes
  <2>2. texts[x] = {x.text} \ {""}
    BY <1>2, <2>1 DEF Separates, TextsOf
  <2> DEFINE L == Literal(x)
  <2>3. Len(L) = 1 /\ L[1] = i
    BY <1>2, OneLong, Zenon
  <2> HIDE DEF L
  <2>4. \A k \in 1..Len(L) : k = 1
    BY <2>3
  <2>5. Spells(L, texts[x])
    BY <1>2, <2>2, <2>3, <2>4 DEF Spells
  <2> QED
    BY <2>5 DEF L
<1> QED
  BY <1>1, <1>2, LiteralCode

\* An object of an operation is still to be compiled.
LEMMA KeepsObject ==
  ASSUME NEW texts, NEW c \in CallRecord, NEW i \in 1..Len(c.objects), i \notin Gone(c)
  PROVE  \A t \in texts[c.objects[i]] : Has(texts, c, 0, i, t) /\ Keeps(texts, c, t)
BY DEF Has, Keeps

\* The objects at two places of a call.
LEMMA ObjectsApart ==
  ASSUME NEW texts, NEW c \in CallRecord, Single(texts, c),
         NEW i \in 1..Len(c.objects), i \notin Gone(c),
         NEW j \in 1..Len(c.objects), j \notin Gone(c), i # j
  PROVE  texts[c.objects[i]] \cap texts[c.objects[j]] = {}
<1> SUFFICES ASSUME NEW t \in texts[c.objects[i]], t \in texts[c.objects[j]] PROVE FALSE
  OBVIOUS
<1>1. Has(texts, c, 0, i, t) /\ Has(texts, c, 0, j, t)
  BY KeepsObject
<1> QED
  BY <1>1 DEF Single

-----------------------------------------------------------------------------
(* What the steps do to it.                                                 *)

LEMMA OnceGoesOn ==
  ASSUME PInv, NEW texts, Once(texts), Separates(texts), NEW d, NEW N, GoesOn(d, N),
         NEW T, Spells(N, T),
         Inherits(texts, Top, d), GivesUp(texts, Top, d, T)
  PROVE  Once(texts)'
<1>1. /\ Len(calls) \in Nat \ {0} /\ Len(calls') = Len(calls) /\ calls'[Len(calls)] = d
      /\ \A k \in 1..Len(calls) : k < Len(calls) => calls'[k] = calls[k]
  BY Calls, GoOn DEF GoesOn
<1>2. /\ Len(code) \in Nat /\ Len(N) \in Nat /\ Len(code') = Len(code) + Len(N)
      /\ \A i \in 1..(Len(code) + Len(N)) :
           code'[i] = IF i <= Len(code) THEN code[i] ELSE N[i - Len(code)]
  BY ConcatProperties, LenProperties DEF GoesOn, PInv, TypeOK
<1>3. ASSUME NEW k \in 1..Len(calls), NEW t, Keeps(texts, calls'[k], t)
      PROVE  Keeps(texts, calls[k], t)
  BY <1>1, <1>3 DEF Inherits, Top
<1>4. ASSUME NEW k \in 1..Len(calls')
      PROVE  Single(texts, calls'[k])
  <2>1. CASE k = Len(calls)
    BY <1>1, <2>1 DEF Inherits
  <2>2. CASE k # Len(calls)
    <3>1. k \in 1..Len(calls) /\ k < Len(calls)
      BY <1>1, <2>2
    <3> QED
      BY <1>1, <3>1 DEF Once
  <2> QED
    BY <2>1, <2>2
<1>5. \A t : \A k, m \in 1..Len(calls') :
        Keeps(texts, calls'[k], t) /\ Keeps(texts, calls'[m], t) => k = m
  BY <1>1, <1>3 DEF Once
<1>6. ASSUME NEW i \in 1..Len(code')
      PROVE  \/ i \in 1..Len(code) /\ code'[i] = code[i]
             \/ i - Len(code) \in 1..Len(N) /\ code'[i] = N[i - Len(code)]
  BY <1>2
<1>7. ASSUME NEW t, NEW k \in 1..Len(calls'), Keeps(texts, calls'[k], t),
             NEW i \in 1..Len(code'), t # ""
      PROVE  code'[i].text # t
  <2> SUFFICES ASSUME code'[i].text = t PROVE FALSE
    OBVIOUS
  <2>0. k \in 1..Len(calls) /\ Len(calls) \in 1..Len(calls)
    BY <1>1
  <2>1. Keeps(texts, calls[k], t) /\ k \in 1..Len(calls) /\ Len(calls) \in 1..Len(calls)
    BY <1>3, <1>7, <2>0
  <2>2. CASE i \in 1..Len(code) /\ code'[i] = code[i]
    BY ONLY <1>7, <2>1, <2>2, Once(texts), code'[i].text = t DEF Once
  <2>3. CASE i - Len(code) \in 1..Len(N) /\ code'[i] = N[i - Len(code)]
    <3>1. t \in T
      BY <1>7, <2>3 DEF Spells
    <3>2. Keeps(texts, Top, t) /\ ~Keeps(texts, d, t)
      BY <3>1 DEF GivesUp
    <3>3. k = Len(calls)
      BY <2>1, <3>2 DEF Once, Top
    <3> QED
      BY <1>1, <1>7, <3>2, <3>3
  <2> QED
    BY <1>6, <2>2, <2>3
<1>8. ASSUME NEW i \in 1..Len(code'), NEW j \in 1..Len(code'),
             code'[i].text # "", code'[i].text = code'[j].text
      PROVE  i = j
  <2>1. ASSUME NEW a \in 1..Len(code), NEW b \in 1..Len(N), code[a].text = N[b].text, N[b].text # ""
        PROVE  FALSE
    <3>1. N[b].text \in T
      BY <2>1 DEF Spells
    <3>2. Keeps(texts, calls[Len(calls)], N[b].text) /\ Len(calls) \in 1..Len(calls)
      BY <1>1, <3>1 DEF GivesUp, Top
    <3> QED
      BY <2>1, <3>2 DEF Once
  <2>2. CASE i \in 1..Len(code) /\ code'[i] = code[i] /\ j \in 1..Len(code) /\ code'[j] = code[j]
    BY <1>8, <2>2 DEF Once
  <2>3. CASE /\ i - Len(code) \in 1..Len(N) /\ code'[i] = N[i - Len(code)]
             /\ j - Len(code) \in 1..Len(N) /\ code'[j] = N[j - Len(code)]
    <3>1. i - Len(code) = j - Len(code)
      BY <1>8, <2>3 DEF Spells
    <3> QED
      BY <1>2, <3>1
  <2>4. CASE /\ i \in 1..Len(code) /\ code'[i] = code[i]
             /\ j - Len(code) \in 1..Len(N) /\ code'[j] = N[j - Len(code)]
    BY <1>8, <2>1, <2>4
  <2>5. CASE /\ i - Len(code) \in 1..Len(N) /\ code'[i] = N[i - Len(code)]
             /\ j \in 1..Len(code) /\ code'[j] = code[j]
    BY <1>8, <2>1, <2>5
  <2> QED
    BY <1>6, <2>2, <2>3, <2>4, <2>5
<1> QED
  BY <1>4, <1>5, <1>7, <1>8 DEF Once

LEMMA OnceDescends ==
  ASSUME PInv, NEW texts, Once(texts), Separates(texts),
         NEW d, NEW l, NEW N, Descends(d, l, N),
         NEW T, Spells(N, T),
         Inherits(texts, Top, d), GivesUp(texts, Top, d, T),
         Apart(texts, l),
         \A i \in 1..Len(l) : GivesUp(texts, Top, d, texts[l[i]]) /\ texts[l[i]] \cap T = {}
  PROVE  Once(texts)'
<1> DEFINE n == Len(calls)
           new == CallOn(l)
<1>1. /\ n \in Nat \ {0} /\ Len(calls') = n + 1
      /\ calls'[n] = d /\ calls'[n + 1] = new
      /\ \A k \in 1..n : k < n => calls'[k] = calls[k]
  <2>1. n \in Nat \ {0}
    BY Calls
  <2>2. /\ SetTop(d) \in Seq(CallRecord) /\ Len(SetTop(d)) = n /\ SetTop(d)[n] = d
        /\ \A k \in 1..n : k < n => SetTop(d)[k] = calls[k]
    BY GoOn DEF Descends
  <2>3. new \in CallRecord /\ calls' = Append(SetTop(d), new)
    BY NewCall DEF Descends, Descend
  <2> HIDE DEF new
  <2>4. Len(calls') = Len(SetTop(d)) + 1 /\ calls'[Len(SetTop(d)) + 1] = new
        /\ \A k \in 1..Len(SetTop(d)) : calls'[k] = SetTop(d)[k]
    BY <2>2, <2>3, AppendProperties
  <2> HIDE DEF n
  <2> QED
    BY <2>1, <2>2, <2>4
<1>2. /\ Len(code) \in Nat /\ Len(N) \in Nat /\ Len(code') = Len(code) + Len(N)
      /\ \A i \in 1..(Len(code) + Len(N)) :
           code'[i] = IF i <= Len(code) THEN code[i] ELSE N[i - Len(code)]
  BY ConcatProperties, LenProperties DEF Descends, PInv, TypeOK
<1>3. \A t, r, i : Has(texts, new, r, i, t) <=> r = 0 /\ i \in 1..Len(l) /\ t \in texts[l[i]]
  <2>1. new.objects = l /\ new.rest = <<>> /\ Gone(new) = {} /\ Len(new.rest) = 0
    BY DEF CallOn, Gone
  <2> HIDE DEF new
  <2> QED
    BY <2>1 DEF Has
<1>4. Single(texts, new)
  <2> HIDE DEF new
  <2> SUFFICES ASSUME NEW t, NEW r, NEW i, NEW s, NEW j,
                      Has(texts, new, r, i, t), Has(texts, new, s, j, t)
               PROVE  r = s /\ i = j
    BY Zenon DEF Single
  <2>1. /\ r = 0 /\ i \in 1..Len(l) /\ t \in texts[l[i]]
        /\ s = 0 /\ j \in 1..Len(l) /\ t \in texts[l[j]]
    BY <1>3
  <2> QED
    BY <2>1 DEF Apart
<1>5. \A t : Keeps(texts, new, t) => Keeps(texts, Top, t) /\ ~Keeps(texts, d, t) /\ t \notin T
  <2> HIDE DEF new
  <2> QED
    BY <1>3 DEF Keeps, GivesUp
<1> HIDE DEF n, new
<1>6. ASSUME NEW k \in 1..(n + 1)
      PROVE  \/ k \in 1..n /\ k < n /\ calls'[k] = calls[k]
             \/ k = n /\ calls'[k] = d
             \/ k = n + 1 /\ calls'[k] = new
  BY <1>1
<1>7. \A k \in 1..Len(calls') : Single(texts, calls'[k])
  <2> SUFFICES ASSUME NEW k \in 1..(n + 1) PROVE Single(texts, calls'[k])
    BY <1>1
  <2>1. CASE k \in 1..n /\ k < n /\ calls'[k] = calls[k]
    BY <2>1 DEF Once, n
  <2> QED
    BY <1>4, <1>6, <2>1 DEF Inherits
\* The call that kept a text before.
<1>8. ASSUME NEW k \in 1..(n + 1), NEW t, Keeps(texts, calls'[k], t)
      PROVE  \E m \in 1..n : /\ Keeps(texts, calls[m], t)
                             /\ k < n => m = k
                             /\ k >= n => m = n
  <2>1. n \in 1..n /\ Top = calls[n] /\ n \in Nat
    BY <1>1 DEF Top, n
  <2>2. CASE k \in 1..n /\ k < n /\ calls'[k] = calls[k]
    BY <1>8, <2>1, <2>2
  <2>3. CASE k = n /\ calls'[k] = d
    BY <1>8, <2>1, <2>3 DEF Inherits
  <2>4. CASE k = n + 1 /\ calls'[k] = new
    BY <1>5, <1>8, <2>1, <2>4
  <2> QED
    BY <1>6, <2>2, <2>3, <2>4
<1>9. ASSUME NEW t, NEW k \in 1..(n + 1), NEW m \in 1..(n + 1),
             Keeps(texts, calls'[k], t), Keeps(texts, calls'[m], t)
      PROVE  k = m
  <2>1. PICK a \in 1..n : Keeps(texts, calls[a], t) /\ (k < n => a = k) /\ (k >= n => a = n)
    BY <1>8, <1>9
  <2>2. PICK b \in 1..n : Keeps(texts, calls[b], t) /\ (m < n => b = m) /\ (m >= n => b = n)
    BY <1>8, <1>9
  <2>3. a = b
    BY <2>1, <2>2 DEF Once, n
  <2>4. ~(k = n /\ m = n + 1) /\ ~(k = n + 1 /\ m = n)
    BY <1>1, <1>5, <1>9
  <2>5. n \in Nat
    BY <1>1
  <2> QED
    BY <2>1, <2>2, <2>3, <2>4, <2>5
<1>10. ASSUME NEW i \in 1..Len(code')
       PROVE  \/ i \in 1..Len(code) /\ code'[i] = code[i]
              \/ i - Len(code) \in 1..Len(N) /\ code'[i] = N[i - Len(code)]
  BY <1>2
<1>11. ASSUME NEW t, NEW k \in 1..(n + 1), Keeps(texts, calls'[k], t),
              NEW i \in 1..Len(code'), t # ""
       PROVE  code'[i].text # t
  <2> SUFFICES ASSUME code'[i].text = t PROVE FALSE
    OBVIOUS
  <2>1. PICK a \in 1..n : Keeps(texts, calls[a], t) /\ (k < n => a = k) /\ (k >= n => a = n)
    BY <1>8, <1>11
  <2>2. CASE i \in 1..Len(code) /\ code'[i] = code[i]
    BY ONLY <1>11, <2>1, <2>2, Once(texts), code'[i].text = t DEF Once, n
  <2>3. CASE i - Len(code) \in 1..Len(N) /\ code'[i] = N[i - Len(code)]
    <3>1. t \in T
      BY <1>11, <2>3 DEF Spells
    <3>2. Keeps(texts, Top, t) /\ ~Keeps(texts, d, t) /\ ~Keeps(texts, new, t)
      BY <1>5, <3>1 DEF GivesUp
    <3>3. a = n
      <4>1. n \in 1..Len(calls) /\ a \in 1..Len(calls) /\ Top = calls[n]
        BY <1>1 DEF Top, n
      <4> QED
        BY <2>1, <3>2, <4>1 DEF Once
    <3>4. k = n \/ k = n + 1
      BY <1>1, <2>1, <3>3
    <3> QED
      BY <1>1, <1>11, <3>2, <3>4
  <2> QED
    BY <1>10, <2>2, <2>3
<1>12. ASSUME NEW i \in 1..Len(code'), NEW j \in 1..Len(code'),
              code'[i].text # "", code'[i].text = code'[j].text
       PROVE  i = j
  <2>1. ASSUME NEW a \in 1..Len(code), NEW b \in 1..Len(N), code[a].text = N[b].text, N[b].text # ""
        PROVE  FALSE
    <3>1. N[b].text \in T
      BY <2>1 DEF Spells
    <3>2. Keeps(texts, calls[Len(calls)], N[b].text)
      BY <3>1 DEF GivesUp, Top
    <3>3. Len(calls) \in 1..Len(calls)
      BY Calls
    <3> QED
      BY <2>1, <3>2, <3>3 DEF Once
  <2>2. CASE i \in 1..Len(code) /\ code'[i] = code[i] /\ j \in 1..Len(code) /\ code'[j] = code[j]
    BY <1>12, <2>2 DEF Once
  <2>3. CASE /\ i - Len(code) \in 1..Len(N) /\ code'[i] = N[i - Len(code)]
             /\ j - Len(code) \in 1..Len(N) /\ code'[j] = N[j - Len(code)]
    <3>1. i - Len(code) = j - Len(code)
      BY <1>12, <2>3 DEF Spells
    <3> QED
      BY <1>2, <3>1
  <2>4. CASE /\ i \in 1..Len(code) /\ code'[i] = code[i]
             /\ j - Len(code) \in 1..Len(N) /\ code'[j] = N[j - Len(code)]
    BY <1>12, <2>1, <2>4
  <2>5. CASE /\ i - Len(code) \in 1..Len(N) /\ code'[i] = N[i - Len(code)]
             /\ j \in 1..Len(code) /\ code'[j] = code[j]
    BY <1>12, <2>1, <2>5
  <2> QED
    BY <1>10, <2>2, <2>3, <2>4, <2>5
<1>13. Len(calls') = n + 1
  BY <1>1
<1> QED
  BY <1>7, <1>9, <1>11, <1>12, <1>13 DEF Once

LEMMA OnceReturns ==
  ASSUME PInv, NEW texts, Once(texts), NEW d, Returns(d), Inherits(texts, Caller, d)
  PROVE  Once(texts)'
<1>1. Len(calls) \in Nat /\ Len(calls) > 1
  BY Calls DEF Returns
<1>2. /\ Len(calls') = Len(calls) - 1 /\ calls'[Len(calls) - 1] = d
      /\ \A k \in 1..(Len(calls) - 2) : calls'[k] = calls[k]
  BY ReturnP DEF Returns
<1>3. code' = code
  BY DEF Returns
<1>4. ASSUME NEW k \in 1..Len(calls')
      PROVE  /\ k \in 1..Len(calls)
             /\ \/ calls'[k] = calls[k]
                \/ calls'[k] = d /\ calls[k] = Caller
  BY <1>1, <1>2 DEF Caller
<1>5. \A k \in 1..Len(calls') : \A t : Keeps(texts, calls'[k], t) => Keeps(texts, calls[k], t)
  BY <1>4 DEF Inherits
<1>6. \A k \in 1..Len(calls') : Single(texts, calls'[k])
  BY <1>4 DEF Inherits, Once
<1>7. \A t : \A k, m \in 1..Len(calls') :
        Keeps(texts, calls'[k], t) /\ Keeps(texts, calls'[m], t) => k = m
  BY <1>4, <1>5 DEF Once
<1>8. \A t : \A k \in 1..Len(calls') :
        t # "" /\ Keeps(texts, calls'[k], t) => \A i \in 1..Len(code') : code'[i].text # t
  BY <1>3, <1>4, <1>5 DEF Once
<1>9. \A i, j \in 1..Len(code') : code'[i].text # "" /\ code'[i].text = code'[j].text => i = j
  BY <1>3 DEF Once
<1> QED
  BY <1>6, <1>7, <1>8, <1>9 DEF Once

-----------------------------------------------------------------------------
(* What a call has still to compile after each of its steps.                *)

\* A call that only turns to something else.
LEMMA InheritsTurned ==
  ASSUME NEW texts, NEW c \in CallRecord, NEW d \in CallRecord, Single(texts, c),
         d.objects = c.objects, d.rest = c.rest, Gone(c) \subseteq Gone(d)
  PROVE  /\ Inherits(texts, c, d)
         /\ \A i \in 1..Len(c.objects) :
              i \in Gone(d) /\ i \notin Gone(c) => GivesUp(texts, c, d, texts[c.objects[i]])
<1>1. \A r, i, t : Has(texts, d, r, i, t) => Has(texts, c, r, i, t)
  BY DEF Has
<1>2. Inherits(texts, c, d)
  BY <1>1 DEF Inherits, Single, Keeps
<1>3. ASSUME NEW i \in 1..Len(c.objects), i \in Gone(d), i \notin Gone(c),
             NEW t \in texts[c.objects[i]]
      PROVE  Keeps(texts, c, t) /\ ~Keeps(texts, d, t)
  <2>1. Has(texts, c, 0, i, t)
    BY <1>3 DEF Has
  <2>2. ASSUME NEW r, NEW j, Has(texts, d, r, j, t) PROVE FALSE
    <3>1. r = 0 /\ j = i
      BY <1>1, <2>1, <2>2 DEF Single
    <3>2. \A s \in 1..Len(c.rest) : s # 0
      <4>1. Len(c.rest) \in Nat
        BY CallType
      <4> QED
        BY <4>1
    <3>3. i \notin Gone(d)
      BY <2>2, <3>1, <3>2 DEF Has
    <3> QED
      BY <1>3, <3>3
  <2> QED
    BY <2>1, <2>2 DEF Keeps
<1> QED
  BY <1>2, <1>3 DEF GivesUp

\* A call that has replaced what it was at.
LEMMA InheritsShortened ==
  ASSUME NEW texts, Separates(texts), NEW c \in CallRecord, Single(texts, c),
         NEW count \in 1..3, c.at + count <= Len(c.objects), c.rest = <<>>,
         Gone(c) \subseteq (c.at + 1)..(c.at + count),
         NEW doing \in {"loop", "BINARY_OP"}
  PROVE  /\ Inherits(texts, c, Shortened(c, count, doing))
         /\ \A i \in (c.at + 1)..(c.at + count) :
              i \notin Gone(c) => GivesUp(texts, c, Shortened(c, count, doing), texts[c.objects[i]])
<1> DEFINE d == Shortened(c, count, doing)
           n == Len(c.objects)
           l == c.objects
           p == c.at
<1>1. l \in Lists /\ n \in Nat /\ p \in Nat
  BY CallType
<1>2. /\ d \in CallRecord /\ d.objects = ReplaceWithEmpty(l, p, count)
      /\ d.rest = <<>> /\ d.doing = doing
  BY ShortenedIs DEF Doings
<1>3. /\ Len(d.objects) = n - count + 1
      /\ \A i \in 1..(n - count + 1) :
           d.objects[i] = IF i <= p THEN l[i]
                          ELSE IF i = p + 1 THEN EmptyToken ELSE l[i + count - 1]
  <2>1. count \in Nat \ {0} /\ p + count <= n /\ n = Len(l)
    OBVIOUS
  <2> HIDE DEF d, n, l, p
  <2>2. /\ Len(ReplaceWithEmpty(l, p, count)) = n - count + 1
        /\ \A i \in 1..(n - count + 1) :
             ReplaceWithEmpty(l, p, count)[i] =
               IF i <= p THEN l[i]
               ELSE IF i = p + 1 THEN EmptyToken ELSE l[i + count - 1]
    <3>1. p + count <= Len(l)
      BY <2>1
    <3>2. /\ Len(ReplaceWithEmpty(l, p, count)) = Len(l) - count + 1
          /\ \A i \in 1..(Len(l) - count + 1) :
               ReplaceWithEmpty(l, p, count)[i] =
                 IF i <= p THEN l[i]
                 ELSE IF i = p + 1 THEN EmptyToken ELSE l[i + count - 1]
      BY <1>1, <2>1, <3>1, Replacing, ZenonT(60)
    <3> QED
      BY <2>1, <3>2, Zenon
  <2> QED
    BY <1>2, <2>2
<1>4. Gone(d) = {} /\ Len(d.rest) = 0 /\ Len(c.rest) = 0
  BY <1>2 DEF Gone
<1>5. texts[EmptyToken] = {}
  <2>1. EmptyToken \in Objects /\ ~IsTree(EmptyToken) /\ EmptyToken.type \notin LiteralTypes
    BY ObjectsAssumption DEF EmptyToken, IsTree, TreeTypes, LiteralTypes, NumberTypes
  <2> QED
    BY <2>1 DEF Separates, TextsOf
<1> HIDE DEF d, n, l, p
\* Where an object of the new list was in the old one.
<1> DEFINE Was(i) == IF i <= p THEN i ELSE i + count - 1
<1>6. ASSUME NEW r, NEW i, NEW t, Has(texts, d, r, i, t)
      PROVE  /\ r = 0 /\ i \in 1..(n - count + 1) /\ i # p + 1
             /\ Was(i) \in 1..n /\ Was(i) \notin (p + 1)..(p + count)
             /\ Has(texts, c, 0, Was(i), t)
  <2>1. r = 0 /\ i \in 1..(n - count + 1) /\ t \in texts[d.objects[i]]
    BY <1>3, <1>4, <1>6 DEF Has
  <2>2. i # p + 1
    BY <1>1, <1>3, <1>5, <2>1
  <2>3. Was(i) \in 1..n /\ Was(i) \notin (p + 1)..(p + count) /\ d.objects[i] = l[Was(i)]
    <3>0. n \in Nat /\ p \in Nat /\ p + count <= n
      BY <1>1 DEF n, l, p
    <3>1. CASE i <= p
      <4>1. Was(i) = i
        BY <3>1
      <4>2. i \in 1..n /\ i \notin (p + 1)..(p + count)
        BY <2>1, <3>0, <3>1
      <4>3. d.objects[i] = l[i]
        BY <1>3, <2>1, <3>1
      <4> QED
        BY <4>1, <4>2, <4>3
    <3>2. CASE ~(i <= p)
      <4>1. Was(i) = i + count - 1
        BY <3>2
      <4>2. i + count - 1 \in 1..n /\ i + count - 1 \notin (p + 1)..(p + count)
        BY <2>1, <2>2, <3>0, <3>2
      <4>3. d.objects[i] = l[i + count - 1]
        BY <1>3, <2>1, <2>2, <3>2
      <4> QED
        BY <4>1, <4>2, <4>3
    <3> QED
      BY <3>1, <3>2
  <2>4. Has(texts, c, 0, Was(i), t)
    <3> HIDE DEF Was
    <3> QED
      BY <2>1, <2>3 DEF Has, n, l, p
  <2> QED
    BY <2>1, <2>2, <2>3, <2>4
<1>7. ASSUME NEW i \in 1..(n - count + 1), i # p + 1, NEW j \in 1..(n - count + 1), j # p + 1,
             Was(i) = Was(j)
      PROVE  i = j
  <2>1. n \in Nat /\ p \in Nat /\ count \in 1..3
    BY <1>1
  <2> QED
    BY <1>7, <2>1
<1> HIDE DEF Was
<1>8. Single(texts, d)
  <2> SUFFICES ASSUME NEW t, NEW r, NEW i, NEW s, NEW j,
                      Has(texts, d, r, i, t), Has(texts, d, s, j, t)
               PROVE  r = s /\ i = j
    BY Zenon DEF Single
  <2>1. Was(i) = Was(j)
    BY <1>6 DEF Single
  <2> QED
    BY <1>6, <1>7, <2>1
<1>9. Inherits(texts, c, d)
  BY <1>6, <1>8 DEF Inherits, Keeps
<1>10. ASSUME NEW i \in (p + 1)..(p + count), i \notin Gone(c), NEW t \in texts[l[i]]
       PROVE  Keeps(texts, c, t) /\ ~Keeps(texts, d, t)
  <2>1. i \in 1..n
    BY <1>1 DEF n, l, p
  <2>2. Has(texts, c, 0, i, t)
    BY <1>10, <2>1 DEF Has, n, l
  <2>3. ASSUME NEW r, NEW j, Has(texts, d, r, j, t) PROVE FALSE
    <3>1. Has(texts, c, 0, Was(j), t) /\ Was(j) \notin (p + 1)..(p + count)
      BY <1>6, <2>3
    <3>2. Was(j) = i
      BY <2>2, <3>1 DEF Single
    <3> QED
      BY <3>1, <3>2
  <2> QED
    BY <2>2, <2>3 DEF Keeps
<1> QED
  BY <1>9, <1>10 DEF GivesUp, d, l, p

\* No two objects of the arguments of a call are at the same place of its list.
LEMMA ArgumentPlaces ==
  ASSUME NEW l \in Lists
  PROVE  \A r, s \in 1..Len(SplitByComma(l)) :
           \A i \in 1..Len(SplitByComma(l)[r]), j \in 1..Len(SplitByComma(l)[s]) :
             Comma(l, r - 1) + i = Comma(l, s - 1) + j => r = s /\ i = j
<1> SUFFICES ASSUME NEW r \in 1..Len(SplitByComma(l)), NEW s \in 1..Len(SplitByComma(l)),
                    NEW i \in 1..Len(SplitByComma(l)[r]),
                    NEW j \in 1..Len(SplitByComma(l)[s]),
                    Comma(l, r - 1) + i = Comma(l, s - 1) + j
             PROVE  r = s /\ i = j
  BY Zenon
<1> DEFINE n == Cardinality(Commas(l))
<1>1. n \in Nat /\ Len(l) \in Nat
  BY CommasFinite, LenProperties DEF Lists
<1>2. Len(SplitByComma(l)) \in Nat /\ Len(SplitByComma(l)) <= n + 1
  <2> DEFINE Piece(k) == SubSeq(l, Comma(l, k - 1) + 1, Comma(l, k) - 1)
             q == Cardinality(Commas(l)) + 1
             m == IF Piece(q) = <<>> THEN q - 1 ELSE q
  <2>1. SplitByComma(l) = [k \in 1..m |-> Piece(k)]
    BY DEF SplitByComma
  <2>2. m \in Nat /\ m <= n + 1
    <3>1. q \in Nat \ {0} /\ q = n + 1
      BY <1>1
    <3> HIDE DEF q, Piece, n
    <3> QED
      BY <1>1, <3>1
  <2> HIDE DEF m, Piece
  <2>3. Len(SplitByComma(l)) = m
    BY <2>1, <2>2
  <2> QED
    BY <2>2, <2>3
<1>3. /\ r \in 1..(n + 1) /\ s \in 1..(n + 1) /\ i \in Nat \ {0} /\ j \in Nat \ {0}
  <2>1. SplitByComma(l)[r] \in Lists /\ SplitByComma(l)[s] \in Lists
    BY Pieces, ElementOfSeq
  <2>2. Len(SplitByComma(l)[r]) \in Nat /\ Len(SplitByComma(l)[s]) \in Nat
    BY <2>1, LenProperties DEF Lists
  <2> QED
    BY <1>1, <1>2, <2>2
<1>4. /\ Comma(l, r - 1) + i < Comma(l, r) /\ Comma(l, s - 1) + j < Comma(l, s)
  BY Pieces
<1>5. \A a \in 0..(n + 1) : Comma(l, a) \in Nat
  BY CommaOrder
<1>6. \A a, b \in 0..(n + 1) : a < b => Comma(l, a) < Comma(l, b)
  BY CommaOrder
<1> HIDE DEF n
<1>7. /\ r \in 0..(n + 1) /\ r - 1 \in 0..(n + 1) /\ s \in 0..(n + 1) /\ s - 1 \in 0..(n + 1)
  BY <1>1, <1>3
<1>8. CASE r < s
  <2>1. r = s - 1 \/ r < s - 1
    BY <1>3, <1>8
  <2>2. Comma(l, r) <= Comma(l, s - 1)
    BY <1>5, <1>6, <1>7, <2>1
  <2> QED
    BY <1>3, <1>4, <1>5, <1>7, <2>2
<1>9. CASE s < r
  <2>1. s = r - 1 \/ s < r - 1
    BY <1>3, <1>9
  <2>2. Comma(l, s) <= Comma(l, r - 1)
    BY <1>5, <1>6, <1>7, <2>1
  <2> QED
    BY <1>3, <1>4, <1>5, <1>7, <2>2
<1>10. CASE r = s
  <2>1. Comma(l, r - 1) \in Nat /\ Comma(l, r - 1) = Comma(l, s - 1)
    BY <1>5, <1>7, <1>10
  <2> QED
    BY <1>3, <1>10, <2>1
<1> QED
  BY <1>3, <1>8, <1>9, <1>10

\* A call that has cut its arguments apart.
LEMMA InheritsPassing ==
  ASSUME NEW texts, Separates(texts), NEW c \in CallRecord, Single(texts, c),
         c.rest = <<>>, Gone(c) = {}, c.at + 2 <= Len(c.objects),
         IsTree(c.objects[c.at + 2]),
         NEW d \in CallRecord, d.objects = c.objects, d.at = c.at,
         d.doing = "arguments", d.rest = SplitByComma(c.objects[c.at + 2].objects)
  PROVE  Inherits(texts, c, d) /\ GivesUp(texts, c, d, texts[c.objects[c.at + 1]])
<1> DEFINE x == c.objects[c.at + 2]
           l == x.objects
           P(r, i) == Comma(l, r - 1) + i
<1>1. /\ Len(c.objects) \in Nat /\ c.at \in Nat /\ c.at + 1 \in 1..Len(c.objects)
      /\ c.at + 2 \in 1..Len(c.objects) /\ c.at + 1 # c.at + 2
      /\ Len(c.rest) = 0
  BY CallType
<1>2. x \in Objects /\ l \in Lists
  BY <1>1, CallType, TreeObjects
<1>3. texts[x] = UNION {texts[l[i]] : i \in 1..Len(l)} /\ Apart(texts, l)
  BY <1>2 DEF Separates, TextsOf
<1>4. Gone(d) = {c.at + 1, c.at + 2}
  BY DEF Gone
<1>a. d.rest = SplitByComma(l)
  OBVIOUS
<1> HIDE DEF l
<1>5. ASSUME NEW r \in 1..Len(d.rest), NEW i \in 1..Len(d.rest[r])
      PROVE  P(r, i) \in 1..Len(l) /\ d.rest[r][i] = l[P(r, i)]
  <2>1. r \in 1..Len(SplitByComma(l)) /\ i \in 1..Len(SplitByComma(l)[r])
    BY <1>5, <1>a
  <2>2. /\ Comma(l, r - 1) + i \in 1..Len(l)
        /\ SplitByComma(l)[r][i] = l[Comma(l, r - 1) + i]
    BY <1>2, <2>1, Pieces
  <2> QED
    BY <1>a, <2>2, Zenon
<1>6. ASSUME NEW r \in 1..Len(d.rest), NEW i \in 1..Len(d.rest[r]),
             NEW s \in 1..Len(d.rest), NEW j \in 1..Len(d.rest[s]), P(r, i) = P(s, j)
      PROVE  r = s /\ i = j
  <2>1. /\ r \in 1..Len(SplitByComma(l)) /\ i \in 1..Len(SplitByComma(l)[r])
        /\ s \in 1..Len(SplitByComma(l)) /\ j \in 1..Len(SplitByComma(l)[s])
        /\ Comma(l, r - 1) + i = Comma(l, s - 1) + j
    BY <1>6, <1>a, Zenon
  <2>2. \A a, b \in 1..Len(SplitByComma(l)) :
          \A e \in 1..Len(SplitByComma(l)[a]), f \in 1..Len(SplitByComma(l)[b]) :
            Comma(l, a - 1) + e = Comma(l, b - 1) + f => a = b /\ e = f
    BY <1>2, ArgumentPlaces
  <2> QED
    BY ONLY <2>1, <2>2
<1>7. Len(d.rest) \in Nat
  BY CallType
<1> HIDE DEF P
<1>8. ASSUME NEW r, NEW i, NEW t, Has(texts, d, r, i, t)
      PROVE  \/ r = 0 /\ i \notin {c.at + 1, c.at + 2} /\ Has(texts, c, 0, i, t)
             \/ /\ r \in 1..Len(d.rest) /\ i \in 1..Len(d.rest[r])
                /\ P(r, i) \in 1..Len(l) /\ t \in texts[l[P(r, i)]]
                /\ Has(texts, c, 0, c.at + 2, t)
  <2>1. CASE r = 0 /\ i \in 1..Len(d.objects) /\ i \notin Gone(d) /\ t \in texts[d.objects[i]]
    BY <1>4, <2>1 DEF Has
  <2>2. CASE r \in 1..Len(d.rest) /\ i \in 1..Len(d.rest[r]) /\ t \in texts[d.rest[r][i]]
    <3>1. P(r, i) \in 1..Len(l) /\ t \in texts[l[P(r, i)]]
      BY <1>5, <2>2
    <3>2. t \in texts[x]
      BY <1>3, <3>1
    <3>3. Has(texts, c, 0, c.at + 2, t)
      BY <1>1, <3>2 DEF Has
    <3> QED
      BY <2>2, <3>1, <3>3
  <2> QED
    BY <1>8, <2>1, <2>2 DEF Has
<1>9. Single(texts, d)
  <2> SUFFICES ASSUME NEW t, NEW r, NEW i, NEW s, NEW j,
                      Has(texts, d, r, i, t), Has(texts, d, s, j, t)
               PROVE  r = s /\ i = j
    BY Zenon DEF Single
  <2> DEFINE Here(a, b) == /\ a \in 1..Len(d.rest) /\ b \in 1..Len(d.rest[a])
                           /\ P(a, b) \in 1..Len(l) /\ t \in texts[l[P(a, b)]]
  <2>1. \/ r = 0 /\ i \notin {c.at + 1, c.at + 2} /\ Has(texts, c, 0, i, t)
        \/ Here(r, i) /\ Has(texts, c, 0, c.at + 2, t)
    BY <1>8
  <2>2. \/ s = 0 /\ j \notin {c.at + 1, c.at + 2} /\ Has(texts, c, 0, j, t)
        \/ Here(s, j) /\ Has(texts, c, 0, c.at + 2, t)
    BY <1>8
  <2>3. CASE r = 0 /\ Has(texts, c, 0, i, t) /\ s = 0 /\ Has(texts, c, 0, j, t)
    BY <2>3 DEF Single
  <2>4. CASE Here(r, i) /\ Here(s, j)
    <3>1. P(r, i) = P(s, j)
      BY <1>3, <2>4 DEF Apart
    <3>2. /\ r \in 1..Len(d.rest) /\ i \in 1..Len(d.rest[r])
          /\ s \in 1..Len(d.rest) /\ j \in 1..Len(d.rest[s])
      BY <2>4, Zenon
    <3> HIDE DEF P
    <3> QED
      BY ONLY <1>6, <3>1, <3>2
  <2> HIDE DEF Here
  <2>5. \A k : k \notin {c.at + 1, c.at + 2} /\ Has(texts, c, 0, k, t)
                 => ~Has(texts, c, 0, c.at + 2, t)
    BY DEF Single
  <2> QED
    BY <2>1, <2>2, <2>3, <2>4, <2>5
<1>10. \A t : Keeps(texts, d, t) => Keeps(texts, c, t)
  BY <1>8 DEF Keeps
<1>11. ASSUME NEW t \in texts[c.objects[c.at + 1]]
       PROVE  Keeps(texts, c, t) /\ ~Keeps(texts, d, t)
  <2>1. Has(texts, c, 0, c.at + 1, t)
    BY <1>1 DEF Has
  <2>2. ASSUME NEW r, NEW i, Has(texts, d, r, i, t) PROVE FALSE
    <3>1. \/ i \notin {c.at + 1, c.at + 2} /\ Has(texts, c, 0, i, t)
          \/ Has(texts, c, 0, c.at + 2, t)
      BY <1>8, <2>2
    <3> QED
      BY <1>1, <2>1, <3>1 DEF Single
  <2> QED
    BY <2>1, <2>2 DEF Keeps
<1> QED
  BY <1>9, <1>10, <1>11 DEF Inherits, GivesUp

\* A call that passes the first argument that is left to a call of its own.
LEMMA InheritsPassed ==
  ASSUME NEW texts, NEW c \in CallRecord, Single(texts, c), c.rest # <<>>,
         NEW d \in CallRecord, d.objects = c.objects, d.at = c.at,
         d.doing = c.doing, d.rest = Tail(c.rest)
  PROVE  /\ Inherits(texts, c, d)
         /\ Apart(texts, Head(c.rest))
         /\ \A i \in 1..Len(Head(c.rest)) : GivesUp(texts, c, d, texts[Head(c.rest)[i]])
<1> DEFINE l == Head(c.rest)
<1>1. /\ c.rest \in Seq(Lists) /\ Len(c.rest) \in Nat \ {0}
      /\ l = c.rest[1]
      /\ Len(d.rest) = Len(c.rest) - 1
      /\ \A r \in 1..(Len(c.rest) - 1) : d.rest[r] = c.rest[r + 1]
  BY CallType, HeadTailProperties, EmptySeq
<1>2. Gone(d) = Gone(c)
  BY DEF Gone
<1> HIDE DEF l
<1>3. 1 \in 1..Len(c.rest) /\ \A r \in 1..Len(d.rest) :
        r \in Nat /\ r + 1 \in 1..Len(c.rest) /\ r + 1 # 1 /\ r + 1 # 0 /\ d.rest[r] = c.rest[r + 1]
  BY <1>1
<1>4. ASSUME NEW r, NEW i, NEW t, Has(texts, d, r, i, t)
      PROVE  \/ r = 0 /\ Has(texts, c, 0, i, t)
             \/ r \in 1..Len(d.rest) /\ Has(texts, c, r + 1, i, t)
  <2>1. CASE r = 0 /\ i \in 1..Len(d.objects) /\ i \notin Gone(d) /\ t \in texts[d.objects[i]]
    BY <1>2, <2>1 DEF Has
  <2>2. CASE r \in 1..Len(d.rest) /\ i \in 1..Len(d.rest[r]) /\ t \in texts[d.rest[r][i]]
    BY <1>3, <2>2 DEF Has
  <2> QED
    BY <1>4, <2>1, <2>2 DEF Has
<1>5. Single(texts, d)
  <2> SUFFICES ASSUME NEW t, NEW r, NEW i, NEW s, NEW j,
                      Has(texts, d, r, i, t), Has(texts, d, s, j, t)
               PROVE  r = s /\ i = j
    BY Zenon DEF Single
  <2>1. \/ r = 0 /\ Has(texts, c, 0, i, t)
        \/ r \in 1..Len(d.rest) /\ Has(texts, c, r + 1, i, t)
    BY <1>4
  <2>2. \/ s = 0 /\ Has(texts, c, 0, j, t)
        \/ s \in 1..Len(d.rest) /\ Has(texts, c, s + 1, j, t)
    BY <1>4
  <2>3. \A a, b, e, f : Has(texts, c, a, b, t) /\ Has(texts, c, e, f, t) => a = e /\ b = f
    BY DEF Single
  <2> QED
    BY <1>3, <2>1, <2>2, <2>3
<1>6. \A t : Keeps(texts, d, t) => Keeps(texts, c, t)
  BY <1>4 DEF Keeps
<1>7. \A i \in 1..Len(l) : \A t \in texts[l[i]] : Has(texts, c, 1, i, t)
  BY <1>1, <1>3 DEF Has
<1>8. Apart(texts, l)
  BY <1>7 DEF Apart, Single
<1>9. ASSUME NEW i \in 1..Len(l), NEW t \in texts[l[i]]
      PROVE  Keeps(texts, c, t) /\ ~Keeps(texts, d, t)
  <2>1. Has(texts, c, 1, i, t)
    BY <1>7
  <2>2. ASSUME NEW r, NEW j, Has(texts, d, r, j, t) PROVE FALSE
    <3>1. \E s : Has(texts, c, s, j, t) /\ s # 1
      BY <1>3, <1>4, <2>2
    <3> QED
      BY <2>1, <3>1 DEF Single
  <2> QED
    BY <2>1, <2>2 DEF Keeps
<1> QED
  BY <1>5, <1>6, <1>8, <1>9 DEF Inherits, GivesUp, l

-----------------------------------------------------------------------------
(* Each action.                                                             *)

LEMMA TreeTexts ==
  ASSUME NEW texts, Separates(texts), NEW x \in Objects, IsTree(x)
  PROVE  /\ Apart(texts, x.objects)
         /\ \A i \in 1..Len(x.objects) : texts[x.objects[i]] \subseteq texts[x]
<1>1. Apart(texts, x.objects) /\ texts[x] = TextsOf(texts, x)
  BY DEF Separates
<1>2. texts[x] = UNION {texts[x.objects[i]] : i \in 1..Len(x.objects)}
  BY <1>1 DEF TextsOf
<1> QED
  BY <1>1, <1>2

\* The innermost call, at an operation.
LEMMA TopAt ==
  ASSUME PInv, NEW texts, Once(texts)
  PROVE  /\ Top \in CallRecord /\ Single(texts, Top)
         /\ Top.at \in Nat /\ Len(Top.objects) \in Nat
         /\ Extent(Top) > 0 => Top.at + Extent(Top) <= Len(Top.objects)
         /\ Top.doing # "arguments" => Top.rest = <<>>
<1>1. Top \in CallRecord /\ Placed(Top) /\ Len(calls) \in 1..Len(calls)
  BY Calls
<1> QED
  BY <1>1, CallType DEF Placed, Once, Top

\* Nothing is given up.
LEMMA NothingGiven ==
  ASSUME NEW texts, NEW c, NEW d
  PROVE  Spells(<<>>, {}) /\ GivesUp(texts, c, d, {})
<1>1. Spells(<<>>, {})
  BY SpellsNothing
<1> QED
  BY <1>1 DEF GivesUp

LEMMA OnceGetOperation ==
  ASSUME PInv, NEW texts, Once(texts), Separates(texts), GetOperation
  PROVE  Once(texts)'
<1> DEFINE op == Operation(Top.objects)
           d == Chose(op)
<1>1. GoesOn(d, <<>>) /\ Top.doing = "loop" /\ op.type \in OperationTypes
  BY GetOperationStep
<1>2. d \in CallRecord /\ op.type \in Doings /\ Top \in CallRecord
  BY <1>1, TopAt DEF GoesOn, OperationTypes, Doings
<1> HIDE DEF op
<1>3. d.objects = Top.objects /\ d.rest = Top.rest
  BY DEF Chose
<1> HIDE DEF d
<1>4. Gone(Top) = {}
  BY <1>1 DEF Gone
<1>5. Inherits(texts, Top, d)
  BY <1>2, <1>3, <1>4, TopAt, InheritsTurned
<1> QED
  BY <1>1, <1>5, OnceGoesOn, NothingGiven

LEMMA OnceUnary ==
  ASSUME PInv, NEW texts, Once(texts), Separates(texts), CompileUnary
  PROVE  Once(texts)'
<1> DEFINE d == Shortened(Top, 2, "loop")
           T == texts[Second] \cup {}
           N == Literal(Second) \o UnaryInstruction(First)
<1>1. GoesOn(d, N) /\ Top.doing = "UNARY_OP"
  BY CompileUnaryStep
<1>2. Extent(Top) = 2 /\ Gone(Top) = {}
  BY <1>1 DEF Extent, Gone
<1>3. Second \in Objects /\ Second = Top.objects[Top.at + 2]
  BY <1>2, OperationObjects
<1>4. Spells(N, T)
  <2>1. Spells(Literal(Second), texts[Second]) /\ Spells(UnaryInstruction(First), {})
    BY <1>3, SpellsLiteral, SpellsNothing, PlainCode
  <2>2. Literal(Second) \in Seq(CodeRecord) /\ UnaryInstruction(First) \in Seq(CodeRecord)
    BY <1>3, LiteralCode, PlainInstructions
  <2> QED
    BY <2>1, <2>2, SpellsConcat
<1>5. Inherits(texts, Top, d) /\ GivesUp(texts, Top, d, texts[Second])
  <2>1. /\ Top \in CallRecord /\ Single(texts, Top) /\ Top.rest = <<>>
        /\ Top.at + 2 <= Len(Top.objects) /\ Top.at \in Nat
    BY <1>1, <1>2, TopAt
  <2>2. Top.at + 2 \in (Top.at + 1)..(Top.at + 2)
    BY <2>1
  <2> QED
    BY <1>2, <1>3, <2>1, <2>2, InheritsShortened
<1> HIDE DEF d, N
<1>6. GivesUp(texts, Top, d, T)
  BY <1>5 DEF GivesUp
<1> QED
  BY <1>1, <1>4, <1>5, <1>6, OnceGoesOn

LEMMA OnceBinary ==
  ASSUME PInv, NEW texts, Once(texts), Separates(texts), CompileBinary
  PROVE  Once(texts)'
<1> DEFINE d == Shortened(Top, 3, "loop")
           T == (texts[First] \cup texts[Third]) \cup {}
           N == (Literal(First) \o Literal(Third)) \o BinaryInstruction(Second)
<1>1. GoesOn(d, N) /\ Top.doing = "BINARY_OP"
  BY CompileBinaryStep
<1>2. Extent(Top) = 3 /\ Gone(Top) = {}
  BY <1>1 DEF Extent, Gone
<1>3. /\ First \in Objects /\ First = Top.objects[Top.at + 1]
      /\ Third \in Objects /\ Third = Top.objects[Top.at + 3]
  BY <1>2, OperationObjects
<1>4. /\ Top \in CallRecord /\ Single(texts, Top) /\ Top.rest = <<>>
      /\ Top.at + 3 <= Len(Top.objects) /\ Top.at \in Nat /\ Len(Top.objects) \in Nat
  BY <1>1, <1>2, TopAt
<1>5. /\ Top.at + 1 \in 1..Len(Top.objects) /\ Top.at + 3 \in 1..Len(Top.objects)
      /\ Top.at + 1 # Top.at + 3
  BY <1>4
<1>6. texts[First] \cap texts[Third] = {}
  BY <1>2, <1>3, <1>4, <1>5, ObjectsApart
<1>7. Spells(N, T)
  <2>1. /\ Spells(Literal(First), texts[First]) /\ Spells(Literal(Third), texts[Third])
        /\ Spells(BinaryInstruction(Second), {})
    BY <1>3, SpellsLiteral, SpellsNothing, PlainCode
  <2>2. /\ Literal(First) \in Seq(CodeRecord) /\ Literal(Third) \in Seq(CodeRecord)
        /\ BinaryInstruction(Second) \in Seq(CodeRecord)
    BY <1>3, LiteralCode, PlainInstructions
  <2> DEFINE M == Literal(First) \o Literal(Third)
  <2>3. M \in Seq(CodeRecord)
    BY <2>2, ConcatProperties
  <2>4. Spells(M, texts[First] \cup texts[Third])
    BY <1>6, <2>1, <2>2, SpellsConcat
  <2> HIDE DEF M
  <2>5. (texts[First] \cup texts[Third]) \cap {} = {}
    OBVIOUS
  <2>6. Spells(M \o BinaryInstruction(Second), T)
    BY <2>1, <2>2, <2>3, <2>4, <2>5, SpellsConcat
  <2> QED
    BY <2>6 DEF M
<1>8. /\ Inherits(texts, Top, d)
      /\ GivesUp(texts, Top, d, texts[First]) /\ GivesUp(texts, Top, d, texts[Third])
  <2>1. Top.at + 1 \in (Top.at + 1)..(Top.at + 3) /\ Top.at + 3 \in (Top.at + 1)..(Top.at + 3)
    BY <1>4
  <2> QED
    BY <1>2, <1>3, <1>4, <2>1, InheritsShortened
<1> HIDE DEF d, N
<1>9. GivesUp(texts, Top, d, T)
  BY <1>8 DEF GivesUp
<1> QED
  BY <1>1, <1>7, <1>8, <1>9, OnceGoesOn

LEMMA OnceAttribute ==
  ASSUME PInv, NEW texts, Once(texts), Separates(texts), CompileAttribute
  PROVE  Once(texts)'
<1> DEFINE d == Shortened(Top, 3, "loop")
           T == texts[First] \cup texts[Third]
           I == Instruction("GET_ATTRIBUTESB", Third.text, 0)
           N == Literal(First) \o <<I>>
<1>1. GoesOn(d, N) /\ I.text = Third.text /\ Top.doing = "BINARY_OP"
  BY CompileAttributeStep
<1>2. Extent(Top) = 3 /\ Gone(Top) = {}
  BY <1>1 DEF Extent, Gone
<1>3. /\ First \in Objects /\ First = Top.objects[Top.at + 1]
      /\ Third \in Objects /\ Third = Top.objects[Top.at + 3]
      /\ Third.type = "ID"
  BY <1>2, OperationObjects DEF CompileAttribute
<1>4. /\ Top \in CallRecord /\ Single(texts, Top) /\ Top.rest = <<>>
      /\ Top.at + 3 <= Len(Top.objects) /\ Top.at \in Nat /\ Len(Top.objects) \in Nat
  BY <1>1, <1>2, TopAt
<1>5. /\ Top.at + 1 \in 1..Len(Top.objects) /\ Top.at + 3 \in 1..Len(Top.objects)
      /\ Top.at + 1 # Top.at + 3
  BY <1>4
<1>6. texts[First] \cap texts[Third] = {}
  BY <1>2, <1>3, <1>4, <1>5, ObjectsApart
<1>7. Spells(N, T)
  <2>1. Spells(Literal(First), texts[First]) /\ Literal(First) \in Seq(CodeRecord)
    BY <1>3, SpellsLiteral, LiteralCode
  <2>2. Third.text \in Texts /\ texts[Third] = {Third.text} \ {""}
    BY <1>3, TokenTexts DEF Separates, TextsOf, IsTree, TreeTypes, LiteralTypes
  <2>3. "GET_ATTRIBUTESB" \in Opcodes
    BY DEF Opcodes
  <2>4. I \in CodeRecord /\ <<I>> \in Seq(CodeRecord)
    BY <2>2, <2>3, OneInstruction
  <2> HIDE DEF I
  <2>5. Spells(<<I>>, texts[Third])
    <3>1. Len(<<I>>) = 1 /\ <<I>>[1] = I
      BY OneLong
    <3>2. \A k \in 1..Len(<<I>>) : k = 1
      BY <3>1, OneOnly, Zenon
    <3> QED
      BY <1>1, <2>2, <3>1, <3>2 DEF Spells
  <2> QED
    BY <1>6, <2>1, <2>4, <2>5, SpellsConcat
<1>8. /\ Inherits(texts, Top, d)
      /\ GivesUp(texts, Top, d, texts[First]) /\ GivesUp(texts, Top, d, texts[Third])
  <2>1. Top.at + 1 \in (Top.at + 1)..(Top.at + 3) /\ Top.at + 3 \in (Top.at + 1)..(Top.at + 3)
    BY <1>4
  <2> QED
    BY <1>2, <1>3, <1>4, <2>1, InheritsShortened
<1> HIDE DEF d, N
<1>9. GivesUp(texts, Top, d, T)
  BY <1>8 DEF GivesUp
<1> QED
  BY <1>1, <1>7, <1>8, <1>9, OnceGoesOn

LEMMA OnceStartCall ==
  ASSUME PInv, NEW texts, Once(texts), Separates(texts), StartCall
  PROVE  Once(texts)'
<1> DEFINE args == SplitByComma(Second.objects)
           d == Passing(args)
<1>1. GoesOn(d, Literal(First)) /\ Top.doing = "CALL" /\ IsTree(Second)
  BY StartCallStep
<1>2. Extent(Top) = 2 /\ Gone(Top) = {}
  BY <1>1 DEF Extent, Gone
<1>3. /\ First \in Objects /\ First = Top.objects[Top.at + 1]
      /\ Second \in Objects /\ Second = Top.objects[Top.at + 2]
  BY <1>2, OperationObjects
<1>4. /\ Top \in CallRecord /\ Single(texts, Top) /\ Top.rest = <<>>
      /\ Top.at + 2 <= Len(Top.objects)
  BY <1>1, <1>2, TopAt
<1>5. args \in Seq(Lists)
  BY <1>1, <1>3, TreeObjects, Pieces
<1>6. /\ d \in CallRecord /\ d.objects = Top.objects /\ d.at = Top.at
      /\ d.rest = SplitByComma(Top.objects[Top.at + 2].objects) /\ d.doing = "arguments"
  <2> HIDE DEF args
  <2>1. /\ d \in CallRecord /\ d.objects = Top.objects /\ d.at = Top.at
        /\ d.rest = args /\ d.doing = "arguments"
    BY <1>4, <1>5, PassingIs
  <2> QED
    BY <1>3, <2>1, Zenon DEF args
<1> HIDE DEF d
<1>7. Inherits(texts, Top, d) /\ GivesUp(texts, Top, d, texts[First])
  <2>1. IsTree(Top.objects[Top.at + 2])
    BY <1>1, <1>3
  <2> QED
    BY <1>2, <1>3, <1>4, <1>6, <2>1, InheritsPassing
<1>8. Spells(Literal(First), texts[First])
  BY <1>3, SpellsLiteral
<1> QED
  BY <1>1, <1>7, <1>8, OnceGoesOn

LEMMA OnceEndCall ==
  ASSUME PInv, NEW texts, Once(texts), Separates(texts), EndCall
  PROVE  Once(texts)'
<1> DEFINE d == Shortened(Top, 2, "loop")
           I == Instruction("CALLB", "", Top.count)
<1>1. GoesOn(d, <<I>>) /\ I.text = "" /\ Top.doing = "arguments" /\ Top.rest = <<>>
  BY EndCallStep
<1>2. Extent(Top) = 2 /\ Gone(Top) = {Top.at + 1, Top.at + 2}
  BY <1>1 DEF Extent, Gone
<1>3. /\ Top \in CallRecord /\ Single(texts, Top) /\ Top.at \in Nat
      /\ Top.at + 2 <= Len(Top.objects)
  BY <1>2, TopAt
<1>4. Gone(Top) \subseteq (Top.at + 1)..(Top.at + 2)
  BY <1>2, <1>3
<1>5. Inherits(texts, Top, d)
  <2>1. 2 \in 1..3
    OBVIOUS
  <2> HIDE DEF I
  <2> QED
    BY <1>1, <1>3, <1>4, <2>1, InheritsShortened
<1>6. I \in CodeRecord
  <2>1. "CALLB" \in Opcodes /\ Top.count \in Nat
    BY <1>3, CallType DEF Opcodes
  <2> QED
    BY <2>1, EmptyText, OneInstruction
<1> HIDE DEF d, I
<1>7. Spells(<<I>>, {})
  BY <1>1, <1>6, SpellsNothing
<1> QED
  BY <1>1, <1>5, <1>7, OnceGoesOn, NothingGiven

LEMMA OnceLast ==
  ASSUME PInv, NEW texts, Once(texts), Separates(texts), CompileLast
  PROVE  Once(texts)'
<1> DEFINE d == Does("finished")
<1>1. GoesOn(d, Literal(First)) /\ Top.doing = "DONE"
  BY CompileLastStep
<1>2. Extent(Top) = 1 /\ Gone(Top) = {}
  BY <1>1 DEF Extent, Gone
<1>3. /\ First \in Objects /\ First = Top.objects[Top.at + 1]
  BY <1>2, OperationObjects
<1>4. /\ Top \in CallRecord /\ Single(texts, Top) /\ Top.at + 1 \in 1..Len(Top.objects)
  BY <1>2, TopAt
<1>5. /\ d \in CallRecord /\ d.objects = Top.objects /\ d.rest = Top.rest
      /\ d.at = Top.at /\ d.doing = "finished"
  BY <1>4, DoesIs DEF Doings
<1> HIDE DEF d
<1>6. Gone(d) = {Top.at + 1}
  BY <1>5 DEF Gone
<1>7. Inherits(texts, Top, d) /\ GivesUp(texts, Top, d, texts[First])
  BY <1>2, <1>3, <1>4, <1>5, <1>6, InheritsTurned
<1>8. Spells(Literal(First), texts[First])
  BY <1>3, SpellsLiteral
<1> QED
  BY <1>1, <1>7, <1>8, OnceGoesOn

\* A call that descends into a tree at its position.
LEMMA OnceFirstTree ==
  ASSUME PInv, NEW texts, Once(texts), Separates(texts),
         NEW doing \in {"brackets", "operand", "last"},
         Top.doing \in {"BRACKETS", "BINARY_OP", "DONE"}, IsTree(First),
         Descends(Does(doing), First.objects, <<>>)
  PROVE  Once(texts)'
<1> DEFINE d == Does(doing)
           l == First.objects
<1>1. Extent(Top) >= 1 /\ Extent(Top) > 0 /\ Gone(Top) = {} /\ Extent(Top) \in 0..3
  BY DEF Extent, Gone
<1>2. /\ First \in Objects /\ First = Top.objects[Top.at + 1]
  BY <1>1, OperationObjects
<1>3. /\ Top \in CallRecord /\ Single(texts, Top) /\ Top.at + 1 \in 1..Len(Top.objects)
  BY <1>1, TopAt
<1>4. /\ d \in CallRecord /\ d.objects = Top.objects /\ d.rest = Top.rest
      /\ d.at = Top.at /\ d.doing = doing
  BY <1>3, DoesIs DEF Doings
<1>a. Descends(d, l, <<>>)
  OBVIOUS
<1> HIDE DEF d
<1>5. Gone(d) = {Top.at + 1}
  BY <1>4 DEF Gone
<1>6. Inherits(texts, Top, d) /\ GivesUp(texts, Top, d, texts[First])
  BY <1>1, <1>2, <1>3, <1>4, <1>5, InheritsTurned
<1>7. Apart(texts, l) /\ \A i \in 1..Len(l) : texts[l[i]] \subseteq texts[First]
  BY <1>2, TreeTexts
<1> HIDE DEF l
<1>8. \A i \in 1..Len(l) : GivesUp(texts, Top, d, texts[l[i]]) /\ texts[l[i]] \cap {} = {}
  BY <1>6, <1>7 DEF GivesUp
<1> QED
  BY <1>a, <1>6, <1>7, <1>8, OnceDescends, NothingGiven

LEMMA OnceOperator ==
  ASSUME PInv, NEW texts, Once(texts), Separates(texts), CompileOperator
  PROVE  Once(texts)'
<1> DEFINE d == Does("operator")
           l == Second.objects
<1>1. Descends(d, l, Literal(First)) /\ IsTree(Second) /\ Top.doing = "BINARY_OP"
  BY CompileOperatorStep
<1>2. Extent(Top) = 3 /\ Gone(Top) = {}
  BY <1>1 DEF Extent, Gone
<1>3. /\ First \in Objects /\ First = Top.objects[Top.at + 1]
      /\ Second \in Objects /\ Second = Top.objects[Top.at + 2]
  BY <1>2, OperationObjects
<1>4. /\ Top \in CallRecord /\ Single(texts, Top) /\ Top.at \in Nat
      /\ Top.at + 1 \in 1..Len(Top.objects) /\ Top.at + 2 \in 1..Len(Top.objects)
      /\ Top.at + 1 # Top.at + 2
  BY <1>2, TopAt
<1>5. /\ d \in CallRecord /\ d.objects = Top.objects /\ d.rest = Top.rest
      /\ d.at = Top.at /\ d.doing = "operator"
  BY <1>4, DoesIs DEF Doings
<1> HIDE DEF d
<1>6. Top.at + 1 \in Gone(d) /\ Top.at + 2 \in Gone(d)
  BY <1>5 DEF Gone
<1>7. /\ Inherits(texts, Top, d)
      /\ GivesUp(texts, Top, d, texts[First]) /\ GivesUp(texts, Top, d, texts[Second])
  BY <1>2, <1>3, <1>4, <1>5, <1>6, InheritsTurned
<1>8. texts[First] \cap texts[Second] = {}
  BY <1>2, <1>3, <1>4, ObjectsApart
<1>9. Apart(texts, l) /\ \A i \in 1..Len(l) : texts[l[i]] \subseteq texts[Second]
  BY <1>1, <1>3, TreeTexts
<1> HIDE DEF l
<1>10. \A i \in 1..Len(l) :
         GivesUp(texts, Top, d, texts[l[i]]) /\ texts[l[i]] \cap texts[First] = {}
  BY <1>7, <1>8, <1>9 DEF GivesUp
<1>11. Spells(Literal(First), texts[First])
  BY <1>3, SpellsLiteral
<1> QED
  BY <1>1, <1>7, <1>9, <1>10, <1>11, OnceDescends

LEMMA OnceNextArgument ==
  ASSUME PInv, NEW texts, Once(texts), Separates(texts), NextArgument
  PROVE  Once(texts)'
<1> DEFINE d == Passed
           l == Head(Top.rest)
<1>1. Descends(d, l, <<>>) /\ Top.doing = "arguments" /\ Top.rest # <<>>
  BY NextArgumentStep
<1>2. Top \in CallRecord /\ Single(texts, Top)
  BY TopAt
<1>3. /\ d \in CallRecord /\ d.objects = Top.objects /\ d.at = Top.at
      /\ d.rest = Tail(Top.rest) /\ d.doing = Top.doing
  BY <1>1, <1>2, PassedIs
<1> HIDE DEF d
<1>4. /\ Inherits(texts, Top, d) /\ Apart(texts, l)
      /\ \A i \in 1..Len(l) : GivesUp(texts, Top, d, texts[l[i]])
  BY <1>1, <1>2, <1>3, InheritsPassed
<1> HIDE DEF l
<1>5. \A i \in 1..Len(l) : GivesUp(texts, Top, d, texts[l[i]]) /\ texts[l[i]] \cap {} = {}
  BY <1>4
<1> QED
  BY <1>1, <1>4, <1>5, OnceDescends, NothingGiven

LEMMA OnceReturnToCaller ==
  ASSUME PInv, NEW texts, Once(texts), Separates(texts), ReturnToCaller
  PROVE  Once(texts)'
<1>1. Caller \in CallRecord /\ Placed(Caller)
  BY ReturnToCallerStep
<1>2. Single(texts, Caller)
  <2>1. Len(calls) \in Nat /\ Len(calls) > 1
    BY Calls DEF ReturnToCaller
  <2>2. Len(calls) - 1 \in 1..Len(calls)
    BY <2>1
  <2> QED
    BY <2>2 DEF Once, Caller
<1>3. Caller.at \in Nat /\ Len(Caller.objects) \in Nat
  BY <1>1, CallType
<1>4. CASE Caller.doing = "brackets" /\ Returns(Shortened(Caller, 1, "loop"))
  <2>1. Extent(Caller) = 1 /\ Gone(Caller) = {Caller.at + 1}
    BY <1>4 DEF Extent, Gone
  <2>2. /\ Caller.at + 1 <= Len(Caller.objects) /\ Caller.rest = <<>>
        /\ Gone(Caller) \subseteq (Caller.at + 1)..(Caller.at + 1)
    BY <1>1, <1>3, <1>4, <2>1 DEF Placed
  <2>3. Inherits(texts, Caller, Shortened(Caller, 1, "loop"))
    BY <1>1, <1>2, <2>2, InheritsShortened
  <2> QED
    BY <1>4, <2>3, OnceReturns
<1>5. CASE Caller.doing = "operand" /\ Returns(Shortened(Caller, 1, "BINARY_OP"))
  <2>1. Extent(Caller) = 3 /\ Gone(Caller) = {Caller.at + 1}
    BY <1>5 DEF Extent, Gone
  <2>2. /\ Caller.at + 1 <= Len(Caller.objects) /\ Caller.rest = <<>>
        /\ Gone(Caller) \subseteq (Caller.at + 1)..(Caller.at + 1)
    BY <1>1, <1>3, <1>5, <2>1 DEF Placed
  <2>3. Inherits(texts, Caller, Shortened(Caller, 1, "BINARY_OP"))
    BY <1>1, <1>2, <2>2, InheritsShortened
  <2> QED
    BY <1>5, <2>3, OnceReturns
<1>6. CASE Caller.doing = "operator" /\ Returns(Shortened(Caller, 3, "loop"))
  <2>1. Extent(Caller) = 3 /\ Gone(Caller) = {Caller.at + 1, Caller.at + 2, Caller.at + 3}
    BY <1>6 DEF Extent, Gone
  <2>2. /\ Caller.at + 3 <= Len(Caller.objects) /\ Caller.rest = <<>>
        /\ Gone(Caller) \subseteq (Caller.at + 1)..(Caller.at + 3)
    BY <1>1, <1>3, <1>6, <2>1 DEF Placed
  <2>3. Inherits(texts, Caller, Shortened(Caller, 3, "loop"))
    BY <1>1, <1>2, <2>2, InheritsShortened
  <2> QED
    BY <1>6, <2>3, OnceReturns
<1>7. CASE Returns(Caller)
  <2>1. Inherits(texts, Caller, Caller)
    BY <1>2 DEF Inherits
  <2> QED
    BY <1>7, <2>1, OnceReturns
<1> QED
  BY <1>4, <1>5, <1>6, <1>7, ReturnToCallerStep

-----------------------------------------------------------------------------
(* No operand twice.                                                        *)

LEMMA InitOInv == OperandsDiffer /\ Init => OInv
<1> SUFFICES ASSUME OperandsDiffer, Init PROVE OInv
  OBVIOUS
<1>1. PICK texts : Separates(texts) /\ \A e \in Expressions : Apart(texts, e)
  BY DEF OperandsDiffer
<1> DEFINE c == CallOn(source)
<1>2. /\ Apart(texts, source) /\ source \in Lists
      /\ calls = <<c>> /\ code = <<>>
  BY <1>1, ObjectsAssumption DEF Init, Lists
<1>3. /\ c \in CallRecord /\ c.objects = source /\ c.rest = <<>> /\ Len(c.rest) = 0
      /\ Gone(c) = {}
  BY <1>2, NewCall DEF CallOn, Gone
<1> HIDE DEF c
<1>4. Len(calls) = 1 /\ calls[1] = c /\ Len(code) = 0
  BY <1>2, OneLong
<1>5. \A t, r, i : Has(texts, c, r, i, t) => r = 0 /\ i \in 1..Len(source) /\ t \in texts[source[i]]
  BY <1>3 DEF Has
<1>6. Single(texts, c)
  <2> SUFFICES ASSUME NEW t, NEW r, NEW i, NEW s, NEW j,
                      Has(texts, c, r, i, t), Has(texts, c, s, j, t)
               PROVE  r = s /\ i = j
    BY Zenon DEF Single
  <2>1. /\ r = 0 /\ i \in 1..Len(source) /\ t \in texts[source[i]]
        /\ s = 0 /\ j \in 1..Len(source) /\ t \in texts[source[j]]
    BY <1>5
  <2> QED
    BY <1>2, <2>1 DEF Apart
<1>7. \A k \in 1..Len(calls) : k = 1
  BY <1>4, OneOnly, Zenon
<1>8. Once(texts)
  BY <1>4, <1>6, <1>7 DEF Once
<1> QED
  BY <1>1, <1>8, InitPInv DEF OInv

LEMMA NextOInv == OInv /\ [Next]_vars => OInv'
<1> SUFFICES ASSUME OInv, [Next]_vars PROVE OInv'
  OBVIOUS
<1>1. PICK texts : Separates(texts) /\ Once(texts)
  BY DEF OInv
<1>2. PInv /\ PInv'
  BY NextPInv DEF OInv
<1>3. ASSUME UNCHANGED <<calls, code>> PROVE Once(texts)'
  BY <1>1, <1>3 DEF Once
<1>4. Once(texts)'
  <2>1. CASE GetOperation
    BY <1>1, <1>2, <2>1, OnceGetOperation
  <2>2. CASE CompileBrackets
    BY <1>1, <1>2, <2>2, CompileBracketsStep, OnceFirstTree
  <2>3. CASE CompileUnary
    BY <1>1, <1>2, <2>3, OnceUnary
  <2>4. CASE CompileOperand
    BY <1>1, <1>2, <2>4, CompileOperandStep, OnceFirstTree
  <2>5. CASE CompileOperator
    BY <1>1, <1>2, <2>5, OnceOperator
  <2>6. CASE CompileBinary
    BY <1>1, <1>2, <2>6, OnceBinary
  <2>7. CASE CompileAttribute
    BY <1>1, <1>2, <2>7, OnceAttribute
  <2>8. CASE StartCall
    BY <1>1, <1>2, <2>8, OnceStartCall
  <2>9. CASE NextArgument
    BY <1>1, <1>2, <2>9, OnceNextArgument
  <2>10. CASE EndCall
    BY <1>1, <1>2, <2>10, OnceEndCall
  <2>11. CASE CompileLast
    BY <1>1, <1>2, <2>11, OnceLast
  <2>12. CASE CompileLastBrackets
    BY <1>1, <1>2, <2>12, CompileLastBracketsStep, OnceFirstTree
  <2>13. CASE ReturnToCaller
    BY <1>1, <1>2, <2>13, OnceReturnToCaller
  <2>14. CASE ReturnFromCompiler
    BY <1>3, <2>14 DEF ReturnFromCompiler
  <2>15. CASE Reject
    BY <1>3, <2>15 DEF Reject
  <2>16. CASE Crash
    BY <1>3, <2>16 DEF Crash
  <2>17. CASE UNCHANGED vars
    BY <1>3, <2>17 DEF vars
  <2> QED
    BY <2>1, <2>2, <2>3, <2>4, <2>5, <2>6, <2>7, <2>8, <2>9, <2>10, <2>11, <2>12,
       <2>13, <2>14, <2>15, <2>16, <2>17 DEF Next
<1> QED
  BY <1>1, <1>2, <1>4 DEF OInv

\* If the operands of every expression have different texts, none of them is
\* compiled twice: what an operation compiles leaves the list with it
\* (compiler.cpp:358), the lists of the running calls have no operand in common,
\* and neither have the arguments that split_by_token cuts apart.
THEOREM OperandsCompiledOnce == OperandsDiffer /\ Spec => []NoOperandTwice
<1>1. OInv => NoOperandTwice
  <2> SUFFICES ASSUME OInv PROVE NoOperandTwice
    OBVIOUS
  <2>1. \A i, j \in 1..Len(code) : code[i].text # "" /\ code[i].text = code[j].text => i = j
    BY DEF OInv, Once
  <2>2. DOMAIN code = 1..Len(code)
    BY LenProperties DEF OInv, PInv, TypeOK
  <2> QED
    BY <2>1, <2>2 DEF NoOperandTwice
<1> QED
  BY <1>1, InitOInv, NextOInv, PTL DEF Spec

=============================================================================
