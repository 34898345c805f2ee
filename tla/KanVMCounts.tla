---------------------------- MODULE KanVMCounts ----------------------------
(***************************************************************************)
(* Counting references: what Count, Slots and HoldersIn of KanVM give when  *)
(* a list, a scope or a frame changes, and what the operations on the heap  *)
(* make of counts that are exact.  Nothing here speaks of a step.           *)
(***************************************************************************)
EXTENDS KanVM, SequenceTheorems, FiniteSetTheorems, TLAPS

\* What the pointer e adds to the number of references to o.
One(e, o) == IF e = o THEN 1 ELSE 0

-----------------------------------------------------------------------------
(* One list.                                                                *)

\* A finite list holds a pointer finitely often, and not at all only if it is
\* nowhere in it.
LEMMA CountZero ==
  ASSUME NEW f, IsFiniteSet(DOMAIN f), NEW o
  PROVE  /\ Count(f, o) \in Nat
         /\ Count(f, o) = 0 <=> \A i \in DOMAIN f : f[i] # o
<1> DEFINE S == {i \in DOMAIN f : f[i] = o}
<1>1. IsFiniteSet(S)
  BY FS_Subset
<1>2. Cardinality(S) \in Nat /\ (Cardinality(S) = 0 <=> S = {})
  BY <1>1, FS_CardinalityType, FS_EmptySet
<1>3. S = {} <=> \A i \in DOMAIN f : f[i] # o
  OBVIOUS
<1>4. Count(f, o) = Cardinality(S)
  BY DEF Count
<1> HIDE DEF S
<1>5. QED
  BY <1>2, <1>3, <1>4

\* A list with one more place.
LEMMA CountExtend ==
  ASSUME NEW f, IsFiniteSet(DOMAIN f), NEW g, NEW x, x \notin DOMAIN f,
         DOMAIN g = DOMAIN f \cup {x}, \A i \in DOMAIN f : g[i] = f[i],
         NEW o
  PROVE  Count(g, o) = Count(f, o) + One(g[x], o)
<1> DEFINE S == {i \in DOMAIN f : f[i] = o}
           T == {i \in DOMAIN g : g[i] = o}
<1>1. IsFiniteSet(S) /\ x \notin S
  BY FS_Subset
<1>2. Cardinality(S) \in Nat
  BY <1>1, FS_CardinalityType
<1>3. Cardinality(S \cup {x}) = Cardinality(S) + 1
  BY <1>1, FS_AddElement
<1>4. T = IF g[x] = o THEN S \cup {x} ELSE S
  OBVIOUS
<1>5. Count(f, o) = Cardinality(S) /\ Count(g, o) = Cardinality(T)
  BY DEF Count
<1> HIDE DEF S, T
<1>6. QED
  BY <1>2, <1>3, <1>4, <1>5 DEF One

\* A list with one place changed.
LEMMA CountExcept ==
  ASSUME NEW f, IsFiniteSet(DOMAIN f), NEW g, NEW x \in DOMAIN f,
         DOMAIN g = DOMAIN f, \A i \in DOMAIN f : i # x => g[i] = f[i],
         NEW o
  PROVE  Count(g, o) + One(f[x], o) = Count(f, o) + One(g[x], o)
<1> DEFINE D == DOMAIN f \ {x}
           r == [i \in D |-> f[i]]
<1>1. IsFiniteSet(DOMAIN r) /\ IsFiniteSet(DOMAIN g)
  BY FS_Subset
<1>2. Count(r, o) \in Nat /\ Count(f, o) \in Nat /\ Count(g, o) \in Nat
  BY <1>1, CountZero
<1>3. x \notin DOMAIN r /\ DOMAIN f = DOMAIN r \cup {x}
        /\ DOMAIN g = DOMAIN r \cup {x}
        /\ \A i \in DOMAIN r : f[i] = r[i] /\ g[i] = r[i]
  OBVIOUS
<1> HIDE DEF r
<1>4. Count(f, o) = Count(r, o) + One(f[x], o)
  BY <1>1, <1>3, CountExtend
<1>5. Count(g, o) = Count(r, o) + One(g[x], o)
  BY <1>1, <1>3, CountExtend
<1>6. QED
  BY <1>2, <1>4, <1>5 DEF One

\* Sequences: empty, one element more, split in two.
LEMMA CountEmpty ==
  ASSUME NEW o
  PROVE  Count(<<>>, o) = 0
<1>1. {i \in DOMAIN <<>> : <<>>[i] = o} = {}
  OBVIOUS
<1>2. QED
  BY <1>1, FS_EmptySet DEF Count

LEMMA SequenceFinite ==
  ASSUME NEW S, NEW s \in Seq(S)
  PROVE  IsFiniteSet(DOMAIN s) /\ DOMAIN s = 1..Len(s) /\ Len(s) \in Nat
<1>1. DOMAIN s = 1..Len(s) /\ Len(s) \in Nat
  BY LenProperties
<1>2. QED
  BY <1>1, FS_Interval

LEMMA CountNat ==
  ASSUME NEW S, NEW s \in Seq(S), NEW o
  PROVE  Count(s, o) \in Nat
BY SequenceFinite, CountZero

LEMMA CountAppend ==
  ASSUME NEW S, NEW s \in Seq(S), NEW e \in S, NEW o
  PROVE  Count(Append(s, e), o) = Count(s, o) + One(e, o)
<1> DEFINE g == Append(s, e)
           x == Len(s) + 1
<1>1. IsFiniteSet(DOMAIN s) /\ DOMAIN s = 1..Len(s) /\ Len(s) \in Nat
  BY SequenceFinite
<1>2. g \in Seq(S) /\ Len(g) = x /\ g[x] = e /\ \A i \in 1..Len(s) : g[i] = s[i]
  BY AppendProperties
<1>3. DOMAIN g = 1..x
  BY <1>2, LenProperties
<1> HIDE DEF g
<1>4. DOMAIN g = DOMAIN s \cup {x} /\ x \notin DOMAIN s
  BY <1>1, <1>3
<1>5. Count(g, o) = Count(s, o) + One(g[x], o)
  BY <1>1, <1>2, <1>4, CountExtend
<1>6. QED
  BY <1>2, <1>5 DEF g

LEMMA CountOne ==
  ASSUME NEW e, NEW o
  PROVE  Count(<<e>>, o) = One(e, o)
<1>1. <<>> \in Seq({e}) /\ Append(<<>>, e) = <<e>>
  BY EmptySeq
<1>2. Count(<<e>>, o) = Count(<<>>, o) + One(e, o)
  BY <1>1, CountAppend
<1>3. QED
  BY <1>2, CountEmpty DEF One

LEMMA CountTwo ==
  ASSUME NEW d, NEW e, NEW o
  PROVE  Count(<<d, e>>, o) = One(d, o) + One(e, o)
<1> DEFINE f == <<d>>
           g == <<d, e>>
<1>1. f \in Seq({d}) /\ Len(f) = 1 /\ f[1] = d
  OBVIOUS
<1>2. g \in Seq({d, e}) /\ Len(g) = 2 /\ g[1] = d /\ g[2] = e
  OBVIOUS
<1> HIDE DEF f, g
<1>3. DOMAIN f = {1} /\ DOMAIN g = {1, 2} /\ IsFiniteSet(DOMAIN f)
  BY <1>1, <1>2, SequenceFinite
<1>4. Count(g, o) = Count(f, o) + One(e, o)
  BY <1>1, <1>2, <1>3, CountExtend
<1>5. QED
  BY <1>4, CountOne DEF f, g

LEMMA CountDrop ==
  ASSUME NEW S, NEW s \in Seq(S), Len(s) >= 1, NEW o
  PROVE  /\ Drop(s, 1) \in Seq(S) /\ Len(Drop(s, 1)) = Len(s) - 1
         /\ s[Len(s)] \in S
         /\ Count(s, o) = Count(Drop(s, 1), o) + One(s[Len(s)], o)
<1> DEFINE f == Drop(s, 1)
           x == Len(s)
           n == x - 1
<1>1. IsFiniteSet(DOMAIN s) /\ DOMAIN s = 1..x /\ x \in Nat
  BY SequenceFinite
<1>2. n \in Nat /\ x = n + 1
  BY <1>1
<1>3. s[x] \in S /\ \A i \in 1..n : s[i] \in S
  BY <1>1, ElementOfSeq
<1> HIDE DEF n
<1>4. f \in Seq(S) /\ Len(f) = n /\ \A i \in 1..n : f[i] = s[i]
  <2>1. f = SubSeq(s, 1, n)
    BY DEF Drop, n
  <2> HIDE DEF f
  <2>2. QED
    BY <1>2, <1>3, <2>1, SubSeqProperties
<1>5. IsFiniteSet(DOMAIN f) /\ DOMAIN f = 1..n
  BY <1>4, SequenceFinite
<1> HIDE DEF f, x
<1> DEFINE g == s
<1>6. DOMAIN g = DOMAIN f \cup {x} /\ x \notin DOMAIN f
  BY <1>1, <1>2, <1>5
<1>7. \A i \in DOMAIN f : g[i] = f[i]
  BY <1>4, <1>5
<1>8. IsFiniteSet(DOMAIN f)
  BY <1>5
<1> HIDE DEF g
<1>9. Count(g, o) = Count(f, o) + One(g[x], o)
  BY <1>6, <1>7, <1>8, CountExtend
<1>10. QED
  BY <1>2, <1>3, <1>4, <1>9 DEF f, g, x

\* A sequence that is not empty ends with its last element.
LEMMA SplitLast ==
  ASSUME NEW S, NEW s \in Seq(S), Len(s) >= 1
  PROVE  /\ s = Append(Drop(s, 1), s[Len(s)])
         /\ \A i \in 1..(Len(s) - 1) : Drop(s, 1)[i] = s[i]
<1> DEFINE fewer == Drop(s, 1)
           last == s[Len(s)]
           n == Len(s) - 1
           a == Append(fewer, last)
<1>1. fewer \in Seq(S) /\ Len(fewer) = n /\ last \in S
  BY CountDrop
<1>2. Len(s) \in Nat /\ n \in Nat /\ Len(s) = n + 1
  BY LenProperties
<1>3. \A i \in 1..n : s[i] \in S
  BY <1>2, ElementOfSeq
<1>4. fewer = SubSeq(s, 1, n)
  BY DEF Drop
<1> HIDE DEF n, fewer
<1>5. \A i \in 1..n : fewer[i] = s[i]
  <2>1. \A i \in 1..(n - 1 + 1) : fewer[i] = s[1 + i - 1]
    BY <1>2, <1>3, <1>4, SubSeqProperties
  <2>2. QED
    BY <1>2, <2>1
<1> HIDE DEF last
<1>6. a \in Seq(S) /\ Len(a) = n + 1 /\ a[n + 1] = last
        /\ \A i \in 1..n : a[i] = fewer[i]
  BY <1>1, <1>2, AppendProperties
<1> HIDE DEF a
<1>7. \A i \in 1..Len(s) : s[i] = a[i]
  <2>1. TAKE i \in 1..Len(s)
  <2>2. CASE i = n + 1
    BY <1>2, <1>6, <2>2 DEF last
  <2>3. CASE i # n + 1
    <3>1. i \in 1..n
      BY <1>2, <2>3
    <3>2. QED
      BY <1>5, <1>6, <3>1
  <2>4. QED
    BY <2>2, <2>3
<1>8. s = a
  BY <1>2, <1>6, <1>7, SeqEqual
<1>9. QED
  BY <1>5, <1>8 DEF a, n, fewer, last

\* What is counted in the last places of a sequence is counted in the sequence
\* of them.
LEMMA CountLast ==
  ASSUME NEW S, NEW s \in Seq(S), NEW n \in 0..Len(s), NEW o
  PROVE  /\ SubSeq(s, n + 1, Len(s)) \in Seq(S)
         /\ Count(SubSeq(s, n + 1, Len(s)), o)
              = Cardinality({i \in (n + 1)..Len(s) : s[i] = o})
<1> DEFINE t == SubSeq(s, n + 1, Len(s))
           B == {i \in (n + 1)..Len(s) : s[i] = o}
           C == {i \in DOMAIN t : t[i] = o}
           b == [i \in B |-> i - n]
<1>1. IsFiniteSet(DOMAIN s) /\ DOMAIN s = 1..Len(s) /\ Len(s) \in Nat
        /\ n \in Nat /\ n <= Len(s)
  BY SequenceFinite
<1>2. \A i \in (n + 1)..Len(s) : s[i] \in S
  BY <1>1, ElementOfSeq
<1>3. t \in Seq(S) /\ Len(t) = Len(s) - n
        /\ \A i \in 1..(Len(s) - n) : t[i] = s[n + i]
  <2> DEFINE a == n + 1
             z == Len(s)
  <2>1. a \in Nat /\ z \in Nat /\ a <= z + 1 /\ n = a - 1
    BY <1>1
  <2>2. t = SubSeq(s, a, z) /\ \A i \in a..z : s[i] \in S
    BY <1>2
  <2>3. \A i \in 1..(z - n) : i \in 1..(z - a + 1) /\ a + i - 1 = n + i
    BY <1>1
  <2> HIDE DEF t, a, z
  <2>4. (IF a <= z THEN z - a + 1 ELSE 0) = z - n
    BY <2>1
  <2>5. /\ t \in Seq(S)
        /\ Len(t) = IF a <= z THEN z - a + 1 ELSE 0
        /\ \A i \in 1..(z - a + 1) : t[i] = s[a + i - 1]
    BY <2>1, <2>2, SubSeqProperties
  <2>6. \A i \in 1..(z - n) : t[i] = s[n + i]
    BY <2>3, <2>5
  <2>7. QED
    BY <2>4, <2>5, <2>6 DEF z
<1>4. DOMAIN t = 1..(Len(s) - n)
  BY <1>3, LenProperties
<1> HIDE DEF t
<1>5. \A i \in B : i - n \in C
  BY <1>1, <1>3, <1>4
<1>6. \A j \in C : j + n \in B /\ (j + n) - n = j
  BY <1>1, <1>3, <1>4
<1>7. IsFiniteSet(B) /\ B \subseteq Nat
  BY <1>1, FS_Subset
<1> HIDE DEF B, C
<1>8. b \in Bijection(B, C)
  <2>1. b \in [B -> C]
    BY <1>5
  <2>2. \A i, j \in B : b[i] = b[j] => i = j
    BY <1>1, <1>7
  <2>3. \A j \in C : \E i \in B : b[i] = j
    BY <1>6
  <2>4. QED
    BY <2>1, <2>2, <2>3 DEF Bijection, Injection, Surjection, IsInjective
<1>9. Cardinality(C) = Cardinality(B)
  BY <1>7, <1>8, FS_Bijection DEF ExistsBijection
<1>10. QED
  BY <1>3, <1>9 DEF Count, t, B, C

LEMMA CountSplit ==
  ASSUME NEW S, NEW s \in Seq(S), NEW n \in 0..Len(s), NEW o
  PROVE  /\ SubSeq(s, 1, n) \in Seq(S) /\ SubSeq(s, n + 1, Len(s)) \in Seq(S)
         /\ Len(SubSeq(s, 1, n)) = n
         /\ \A i \in 1..n : SubSeq(s, 1, n)[i] = s[i]
         /\ Count(s, o)
              = Count(SubSeq(s, 1, n), o) + Count(SubSeq(s, n + 1, Len(s)), o)
<1> DEFINE f == SubSeq(s, 1, n)
           A == {i \in DOMAIN f : f[i] = o}
           B == {i \in (n + 1)..Len(s) : s[i] = o}
           C == {i \in DOMAIN s : s[i] = o}
<1>1. IsFiniteSet(DOMAIN s) /\ DOMAIN s = 1..Len(s) /\ Len(s) \in Nat
        /\ n \in Nat /\ n <= Len(s)
  BY SequenceFinite
<1>2. \A i \in 1..n : s[i] \in S
  BY <1>1, ElementOfSeq
<1>3. f \in Seq(S) /\ Len(f) = n /\ \A i \in 1..n : f[i] = s[i]
  BY <1>1, <1>2, SubSeqProperties
<1>4. IsFiniteSet(DOMAIN f) /\ DOMAIN f = 1..n
  BY <1>3, SequenceFinite
<1> HIDE DEF f
<1>5. C = A \cup B /\ A \cap B = {}
  BY <1>1, <1>3, <1>4
<1>6. IsFiniteSet(A) /\ IsFiniteSet(B)
  <2>1. B \subseteq DOMAIN s
    BY <1>1
  <2>2. QED
    BY <1>1, <1>4, <2>1, FS_Subset
<1>7. Count(s, o) = Cardinality(C) /\ Count(f, o) = Cardinality(A)
  BY DEF Count
<1>8. SubSeq(s, n + 1, Len(s)) \in Seq(S)
        /\ Count(SubSeq(s, n + 1, Len(s)), o) = Cardinality(B)
  BY CountLast
<1> HIDE DEF A, B, C
<1>9. Cardinality(C) = Cardinality(A) + Cardinality(B)
  <2>1. Cardinality(A \cap B) = 0
    BY <1>5, FS_EmptySet
  <2>2. Cardinality(A) \in Nat /\ Cardinality(B) \in Nat
    BY <1>6, FS_CardinalityType
  <2>3. Cardinality(A \cup B)
          = Cardinality(A) + Cardinality(B) - Cardinality(A \cap B)
    BY <1>6, FS_Union
  <2>4. QED
    BY <1>5, <2>1, <2>2, <2>3
<1>10. QED
  BY <1>3, <1>7, <1>8, <1>9 DEF f

-----------------------------------------------------------------------------
(* Several lists.                                                           *)

\* Finitely many finite lists.
FiniteLists(lists) ==
  IsFiniteSet(DOMAIN lists) /\ \A k \in DOMAIN lists : IsFiniteSet(DOMAIN lists[k])

LEMMA SlotsMember ==
  ASSUME NEW lists, NEW o, NEW x
  PROVE  x \in Slots(lists, o)
           <=> \E k \in DOMAIN lists : \E i \in DOMAIN lists[k] :
                 x = <<k, i>> /\ lists[k][i] = o
<1>1. ASSUME x \in Slots(lists, o)
      PROVE  \E k \in DOMAIN lists : \E i \in DOMAIN lists[k] :
               x = <<k, i>> /\ lists[k][i] = o
  <2>1. PICK k \in DOMAIN lists : x \in {k} \X DOMAIN lists[k]
    BY <1>1 DEF Slots
  <2>2. PICK i \in DOMAIN lists[k] : x = <<k, i>>
    BY <2>1
  <2>3. lists[x[1]][x[2]] = o
    BY <1>1 DEF Slots
  <2>4. lists[k][i] = o
    BY <2>2, <2>3
  <2>5. QED
    BY <2>2, <2>4
<1>2. ASSUME NEW k \in DOMAIN lists, NEW i \in DOMAIN lists[k],
             x = <<k, i>>, lists[k][i] = o
      PROVE  x \in Slots(lists, o)
  <2>1. x \in {k} \X DOMAIN lists[k]
    BY <1>2
  <2>2. x \in UNION {{j} \X DOMAIN lists[j] : j \in DOMAIN lists}
    BY <2>1
  <2>3. lists[x[1]][x[2]] = o
    BY <1>2
  <2>4. QED
    BY <2>2, <2>3 DEF Slots
<1>3. QED
  BY <1>1, <1>2

LEMMA SlotsFinite ==
  ASSUME NEW lists, FiniteLists(lists), NEW o
  PROVE  /\ IsFiniteSet(Slots(lists, o))
         /\ Cardinality(Slots(lists, o)) \in Nat
<1> DEFINE D == DOMAIN lists
           f == [k \in D |-> {k} \X DOMAIN lists[k]]
           T == {{k} \X DOMAIN lists[k] : k \in D}
<1>1. IsFiniteSet(D)
  BY DEF FiniteLists
<1>2. f \in Surjection(D, T)
  BY DEF Surjection
<1>3. IsFiniteSet(T)
  BY <1>1, <1>2, FS_Surjection
<1>4. ASSUME NEW k \in D PROVE IsFiniteSet({k} \X DOMAIN lists[k])
  <2>1. IsFiniteSet({k}) /\ IsFiniteSet(DOMAIN lists[k])
    BY FS_Singleton DEF FiniteLists
  <2>2. QED
    BY <2>1, FS_Product
<1>5. \A t \in T : IsFiniteSet(t)
  BY <1>4
<1>6. IsFiniteSet(UNION T)
  BY <1>3, <1>5, FS_UNION
<1>7. IsFiniteSet(Slots(lists, o))
  <2>1. Slots(lists, o) \subseteq UNION T
    BY DEF Slots
  <2>2. QED
    BY <1>6, <2>1, FS_Subset
<1>8. QED
  BY <1>7, FS_CardinalityType

LEMMA SlotsEmpty ==
  ASSUME NEW lists, DOMAIN lists = {}, NEW o
  PROVE  Cardinality(Slots(lists, o)) = 0
<1>1. Slots(lists, o) = {}
  BY SlotsMember
<1>2. QED
  BY <1>1, FS_EmptySet

\* A pointer that is in none of the lists has no slots.
LEMMA SlotsNowhere ==
  ASSUME NEW lists, NEW o,
         \A k \in DOMAIN lists : \A i \in DOMAIN lists[k] : lists[k][i] # o
  PROVE  Cardinality(Slots(lists, o)) = 0
<1>1. Slots(lists, o) = {}
  BY SlotsMember
<1>2. QED
  BY <1>1, FS_EmptySet

\* One list more.
LEMMA SlotsExtend ==
  ASSUME NEW lists, FiniteLists(lists), NEW more, NEW k,
         k \notin DOMAIN lists, DOMAIN more = DOMAIN lists \cup {k},
         \A j \in DOMAIN lists : more[j] = lists[j],
         IsFiniteSet(DOMAIN more[k]), NEW o
  PROVE  Cardinality(Slots(more, o))
           = Cardinality(Slots(lists, o)) + Count(more[k], o)
<1> DEFINE A == Slots(lists, o)
           I == {i \in DOMAIN more[k] : more[k][i] = o}
           B == {k} \X I
<1>1. IsFiniteSet(A) /\ Cardinality(A) \in Nat
  BY SlotsFinite
<1>2. IsFiniteSet(I)
  BY FS_Subset
<1>3. IsFiniteSet(B) /\ Cardinality(B) = Cardinality(I) /\ Cardinality(B) \in Nat
  <2>1. IsFiniteSet({k}) /\ Cardinality({k}) = 1
    BY FS_Singleton
  <2>2. IsFiniteSet(B) /\ Cardinality(B) = Cardinality({k}) * Cardinality(I)
    BY <1>2, <2>1, FS_Product
  <2>3. Cardinality(I) \in Nat
    BY <1>2, FS_CardinalityType
  <2> HIDE DEF I, B
  <2>4. QED
    BY <2>1, <2>2, <2>3
<1>4. Slots(more, o) = A \cup B
  <2>1. ASSUME NEW x \in Slots(more, o) PROVE x \in A \cup B
    <3>1. PICK j \in DOMAIN more : \E i \in DOMAIN more[j] :
                                     x = <<j, i>> /\ more[j][i] = o
      BY <2>1, SlotsMember
    <3>2. CASE j = k
      BY <3>1, <3>2
    <3>3. CASE j # k
      <4>1. j \in DOMAIN lists /\ more[j] = lists[j]
        BY <3>3
      <4>2. QED
        BY <3>1, <4>1, SlotsMember
    <3>4. QED
      BY <3>2, <3>3
  <2>2. ASSUME NEW x \in A PROVE x \in Slots(more, o)
    <3>1. PICK j \in DOMAIN lists : \E i \in DOMAIN lists[j] :
                                      x = <<j, i>> /\ lists[j][i] = o
      BY <2>2, SlotsMember
    <3>2. j \in DOMAIN more /\ more[j] = lists[j]
      OBVIOUS
    <3>3. QED
      BY <3>1, <3>2, SlotsMember
  <2>3. ASSUME NEW x \in B PROVE x \in Slots(more, o)
    <3>1. PICK i \in I : x = <<k, i>>
      BY <2>3
    <3>2. k \in DOMAIN more /\ i \in DOMAIN more[k] /\ more[k][i] = o
      BY <3>1
    <3>3. QED
      BY <3>1, <3>2, SlotsMember
  <2> HIDE DEF A, B
  <2>4. QED
    BY <2>1, <2>2, <2>3
<1>5. A \cap B = {}
  <2>1. ASSUME NEW x \in A, x \in B PROVE FALSE
    <3>1. PICK j \in DOMAIN lists : \E i \in DOMAIN lists[j] : x = <<j, i>>
      BY <2>1, SlotsMember
    <3>2. PICK i \in I : x = <<k, i>>
      BY <2>1
    <3>3. QED
      BY <3>1, <3>2
  <2>2. QED
    BY <2>1
<1>6. Count(more[k], o) = Cardinality(I)
  BY DEF Count
<1> HIDE DEF A, I, B
<1>7. Cardinality(A \cup B) = Cardinality(A) + Cardinality(B)
  <2>1. Cardinality(A \cap B) = 0
    BY <1>5, FS_EmptySet
  <2>2. Cardinality(A \cup B)
          = Cardinality(A) + Cardinality(B) - Cardinality(A \cap B)
    BY <1>1, <1>3, FS_Union
  <2>3. QED
    BY <1>1, <1>3, <2>1, <2>2
<1>8. QED
  BY <1>3, <1>4, <1>6, <1>7 DEF A

\* One list changed.
LEMMA SlotsReplace ==
  ASSUME NEW lists, FiniteLists(lists), NEW changed, NEW k \in DOMAIN lists,
         DOMAIN changed = DOMAIN lists,
         \A j \in DOMAIN lists : j # k => changed[j] = lists[j],
         IsFiniteSet(DOMAIN changed[k]), NEW o
  PROVE  Cardinality(Slots(changed, o)) + Count(lists[k], o)
           = Cardinality(Slots(lists, o)) + Count(changed[k], o)
<1> DEFINE D == DOMAIN lists \ {k}
           rest == [j \in D |-> lists[j]]
<1>1. FiniteLists(rest)
  <2>1. IsFiniteSet(D)
    BY FS_Subset DEF FiniteLists
  <2>2. QED
    BY <2>1 DEF FiniteLists
<1>2. k \notin DOMAIN rest /\ DOMAIN lists = DOMAIN rest \cup {k}
        /\ DOMAIN changed = DOMAIN rest \cup {k}
        /\ \A j \in DOMAIN rest : lists[j] = rest[j] /\ changed[j] = rest[j]
  OBVIOUS
<1>3. IsFiniteSet(DOMAIN lists[k])
  BY DEF FiniteLists
<1> HIDE DEF rest
<1>4. Cardinality(Slots(lists, o))
        = Cardinality(Slots(rest, o)) + Count(lists[k], o)
  BY <1>1, <1>2, <1>3, SlotsExtend
<1>5. Cardinality(Slots(changed, o))
        = Cardinality(Slots(rest, o)) + Count(changed[k], o)
  BY <1>1, <1>2, SlotsExtend
<1>6. /\ Cardinality(Slots(rest, o)) \in Nat
      /\ Count(lists[k], o) \in Nat /\ Count(changed[k], o) \in Nat
  BY <1>1, <1>3, SlotsFinite, CountZero
<1>7. QED
  BY <1>4, <1>5, <1>6

\* The lists of a sequence of finite lists.
LEMMA SequenceFiniteLists ==
  ASSUME NEW S, \A f \in S : IsFiniteSet(DOMAIN f), NEW s \in Seq(S)
  PROVE  FiniteLists(s)
<1>1. \A k \in DOMAIN s : s[k] \in S
  BY ElementOfSeq, LenProperties
<1>2. QED
  BY <1>1, SequenceFinite DEF FiniteLists

-----------------------------------------------------------------------------
(* The names of several scopes.                                             *)

LEMMA ScopesFinite ==
  ASSUME NEW S, NEW scopes \in Seq([Names -> S])
  PROVE  FiniteLists(scopes)
<1>1. \A f \in [Names -> S] : IsFiniteSet(DOMAIN f)
  BY ProgramsAssumption
<1>2. QED
  BY <1>1, SequenceFiniteLists

LEMMA AllNamesFinite ==
  ASSUME NEW S, NEW scopes \in Seq([Names -> S]), NEW o
  PROVE  IsFiniteSet(DOMAIN AllNames(scopes)) /\ Count(AllNames(scopes), o) \in Nat
<1>1. IsFiniteSet((DOMAIN scopes) \X Names)
  BY SequenceFinite, FS_Product, ProgramsAssumption
<1>2. DOMAIN AllNames(scopes) = (DOMAIN scopes) \X Names
  BY DEF AllNames
<1>3. QED
  BY <1>1, <1>2, CountZero

\* To count in all scopes at once is to count in each of them.
LEMMA AllNamesSlots ==
  ASSUME NEW S, NEW scopes \in Seq([Names -> S]), NEW o
  PROVE  Count(AllNames(scopes), o) = Cardinality(Slots(scopes, o))
<1> DEFINE X == {x \in DOMAIN AllNames(scopes) : AllNames(scopes)[x] = o}
<1>1. \A k \in DOMAIN scopes : DOMAIN scopes[k] = Names
  BY ElementOfSeq, LenProperties
<1>2. ASSUME NEW x \in X PROVE x \in Slots(scopes, o)
  <2>1. PICK k \in DOMAIN scopes, n \in Names : x = <<k, n>>
    BY DEF AllNames
  <2>2. scopes[k][n] = o
    BY <2>1 DEF AllNames
  <2>3. QED
    BY <1>1, <2>1, <2>2, SlotsMember
<1>3. ASSUME NEW x \in Slots(scopes, o) PROVE x \in X
  <2>1. PICK k \in DOMAIN scopes : \E n \in DOMAIN scopes[k] :
                                     x = <<k, n>> /\ scopes[k][n] = o
    BY SlotsMember
  <2>2. PICK n \in Names : x = <<k, n>> /\ scopes[k][n] = o
    BY <1>1, <2>1
  <2>3. x \in (DOMAIN scopes) \X Names
    BY <2>2
  <2>4. QED
    BY <2>2, <2>3 DEF AllNames
<1> HIDE DEF X
<1>4. X = Slots(scopes, o)
  BY <1>2, <1>3
<1>5. QED
  BY <1>4 DEF Count, X

LEMMA AllNamesEmpty ==
  ASSUME NEW o
  PROVE  Count(AllNames(<<>>), o) = 0
<1>1. DOMAIN AllNames(<<>>) = {}
  BY DEF AllNames
<1>2. {x \in DOMAIN AllNames(<<>>) : AllNames(<<>>)[x] = o} = {}
  BY <1>1
<1>3. QED
  BY <1>2, FS_EmptySet DEF Count

LEMMA AllNamesAppend ==
  ASSUME NEW S, NEW scopes \in Seq([Names -> S]), NEW s \in [Names -> S], NEW o
  PROVE  Count(AllNames(Append(scopes, s)), o)
           = Count(AllNames(scopes), o) + Count(s, o)
<1> DEFINE T == [Names -> S]
           more == Append(scopes, s)
           k == Len(scopes) + 1
<1>1. FiniteLists(scopes)
  BY ScopesFinite
<1>2. DOMAIN scopes = 1..Len(scopes) /\ Len(scopes) \in Nat
  BY LenProperties
<1>3. IsFiniteSet(DOMAIN s)
  BY ProgramsAssumption
<1> HIDE DEF T
<1>4. /\ more \in Seq(T) /\ Len(more) = k /\ more[k] = s
      /\ \A j \in 1..Len(scopes) : more[j] = scopes[j]
  BY AppendProperties DEF T
<1>5. DOMAIN more = 1..k
  BY <1>4, LenProperties
<1> HIDE DEF more
<1>6. k \notin DOMAIN scopes /\ DOMAIN more = DOMAIN scopes \cup {k}
  BY <1>2, <1>5
<1>7. \A j \in DOMAIN scopes : more[j] = scopes[j]
  BY <1>2, <1>4
<1> HIDE DEF k
<1>8. Cardinality(Slots(more, o))
        = Cardinality(Slots(scopes, o)) + Count(more[k], o)
  <2>1. IsFiniteSet(DOMAIN more[k])
    BY <1>3, <1>4
  <2>2. QED
    BY ONLY <1>1, <1>6, <1>7, <2>1, SlotsExtend
<1>9. /\ Count(AllNames(more), o) = Cardinality(Slots(more, o))
      /\ Count(AllNames(scopes), o) = Cardinality(Slots(scopes, o))
  BY <1>4, AllNamesSlots DEF T
<1>10. QED
  BY <1>4, <1>8, <1>9 DEF more

LEMMA AllNamesDrop ==
  ASSUME NEW S, NEW scopes \in Seq([Names -> S]), Len(scopes) >= 1, NEW o
  PROVE  Count(AllNames(scopes), o)
           = Count(AllNames(Drop(scopes, 1)), o) + Count(scopes[Len(scopes)], o)
<1> DEFINE T == [Names -> S]
           fewer == Drop(scopes, 1)
           last == scopes[Len(scopes)]
<1> HIDE DEF T
<1>1. fewer \in Seq(T) /\ Len(fewer) = Len(scopes) - 1 /\ last \in T
  BY CountDrop DEF T
<1>2. scopes = Append(fewer, last)
  BY SplitLast DEF T
<1> HIDE DEF fewer, last
<1>3. Count(AllNames(Append(fewer, last)), o)
        = Count(AllNames(fewer), o) + Count(last, o)
  BY <1>1, AllNamesAppend DEF T
<1>4. QED
  BY <1>2, <1>3 DEF fewer, last

\* The scopes whose names are bound to elements of S.
ScopeOver(S) == [Names -> S]

\* bound are the scopes after the name of the innermost one is bound to e.
Rebound(scopes, name, e, bound) ==
  /\ DOMAIN bound = DOMAIN scopes
  /\ bound[Len(scopes)][name] = e
  /\ \A j \in DOMAIN scopes : \A n \in Names :
       j # Len(scopes) \/ n # name => bound[j][n] = scopes[j][n]

LEMMA AllNamesBind ==
  ASSUME NEW S, NEW scopes \in Seq(ScopeOver(S)), Len(scopes) >= 1,
         NEW name \in Names, NEW e,
         NEW bound, Rebound(scopes, name, e, bound), NEW o
  PROVE  Count(AllNames(bound), o) + One(scopes[Len(scopes)][name], o)
           = Count(AllNames(scopes), o) + One(e, o)
<1> DEFINE k == Len(scopes)
           f == AllNames(scopes)
           g == AllNames(bound)
           x == <<k, name>>
<1>1. DOMAIN scopes = 1..k /\ k \in Nat
  BY LenProperties
<1>2. k \in DOMAIN scopes /\ DOMAIN scopes[k] = Names
  BY <1>1, ElementOfSeq DEF ScopeOver
<1>3. /\ DOMAIN bound = DOMAIN scopes /\ bound[k][name] = e
      /\ \A j \in DOMAIN scopes : \A n \in Names :
           <<j, n>> # x => bound[j][n] = scopes[j][n]
  BY <1>2 DEF Rebound
<1>4. IsFiniteSet(DOMAIN f)
  BY AllNamesFinite DEF ScopeOver
<1>5. x \in DOMAIN f /\ DOMAIN g = DOMAIN f
  BY <1>2, <1>3 DEF AllNames
<1>6. f[x] = scopes[k][name] /\ g[x] = e
  BY <1>2, <1>3, <1>5 DEF AllNames
<1>7. \A i \in DOMAIN f : i # x => g[i] = f[i]
  <2>1. TAKE i \in DOMAIN f
  <2>2. PICK j \in DOMAIN scopes, n \in Names : i = <<j, n>>
    BY DEF AllNames
  <2>3. f[i] = scopes[j][n] /\ g[i] = bound[j][n]
    BY <1>3, <2>2 DEF AllNames
  <2>4. QED
    BY <1>3, <2>2, <2>3
<1> HIDE DEF f, g, x
<1>8. Count(g, o) + One(f[x], o) = Count(f, o) + One(g[x], o)
  BY <1>4, <1>5, <1>7, CountExcept
<1>9. QED
  BY <1>6, <1>8 DEF f, g

-----------------------------------------------------------------------------
(* Frames.                                                                  *)

\* The references to o that the frame f holds.
FrameCount(f, o) ==
  Count(f.stack, o) + Count(f.held, o) + Count(AllNames(f.scopes), o)

LEMMA FrameFinite ==
  ASSUME NEW S, NEW B, NEW f \in FrameRecord(S, B), NEW o
  PROVE  /\ IsFiniteSet(DOMAIN f.stack) /\ Count(f.stack, o) \in Nat
         /\ IsFiniteSet(DOMAIN f.held) /\ Count(f.held, o) \in Nat
         /\ IsFiniteSet(DOMAIN AllNames(f.scopes))
         /\ Count(AllNames(f.scopes), o) \in Nat
         /\ FrameCount(f, o) \in Nat
<1>1. /\ f.stack \in Seq(S) /\ f.held \in Seq(S)
      /\ f.scopes \in Seq([Names -> S \cup {Nil}])
  BY DEF FrameRecord
<1>2. /\ IsFiniteSet(DOMAIN f.stack) /\ Count(f.stack, o) \in Nat
      /\ IsFiniteSet(DOMAIN f.held) /\ Count(f.held, o) \in Nat
  BY <1>1, SequenceFinite, CountNat
<1>3. /\ IsFiniteSet(DOMAIN AllNames(f.scopes))
      /\ Count(AllNames(f.scopes), o) \in Nat
  BY <1>1, AllNamesFinite
<1>4. QED
  BY <1>2, <1>3 DEF FrameCount

LEMMA FramesFinite ==
  ASSUME NEW S, NEW B, NEW fs \in Seq(FrameRecord(S, B))
  PROVE  /\ FiniteLists(Stacks(fs)) /\ DOMAIN Stacks(fs) = 1..Len(fs)
         /\ FiniteLists(HeldLists(fs)) /\ DOMAIN HeldLists(fs) = 1..Len(fs)
         /\ FiniteLists(ScopeNames(fs)) /\ DOMAIN ScopeNames(fs) = 1..Len(fs)
         /\ \A k \in 1..Len(fs) : /\ Stacks(fs)[k] = fs[k].stack
                                  /\ HeldLists(fs)[k] = fs[k].held
                                  /\ ScopeNames(fs)[k] = AllNames(fs[k].scopes)
<1>1. IsFiniteSet(DOMAIN fs) /\ DOMAIN fs = 1..Len(fs) /\ Len(fs) \in Nat
  BY SequenceFinite
<1>2. \A k \in 1..Len(fs) : fs[k] \in FrameRecord(S, B)
  BY ElementOfSeq
<1>3. \A k \in 1..Len(fs) : /\ IsFiniteSet(DOMAIN fs[k].stack)
                            /\ IsFiniteSet(DOMAIN fs[k].held)
                            /\ IsFiniteSet(DOMAIN AllNames(fs[k].scopes))
  BY <1>2, FrameFinite
<1>4. QED
  BY <1>1, <1>3 DEF FiniteLists, Stacks, HeldLists, ScopeNames

LEMMA HoldersNat ==
  ASSUME NEW S, NEW B, NEW fs \in Seq(FrameRecord(S, B)),
         IsFiniteSet(DOMAIN meta), NEW o
  PROVE  /\ HoldersIn(fs, o) \in Nat
         /\ Count(meta, o) \in Nat
         /\ HoldersIn(fs, o) >= Count(meta, o)
<1>1. /\ Cardinality(Slots(Stacks(fs), o)) \in Nat
      /\ Cardinality(Slots(HeldLists(fs), o)) \in Nat
      /\ Cardinality(Slots(ScopeNames(fs), o)) \in Nat
  BY FramesFinite, SlotsFinite
<1>2. Count(meta, o) \in Nat
  BY CountZero
<1>3. QED
  BY <1>1, <1>2 DEF HoldersIn

LEMMA HoldersNone ==
  ASSUME NEW o, IsFiniteSet(DOMAIN meta)
  PROVE  HoldersIn(<<>>, o) = Count(meta, o)
<1>1. DOMAIN Stacks(<<>>) = {} /\ DOMAIN HeldLists(<<>>) = {}
        /\ DOMAIN ScopeNames(<<>>) = {}
  BY DEF Stacks, HeldLists, ScopeNames
<1>2. /\ Cardinality(Slots(Stacks(<<>>), o)) = 0
      /\ Cardinality(Slots(HeldLists(<<>>), o)) = 0
      /\ Cardinality(Slots(ScopeNames(<<>>), o)) = 0
  BY <1>1, SlotsEmpty
<1>3. Count(meta, o) \in Nat
  BY CountZero
<1>4. QED
  BY <1>2, <1>3 DEF HoldersIn

\* The frame k becomes g.
LEMMA HoldersReplace ==
  ASSUME NEW S, NEW B, NEW fs \in Seq(FrameRecord(S, B)),
         NEW k \in 1..Len(fs), NEW g \in FrameRecord(S, B),
         IsFiniteSet(DOMAIN meta), NEW o
  PROVE  HoldersIn([fs EXCEPT ![k] = g], o) + FrameCount(fs[k], o)
           = HoldersIn(fs, o) + FrameCount(g, o)
<1> DEFINE record == FrameRecord(S, B)
           gs == [fs EXCEPT ![k] = g]
<1>1. fs[k] \in record
  BY ElementOfSeq
<1> HIDE DEF record
<1>2. /\ gs \in Seq(record) /\ Len(gs) = Len(fs) /\ gs[k] = g
      /\ \A j \in 1..Len(fs) : j # k => gs[j] = fs[j]
  BY ExceptSeq DEF record
<1> HIDE DEF gs
<1>3. /\ IsFiniteSet(DOMAIN g.stack) /\ IsFiniteSet(DOMAIN g.held)
      /\ IsFiniteSet(DOMAIN AllNames(g.scopes))
  BY FrameFinite
<1>4. Cardinality(Slots(Stacks(gs), o)) + Count(fs[k].stack, o)
        = Cardinality(Slots(Stacks(fs), o)) + Count(g.stack, o)
  <2>1. /\ FiniteLists(Stacks(fs)) /\ k \in DOMAIN Stacks(fs)
        /\ DOMAIN Stacks(gs) = DOMAIN Stacks(fs)
        /\ \A j \in DOMAIN Stacks(fs) : j # k => Stacks(gs)[j] = Stacks(fs)[j]
        /\ Stacks(fs)[k] = fs[k].stack /\ Stacks(gs)[k] = g.stack
    BY <1>2, FramesFinite DEF record
  <2>2. QED
    BY <1>3, <2>1, SlotsReplace
<1>5. Cardinality(Slots(HeldLists(gs), o)) + Count(fs[k].held, o)
        = Cardinality(Slots(HeldLists(fs), o)) + Count(g.held, o)
  <2>1. /\ FiniteLists(HeldLists(fs)) /\ k \in DOMAIN HeldLists(fs)
        /\ DOMAIN HeldLists(gs) = DOMAIN HeldLists(fs)
        /\ \A j \in DOMAIN HeldLists(fs) :
             j # k => HeldLists(gs)[j] = HeldLists(fs)[j]
        /\ HeldLists(fs)[k] = fs[k].held /\ HeldLists(gs)[k] = g.held
    BY <1>2, FramesFinite DEF record
  <2>2. QED
    BY <1>3, <2>1, SlotsReplace
<1>6. Cardinality(Slots(ScopeNames(gs), o)) + Count(AllNames(fs[k].scopes), o)
        = Cardinality(Slots(ScopeNames(fs), o)) + Count(AllNames(g.scopes), o)
  <2>1. /\ FiniteLists(ScopeNames(fs)) /\ k \in DOMAIN ScopeNames(fs)
        /\ DOMAIN ScopeNames(gs) = DOMAIN ScopeNames(fs)
        /\ \A j \in DOMAIN ScopeNames(fs) :
             j # k => ScopeNames(gs)[j] = ScopeNames(fs)[j]
        /\ ScopeNames(fs)[k] = AllNames(fs[k].scopes)
        /\ ScopeNames(gs)[k] = AllNames(g.scopes)
    BY <1>2, FramesFinite DEF record
  <2>2. QED
    BY <1>3, <2>1, SlotsReplace
<1>7. /\ Cardinality(Slots(Stacks(fs), o)) \in Nat
      /\ Cardinality(Slots(HeldLists(fs), o)) \in Nat
      /\ Cardinality(Slots(ScopeNames(fs), o)) \in Nat
      /\ Cardinality(Slots(Stacks(gs), o)) \in Nat
      /\ Cardinality(Slots(HeldLists(gs), o)) \in Nat
      /\ Cardinality(Slots(ScopeNames(gs), o)) \in Nat
      /\ Count(meta, o) \in Nat
  BY <1>2, FramesFinite, SlotsFinite, CountZero DEF record
<1>8. /\ Count(fs[k].stack, o) \in Nat /\ Count(fs[k].held, o) \in Nat
      /\ Count(AllNames(fs[k].scopes), o) \in Nat
      /\ Count(g.stack, o) \in Nat /\ Count(g.held, o) \in Nat
      /\ Count(AllNames(g.scopes), o) \in Nat
  BY <1>1, FrameFinite DEF record
<1>9. HoldersIn(gs, o) + FrameCount(fs[k], o)
        = HoldersIn(fs, o) + FrameCount(g, o)
  <2> DEFINE m  == Count(meta, o)
             s1 == Cardinality(Slots(Stacks(fs), o))
             h1 == Cardinality(Slots(HeldLists(fs), o))
             n1 == Cardinality(Slots(ScopeNames(fs), o))
             s2 == Cardinality(Slots(Stacks(gs), o))
             h2 == Cardinality(Slots(HeldLists(gs), o))
             n2 == Cardinality(Slots(ScopeNames(gs), o))
             x1 == Count(fs[k].stack, o)
             y1 == Count(fs[k].held, o)
             z1 == Count(AllNames(fs[k].scopes), o)
             x2 == Count(g.stack, o)
             y2 == Count(g.held, o)
             z2 == Count(AllNames(g.scopes), o)
  <2>1. /\ HoldersIn(fs, o) = m + s1 + h1 + n1
        /\ HoldersIn(gs, o) = m + s2 + h2 + n2
        /\ FrameCount(fs[k], o) = x1 + y1 + z1
        /\ FrameCount(g, o) = x2 + y2 + z2
    BY DEF HoldersIn, FrameCount
  <2>2. s2 + x1 = s1 + x2 /\ h2 + y1 = h1 + y2 /\ n2 + z1 = n1 + z2
    BY <1>4, <1>5, <1>6
  <2>3. /\ m \in Nat /\ s1 \in Nat /\ h1 \in Nat /\ n1 \in Nat
        /\ s2 \in Nat /\ h2 \in Nat /\ n2 \in Nat
        /\ x1 \in Nat /\ y1 \in Nat /\ z1 \in Nat
        /\ x2 \in Nat /\ y2 \in Nat /\ z2 \in Nat
    BY <1>7, <1>8
  <2> HIDE DEF m, s1, h1, n1, s2, h2, n2, x1, y1, z1, x2, y2, z2
  <2>4. QED
    BY <2>1, <2>2, <2>3
<1>10. QED
  BY <1>9 DEF gs

\* A frame more.
LEMMA HoldersAppend ==
  ASSUME NEW S, NEW B, NEW fs \in Seq(FrameRecord(S, B)),
         NEW g \in FrameRecord(S, B), IsFiniteSet(DOMAIN meta), NEW o
  PROVE  HoldersIn(Append(fs, g), o) = HoldersIn(fs, o) + FrameCount(g, o)
<1> DEFINE record == FrameRecord(S, B)
           gs == Append(fs, g)
           k == Len(fs) + 1
<1>1. Len(fs) \in Nat /\ k \in Nat /\ 1..k = (1..Len(fs)) \cup {k}
        /\ k \notin 1..Len(fs)
  BY LenProperties
<1> HIDE DEF record
<1>2. /\ gs \in Seq(record) /\ Len(gs) = k /\ gs[k] = g
      /\ \A j \in 1..Len(fs) : gs[j] = fs[j]
  BY AppendProperties DEF record
<1> HIDE DEF gs, k
<1>3. /\ IsFiniteSet(DOMAIN g.stack) /\ IsFiniteSet(DOMAIN g.held)
      /\ IsFiniteSet(DOMAIN AllNames(g.scopes))
  BY FrameFinite
<1> DEFINE M == 1..Len(fs)
           N == 1..Len(gs)
<1>4. N = M \cup {k} /\ k \notin M /\ gs[k] = g /\ \A j \in M : gs[j] = fs[j]
  BY <1>1, <1>2
<1>5. /\ DOMAIN Stacks(fs) = M /\ DOMAIN Stacks(gs) = N
      /\ DOMAIN HeldLists(fs) = M /\ DOMAIN HeldLists(gs) = N
      /\ DOMAIN ScopeNames(fs) = M /\ DOMAIN ScopeNames(gs) = N
      /\ \A j \in M : /\ Stacks(fs)[j] = fs[j].stack
                      /\ HeldLists(fs)[j] = fs[j].held
                      /\ ScopeNames(fs)[j] = AllNames(fs[j].scopes)
      /\ \A j \in N : /\ Stacks(gs)[j] = gs[j].stack
                      /\ HeldLists(gs)[j] = gs[j].held
                      /\ ScopeNames(gs)[j] = AllNames(gs[j].scopes)
  BY <1>2, FramesFinite DEF record
<1>6. /\ FiniteLists(Stacks(fs)) /\ FiniteLists(HeldLists(fs))
      /\ FiniteLists(ScopeNames(fs))
  BY FramesFinite
<1> HIDE DEF M, N
<1>7. Cardinality(Slots(Stacks(gs), o))
        = Cardinality(Slots(Stacks(fs), o)) + Count(g.stack, o)
  <2>1. /\ FiniteLists(Stacks(fs)) /\ k \notin DOMAIN Stacks(fs)
        /\ DOMAIN Stacks(gs) = DOMAIN Stacks(fs) \cup {k}
        /\ \A j \in DOMAIN Stacks(fs) : Stacks(gs)[j] = Stacks(fs)[j]
        /\ Stacks(gs)[k] = g.stack
    BY <1>4, <1>5, <1>6
  <2>2. QED
    BY <1>3, <2>1, SlotsExtend
<1>8. Cardinality(Slots(HeldLists(gs), o))
        = Cardinality(Slots(HeldLists(fs), o)) + Count(g.held, o)
  <2>1. /\ FiniteLists(HeldLists(fs)) /\ k \notin DOMAIN HeldLists(fs)
        /\ DOMAIN HeldLists(gs) = DOMAIN HeldLists(fs) \cup {k}
        /\ \A j \in DOMAIN HeldLists(fs) : HeldLists(gs)[j] = HeldLists(fs)[j]
        /\ HeldLists(gs)[k] = g.held
    BY <1>4, <1>5, <1>6
  <2>2. QED
    BY <1>3, <2>1, SlotsExtend
<1>9. Cardinality(Slots(ScopeNames(gs), o))
        = Cardinality(Slots(ScopeNames(fs), o)) + Count(AllNames(g.scopes), o)
  <2>1. /\ FiniteLists(ScopeNames(fs)) /\ k \notin DOMAIN ScopeNames(fs)
        /\ DOMAIN ScopeNames(gs) = DOMAIN ScopeNames(fs) \cup {k}
        /\ \A j \in DOMAIN ScopeNames(fs) : ScopeNames(gs)[j] = ScopeNames(fs)[j]
        /\ ScopeNames(gs)[k] = AllNames(g.scopes)
    BY <1>4, <1>5, <1>6
  <2>2. QED
    BY <1>3, <2>1, SlotsExtend
<1>10. HoldersIn(gs, o) = HoldersIn(fs, o) + FrameCount(g, o)
  <2> DEFINE m  == Count(meta, o)
             s1 == Cardinality(Slots(Stacks(fs), o))
             h1 == Cardinality(Slots(HeldLists(fs), o))
             n1 == Cardinality(Slots(ScopeNames(fs), o))
             x2 == Count(g.stack, o)
             y2 == Count(g.held, o)
             z2 == Count(AllNames(g.scopes), o)
  <2>1. /\ HoldersIn(fs, o) = m + s1 + h1 + n1
        /\ HoldersIn(gs, o) = m + (s1 + x2) + (h1 + y2) + (n1 + z2)
        /\ FrameCount(g, o) = x2 + y2 + z2
    BY <1>7, <1>8, <1>9 DEF HoldersIn, FrameCount
  <2>2. m \in Nat /\ s1 \in Nat /\ h1 \in Nat /\ n1 \in Nat
    BY FramesFinite, SlotsFinite, CountZero
  <2>3. x2 \in Nat /\ y2 \in Nat /\ z2 \in Nat
    BY FrameFinite
  <2> HIDE DEF m, s1, h1, n1, x2, y2, z2
  <2>4. QED
    BY <2>1, <2>2, <2>3
<1>11. QED
  BY <1>10 DEF gs

\* The last frame away.
LEMMA HoldersPrefix ==
  ASSUME NEW S, NEW B, NEW fs \in Seq(FrameRecord(S, B)), Len(fs) >= 1,
         IsFiniteSet(DOMAIN meta), NEW o
  PROVE  HoldersIn(fs, o)
           = HoldersIn(Drop(fs, 1), o) + FrameCount(fs[Len(fs)], o)
<1> DEFINE below == Drop(fs, 1)
           g == fs[Len(fs)]
           record == FrameRecord(S, B)
<1> HIDE DEF record
<1>1. below \in Seq(record) /\ g \in record /\ fs = Append(below, g)
  BY CountDrop, SplitLast DEF record
<1> HIDE DEF below, g
<1>2. HoldersIn(Append(below, g), o) = HoldersIn(below, o) + FrameCount(g, o)
  BY <1>1, HoldersAppend DEF record
<1>3. QED
  BY <1>1, <1>2 DEF below, g

\* A pointer the frames cannot hold.
LEMMA HoldersNowhere ==
  ASSUME NEW S, NEW B, NEW fs \in Seq(FrameRecord(S, B)),
         IsFiniteSet(DOMAIN meta), NEW o, o \notin S, o # Nil
  PROVE  HoldersIn(fs, o) = Count(meta, o)
<1>1. ASSUME NEW k \in 1..Len(fs)
      PROVE  /\ \A i \in DOMAIN fs[k].stack : fs[k].stack[i] # o
             /\ \A i \in DOMAIN fs[k].held : fs[k].held[i] # o
             /\ \A x \in DOMAIN AllNames(fs[k].scopes) :
                  AllNames(fs[k].scopes)[x] # o
  <2> DEFINE f == fs[k]
  <2>1. f \in FrameRecord(S, B)
    BY ElementOfSeq
  <2> HIDE DEF f
  <2>2. /\ f.stack \in Seq(S) /\ f.held \in Seq(S)
        /\ f.scopes \in Seq([Names -> S \cup {Nil}])
    BY <2>1 DEF FrameRecord
  <2>3. /\ \A i \in DOMAIN f.stack : f.stack[i] \in S
        /\ \A i \in DOMAIN f.held : f.held[i] \in S
        /\ \A i \in DOMAIN f.scopes : f.scopes[i] \in [Names -> S \cup {Nil}]
    BY <2>2, ElementOfSeq, LenProperties
  <2>4. \A x \in DOMAIN AllNames(f.scopes) : AllNames(f.scopes)[x] \in S \cup {Nil}
    <3>1. TAKE x \in DOMAIN AllNames(f.scopes)
    <3>2. PICK i \in DOMAIN f.scopes, n \in Names : x = <<i, n>>
      BY DEF AllNames
    <3>3. AllNames(f.scopes)[x] = f.scopes[i][n]
      BY <3>2 DEF AllNames
    <3>4. QED
      BY <2>3, <3>3
  <2>5. QED
    BY <2>3, <2>4 DEF f
<1>2. /\ Cardinality(Slots(Stacks(fs), o)) = 0
      /\ Cardinality(Slots(HeldLists(fs), o)) = 0
      /\ Cardinality(Slots(ScopeNames(fs), o)) = 0
  BY <1>1, FramesFinite, SlotsNowhere
<1>3. Count(meta, o) \in Nat
  BY CountZero
<1>4. QED
  BY <1>2, <1>3 DEF HoldersIn

-----------------------------------------------------------------------------
(* Exact counts.                                                            *)

\* The counts of h are exact when H[o] references to o are held.
Exact(h, H) ==
  \A o \in DOMAIN h :
    IF h[o].live
    THEN /\ h[o].refs = H[o] + h[o].lost
         /\ h[o].refs > 0
    ELSE H[o] = 0

LEMMA HeapFields ==
  ASSUME NEW h \in Seq(ObjectRecord), NEW o \in DOMAIN h
  PROVE  /\ h[o] \in ObjectRecord
         /\ h[o].refs \in Nat /\ h[o].lost \in Nat /\ h[o].live \in BOOLEAN
<1>1. h[o] \in ObjectRecord
  BY ElementOfSeq, LenProperties
<1>2. QED
  BY <1>1 DEF ObjectRecord

\* The three fields of a record of which others were changed.
LEMMA FieldsChanged ==
  ASSUME NEW r \in ObjectRecord, NEW n \in Nat
  PROVE  /\ [r EXCEPT !.refs = n].refs = n
         /\ [r EXCEPT !.refs = n].live = r.live
         /\ [r EXCEPT !.refs = n].lost = r.lost
         /\ [r EXCEPT !.lost = n].refs = r.refs
         /\ [r EXCEPT !.lost = n].live = r.live
         /\ [r EXCEPT !.lost = n].lost = n
         /\ [r EXCEPT !.refs = 0, !.live = FALSE].live = FALSE
BY DEF ObjectRecord

\* Whoever gives back the references of f holds that many fewer.
LEMMA ExactRelease ==
  ASSUME NEW h \in Seq(ObjectRecord), NEW f, IsFiniteSet(DOMAIN f),
         NEW H, NEW G, Exact(h, H),
         \A o \in DOMAIN h : G[o] \in Nat /\ H[o] = G[o] + Count(f, o)
  PROVE  Exact(Release(h, f), G)
<1>1. DOMAIN Release(h, f) = DOMAIN h
  BY DEF Release
<1>2. ASSUME NEW o \in DOMAIN h
      PROVE  LET r == Release(h, f)[o]
             IN IF r.live THEN r.refs = G[o] + r.lost /\ r.refs > 0 ELSE G[o] = 0
  <2> DEFINE r == Release(h, f)[o]
             c == Count(f, o)
  <2>1. h[o] \in ObjectRecord /\ h[o].refs \in Nat /\ h[o].lost \in Nat
    BY HeapFields
  <2>2. c \in Nat /\ G[o] \in Nat /\ H[o] = G[o] + c
    BY CountZero
  <2>3. /\ h[o].live => h[o].refs = H[o] + h[o].lost /\ h[o].refs > 0
        /\ ~h[o].live => H[o] = 0
    BY DEF Exact
  <2>4. r = IF c = 0 THEN h[o]
            ELSE IF h[o].refs <= c THEN [h[o] EXCEPT !.refs = 0, !.live = FALSE]
                 ELSE [h[o] EXCEPT !.refs = h[o].refs - c]
    BY DEF Release
  <2> HIDE DEF r, c
  <2>5. CASE c = 0
    BY <2>2, <2>3, <2>4, <2>5 DEF r
  <2>6. CASE c # 0 /\ h[o].refs <= c
    <3>1. r.live = FALSE
      BY <2>1, <2>4, <2>6, FieldsChanged
    <3>2. h[o].live
      BY <2>2, <2>3, <2>6
    <3>3. G[o] = 0
      BY <2>1, <2>2, <2>3, <2>6, <3>2
    <3>4. QED
      BY <3>1, <3>3 DEF r
  <2>7. CASE c # 0 /\ ~(h[o].refs <= c)
    <3> DEFINE n == h[o].refs - c
    <3>1. n \in Nat /\ n > 0
      BY <2>1, <2>2, <2>7
    <3>2. h[o].live /\ n = G[o] + h[o].lost
      BY <2>1, <2>2, <2>3, <2>7
    <3>3. r = [h[o] EXCEPT !.refs = n]
      BY <2>4, <2>7
    <3> HIDE DEF n
    <3>4. r.refs = n /\ r.live = h[o].live /\ r.lost = h[o].lost
      BY <2>1, <3>1, <3>3, FieldsChanged
    <3>5. QED
      BY <3>1, <3>2, <3>4 DEF r
  <2>8. QED
    BY <2>5, <2>6, <2>7
<1>3. QED
  BY <1>1, <1>2 DEF Exact

\* New references are counted, to objects somebody holds already.
LEMMA ExactAcquire ==
  ASSUME NEW h \in Seq(ObjectRecord), NEW f, IsFiniteSet(DOMAIN f),
         NEW H, NEW G, Exact(h, H),
         \A o \in DOMAIN h : /\ H[o] \in Nat /\ G[o] = H[o] + Count(f, o)
                             /\ Count(f, o) > 0 => H[o] > 0
  PROVE  Exact(Acquire(h, f), G)
<1>1. DOMAIN Acquire(h, f) = DOMAIN h
  BY DEF Acquire
<1>2. ASSUME NEW o \in DOMAIN h
      PROVE  LET r == Acquire(h, f)[o]
             IN IF r.live THEN r.refs = G[o] + r.lost /\ r.refs > 0 ELSE G[o] = 0
  <2> DEFINE r == Acquire(h, f)[o]
             c == Count(f, o)
             n == h[o].refs + c
  <2>1. h[o] \in ObjectRecord /\ h[o].refs \in Nat /\ h[o].lost \in Nat
    BY HeapFields
  <2>2. c \in Nat /\ H[o] \in Nat /\ G[o] = H[o] + c /\ (c > 0 => H[o] > 0)
    BY CountZero
  <2>3. /\ h[o].live => h[o].refs = H[o] + h[o].lost /\ h[o].refs > 0
        /\ ~h[o].live => H[o] = 0
    BY DEF Exact
  <2>4. r = [h[o] EXCEPT !.refs = n]
    BY DEF Acquire
  <2> HIDE DEF r, c
  <2>5. n \in Nat
    BY <2>1, <2>2
  <2>6. r.refs = n /\ r.live = h[o].live /\ r.lost = h[o].lost
    <3> HIDE DEF n
    <3>1. QED
      BY <2>1, <2>4, <2>5, FieldsChanged
  <2>7. CASE h[o].live
    <3>1. n = G[o] + h[o].lost /\ n > 0
      BY <2>1, <2>2, <2>3, <2>7
    <3>2. QED
      BY <2>6, <2>7, <3>1 DEF r
  <2>8. CASE ~h[o].live
    <3>1. G[o] = 0
      BY <2>2, <2>3, <2>8
    <3>2. QED
      BY <2>6, <2>8, <3>1 DEF r
  <2>9. QED
    BY <2>7, <2>8
<1>3. QED
  BY <1>1, <1>2 DEF Exact

\* A list that goes away with its references takes them out of the count.
LEMMA ExactLose ==
  ASSUME NEW h \in Seq(ObjectRecord), NEW f, IsFiniteSet(DOMAIN f),
         NEW H, NEW G, Exact(h, H),
         \A o \in DOMAIN h : G[o] \in Nat /\ H[o] = G[o] + Count(f, o)
  PROVE  Exact(Lose(h, f), G)
<1>1. DOMAIN Lose(h, f) = DOMAIN h
  BY DEF Lose
<1>2. ASSUME NEW o \in DOMAIN h
      PROVE  LET r == Lose(h, f)[o]
             IN IF r.live THEN r.refs = G[o] + r.lost /\ r.refs > 0 ELSE G[o] = 0
  <2> DEFINE r == Lose(h, f)[o]
             c == Count(f, o)
             n == h[o].lost + c
  <2>1. h[o] \in ObjectRecord /\ h[o].refs \in Nat /\ h[o].lost \in Nat
    BY HeapFields
  <2>2. c \in Nat /\ G[o] \in Nat /\ H[o] = G[o] + c
    BY CountZero
  <2>3. /\ h[o].live => h[o].refs = H[o] + h[o].lost /\ h[o].refs > 0
        /\ ~h[o].live => H[o] = 0
    BY DEF Exact
  <2>4. r = [h[o] EXCEPT !.lost = n]
    BY DEF Lose
  <2> HIDE DEF r, c
  <2>5. n \in Nat
    BY <2>1, <2>2
  <2>6. r.refs = h[o].refs /\ r.live = h[o].live /\ r.lost = n
    <3> HIDE DEF n
    <3>1. QED
      BY <2>1, <2>4, <2>5, FieldsChanged
  <2>7. CASE h[o].live
    <3>1. h[o].refs = G[o] + n
      BY <2>1, <2>2, <2>3, <2>7
    <3>2. QED
      BY <2>3, <2>6, <2>7, <3>1 DEF r
  <2>8. CASE ~h[o].live
    <3>1. G[o] = 0
      BY <2>2, <2>3, <2>8
    <3>2. QED
      BY <2>6, <2>8, <3>1 DEF r
  <2>9. QED
    BY <2>7, <2>8
<1>3. QED
  BY <1>1, <1>2 DEF Exact

LEMMA IncrefIsAcquire ==
  ASSUME NEW h \in Seq(ObjectRecord), NEW o \in DOMAIN h
  PROVE  Incref(h, o) = Acquire(h, <<o>>)
<1> DEFINE a == Incref(h, o)
           b == Acquire(h, <<o>>)
<1>1. DOMAIN a = DOMAIN h /\ DOMAIN b = DOMAIN h
  BY DEF Incref, Acquire
<1>2. ASSUME NEW p \in DOMAIN h PROVE a[p] = b[p]
  <2>1. h[p] \in ObjectRecord /\ h[p].refs \in Nat
    BY HeapFields
  <2>2. b[p] = [h[p] EXCEPT !.refs = h[p].refs + One(o, p)]
    BY CountOne DEF Acquire
  <2>3. CASE p = o
    <3>1. a[p] = [h[p] EXCEPT !.refs = h[p].refs + 1]
      BY <2>3 DEF Incref
    <3>2. QED
      BY <2>2, <2>3, <3>1 DEF One
  <2>4. CASE p # o
    <3>1. a[p] = h[p]
      BY <2>4 DEF Incref
    <3>2. b[p] = [h[p] EXCEPT !.refs = h[p].refs]
      BY <2>1, <2>2, <2>4 DEF One
    <3>3. QED
      BY <2>1, <3>1, <3>2 DEF ObjectRecord
  <2>5. QED
    BY <2>3, <2>4
<1>3. a = [p \in DOMAIN h |-> a[p]] /\ b = [p \in DOMAIN h |-> b[p]]
  BY DEF Incref, Acquire
<1> HIDE DEF a, b
<1>4. a = b
  BY <1>2, <1>3
<1>5. QED
  BY <1>4 DEF a, b

LEMMA ExactIncref ==
  ASSUME NEW h \in Seq(ObjectRecord), NEW o \in DOMAIN h,
         NEW H, NEW G, Exact(h, H), H[o] > 0,
         \A p \in DOMAIN h : H[p] \in Nat /\ G[p] = H[p] + One(o, p)
  PROVE  Exact(Incref(h, o), G)
<1>1. IsFiniteSet(DOMAIN <<o>>)
  <2>1. <<o>> \in Seq({o})
    OBVIOUS
  <2>2. QED
    BY <2>1, SequenceFinite
<1>2. \A p \in DOMAIN h : /\ H[p] \in Nat /\ G[p] = H[p] + Count(<<o>>, p)
                          /\ Count(<<o>>, p) > 0 => H[p] > 0
  <2>1. \A p : Count(<<o>>, p) = One(o, p)
    BY CountOne
  <2>2. \A p : One(o, p) > 0 => p = o
    BY DEF One
  <2>3. QED
    BY <2>1, <2>2
<1>3. Exact(Acquire(h, <<o>>), G)
  BY <1>1, <1>2, ExactAcquire
<1>4. QED
  BY <1>3, IncrefIsAcquire

\* A new object, held as often as it was counted when it was made.
LEMMA ExactAppend ==
  ASSUME NEW h \in Seq(ObjectRecord), NEW r \in ObjectRecord,
         r.live, r.lost = 0, r.refs > 0,
         NEW H, NEW G, Exact(h, H),
         \A o \in DOMAIN h : G[o] = H[o], G[Len(h) + 1] = r.refs
  PROVE  Exact(Append(h, r), G)
<1> DEFINE g == Append(h, r)
           n == Len(h) + 1
<1>1. g \in Seq(ObjectRecord) /\ Len(g) = n /\ g[n] = r
        /\ \A o \in 1..Len(h) : g[o] = h[o]
  BY AppendProperties
<1>2. DOMAIN h = 1..Len(h) /\ Len(h) \in Nat
  BY LenProperties
<1>3. DOMAIN g = 1..n
  BY <1>1, LenProperties
<1> HIDE DEF g
<1>4. \A o \in DOMAIN g : o = n \/ o \in DOMAIN h
  BY <1>2, <1>3
<1>5. r.refs \in Nat
  BY DEF ObjectRecord
<1> HIDE DEF n
<1>6. ASSUME NEW o \in DOMAIN g
      PROVE  IF g[o].live THEN g[o].refs = G[o] + g[o].lost /\ g[o].refs > 0
             ELSE G[o] = 0
  <2>1. CASE o = n
    <3>1. g[o] = r /\ G[o] = r.refs
      BY <1>1, <2>1 DEF n
    <3>2. QED
      BY <1>5, <3>1
  <2>2. CASE o # n
    <3>1. o \in DOMAIN h
      BY <1>4, <2>2
    <3>2. g[o] = h[o] /\ G[o] = H[o]
      BY <1>1, <1>2, <3>1
    <3>3. QED
      BY <3>1, <3>2 DEF Exact
  <2>3. QED
    BY <2>1, <2>2
<1>7. QED
  BY <1>6 DEF Exact, g

\* Objects are freed whatever their counts are: nobody may hold them any more.
LEMMA ExactFree ==
  ASSUME NEW h \in Seq(ObjectRecord), NEW S, NEW H, NEW G, Exact(h, H),
         \A o \in DOMAIN h : IF o \in S THEN G[o] = 0 ELSE G[o] = H[o]
  PROVE  Exact(Free(h, S), G)
<1>1. DOMAIN Free(h, S) = DOMAIN h
  BY DEF Free
<1>2. ASSUME NEW o \in DOMAIN h
      PROVE  LET r == Free(h, S)[o]
             IN IF r.live THEN r.refs = G[o] + r.lost /\ r.refs > 0 ELSE G[o] = 0
  <2> DEFINE r == Free(h, S)[o]
  <2>1. CASE o \in S
    <3>1. r = [h[o] EXCEPT !.refs = 0, !.live = FALSE]
      BY <2>1 DEF Free
    <3> HIDE DEF r
    <3>2. r.live = FALSE
      BY <3>1, HeapFields, FieldsChanged
    <3>3. QED
      BY <2>1, <3>2 DEF r
  <2>2. CASE o \notin S
    <3>1. r = h[o] /\ G[o] = H[o]
      BY <2>2 DEF Free
    <3> HIDE DEF r
    <3>2. QED
      BY <3>1 DEF Exact, r
  <2>3. QED
    BY <2>1, <2>2
<1>3. QED
  BY <1>1, <1>2 DEF Exact

-----------------------------------------------------------------------------
(* Scope::set_name.                                                         *)

LEMMA RefsTwice ==
  ASSUME NEW r \in ObjectRecord, NEW n \in Nat, NEW m \in Nat
  PROVE  /\ [[r EXCEPT !.refs = n] EXCEPT !.refs = m] = [r EXCEPT !.refs = m]
         /\ [r EXCEPT !.refs = r.refs] = r
BY DEF ObjectRecord

\* KanObject_Decref on the object r.
Released(r) ==
  IF r.refs <= 1 THEN [r EXCEPT !.refs = 0, !.live = FALSE]
  ELSE [r EXCEPT !.refs = r.refs - 1]

\* What giving back the single reference old makes of the object p.
LEMMA ReleaseOne ==
  ASSUME NEW h \in Seq(ObjectRecord), NEW old, NEW p \in DOMAIN h
  PROVE  Release(h, <<old>>)[p] = IF p # old THEN h[p] ELSE Released(h[p])
<1>1. Count(<<old>>, p) = IF p # old THEN 0 ELSE 1
  BY CountOne DEF One
<1>2. Release(h, <<old>>)[p]
        = IF Count(<<old>>, p) = 0 THEN h[p]
          ELSE IF h[p].refs <= Count(<<old>>, p)
               THEN [h[p] EXCEPT !.refs = 0, !.live = FALSE]
               ELSE [h[p] EXCEPT !.refs = h[p].refs - Count(<<old>>, p)]
  BY DEF Release
<1>3. CASE p # old
  BY <1>1, <1>2, <1>3
<1>4. CASE p = old
  BY <1>1, <1>2, <1>4 DEF Released
<1>5. QED
  BY <1>3, <1>4

\* The pointer moves from the stack into the scope: the XDecref of runcode and
\* the Incref of set_name cancel out, also when the name was bound to the same
\* object, and only the object the name was bound to is given back.
LEMMA SetNameReleases ==
  ASSUME NEW h \in Seq(ObjectRecord), NEW o \in DOMAIN h, NEW s, NEW name,
         h[o].refs > 0, s[name] = o => h[o].refs > 1
  PROVE  SetNameHeap(XDecref(h, o), s, name, o) = Release(h, <<s[name]>>)
<1> DEFINE old == s[name]
           x == XDecref(h, o)
           g == IF old = Nil THEN x ELSE Release(x, <<old>>)
           a == SetNameHeap(x, s, name, o)
           b == Release(h, <<old>>)
<1>1. DOMAIN h = 1..Len(h) /\ Len(h) \in Nat /\ Nil \notin DOMAIN h
  BY LenProperties DEF Nil
<1>2. h[o] \in ObjectRecord /\ h[o].refs \in Nat
  BY HeapFields
<1> DEFINE n == h[o].refs - 1
<1>3. n \in Nat /\ n + 1 = h[o].refs
  BY <1>2
<1>4. /\ DOMAIN x = DOMAIN h /\ x[o] = [h[o] EXCEPT !.refs = n]
      /\ \A p \in DOMAIN h : p # o => x[p] = h[p]
  <2>1. (IF h[o].refs <= 1 THEN 0 ELSE h[o].refs - 1) = n
    BY <1>2
  <2> HIDE DEF n
  <2>2. x = [h EXCEPT ![o].refs = n]
    BY <2>1 DEF XDecref
  <2>3. QED
    BY <2>2
<1> HIDE DEF n
<1>5. x \in Seq(ObjectRecord)
  <2>1. x[o] \in ObjectRecord
    BY <1>2, <1>3, <1>4 DEF ObjectRecord
  <2>2. x = [h EXCEPT ![o] = x[o]]
    BY <1>4 DEF XDecref
  <2> HIDE DEF x
  <2>3. o \in 1..Len(h)
    BY <1>1
  <2> DEFINE q == x[o]
  <2>4. q \in ObjectRecord /\ x = [h EXCEPT ![o] = q]
    BY <2>1, <2>2
  <2> HIDE DEF q
  <2>5. [h EXCEPT ![o] = q] \in Seq(ObjectRecord)
    BY <2>3, <2>4, ExceptSeq
  <2>6. QED
    BY <2>4, <2>5
<1> HIDE DEF x
<1> DEFINE y == Release(x, <<old>>)
<1>6. /\ DOMAIN g = DOMAIN h
      /\ b = [p \in DOMAIN h |-> b[p]]
      /\ g = IF old = Nil THEN x ELSE y
      /\ old = o => a = x
      /\ old # o => a = Incref(g, o)
  BY <1>4 DEF Release, SetNameHeap
<1>7. \A p \in DOMAIN h :
        /\ b[p] = IF p # old THEN h[p] ELSE Released(h[p])
        /\ y[p] = IF p # old THEN x[p] ELSE Released(x[p])
  <2> SUFFICES ASSUME NEW p \in DOMAIN h
               PROVE  /\ b[p] = IF p # old THEN h[p] ELSE Released(h[p])
                      /\ y[p] = IF p # old THEN x[p] ELSE Released(x[p])
    OBVIOUS
  <2> HIDE DEF old
  <2>1. Release(h, <<old>>)[p] = IF p # old THEN h[p] ELSE Released(h[p])
    BY ReleaseOne
  <2>2. p \in DOMAIN x
    BY <1>4
  <2>3. Release(x, <<old>>)[p] = IF p # old THEN x[p] ELSE Released(x[p])
    BY <1>5, <2>2, ReleaseOne
  <2>4. QED
    BY <2>1, <2>3
<1> HIDE DEF a, b, g, y
<1>8. /\ \A p \in DOMAIN h : p # o => g[p] = b[p]
      /\ old # o => g[o] = x[o] /\ b[o] = h[o]
  BY <1>1, <1>4, <1>6, <1>7
<1>9. CASE old = o
  <2>2. ASSUME NEW p \in DOMAIN h PROVE x[p] = b[p]
    <3>1. CASE p = o
      <4>1. b[p] = Released(h[o]) /\ ~(h[o].refs <= 1)
        BY <1>2, <1>7, <1>9, <3>1
      <4>2. b[p] = [h[o] EXCEPT !.refs = h[o].refs - 1]
        BY <4>1 DEF Released
      <4>3. QED
        BY <1>4, <3>1, <4>2 DEF n
    <3>2. CASE p # o
      BY <1>4, <1>7, <1>9, <3>2
    <3>3. QED
      BY <3>1, <3>2
  <2>3. x = [p \in DOMAIN h |-> x[p]]
    BY DEF x, XDecref
  <2>4. x = b
    BY <1>6, <2>2, <2>3
  <2>5. QED
    BY <1>6, <1>9, <2>4 DEF a, b, x
<1>10. CASE old # o
  <2>1. a = Incref(g, o)
    BY <1>6, <1>10
  <2>2. g[o] = x[o]
    BY <1>8, <1>10
  <2>3. ASSUME NEW p \in DOMAIN h PROVE a[p] = b[p]
    <3>1. CASE p = o
      <4> DEFINE q == g[o]
      <4>1. a[p] = [q EXCEPT !.refs = q.refs + 1]
        BY <1>6, <2>1, <3>1 DEF Incref
      <4>2. q = [h[o] EXCEPT !.refs = n] /\ q.refs = n
        BY <1>2, <1>3, <1>4, <2>2, FieldsChanged
      <4> HIDE DEF q
      <4>3. a[p] = [[h[o] EXCEPT !.refs = n] EXCEPT !.refs = h[o].refs]
        BY <1>3, <4>1, <4>2
      <4>4. a[p] = h[o]
        BY <1>2, <1>3, <4>3, RefsTwice
      <4>5. b[p] = h[o]
        BY <1>8, <1>10, <3>1
      <4>6. QED
        BY <4>4, <4>5
    <3>2. CASE p # o
      <4>1. a[p] = g[p]
        BY <1>6, <2>1, <3>2 DEF Incref
      <4>2. QED
        BY <1>8, <3>2, <4>1
    <3>3. QED
      BY <3>1, <3>2
  <2>4. a = [p \in DOMAIN h |-> a[p]]
    BY <1>6, <2>1 DEF Incref
  <2>5. a = b
    BY <1>6, <2>3, <2>4
  <2>6. QED
    BY <2>5 DEF a, b, x
<1>11. QED
  BY <1>9, <1>10

=============================================================================
