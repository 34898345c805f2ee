---------------------------- MODULE KanInduction ----------------------------
(***************************************************************************)
(* Induction for the proofs about KanLang's parser, compiler and stream,   *)
(* stated with sets instead of predicates, so that the provers can apply   *)
(* it to any property: take the set of numbers that have the property.     *)
(***************************************************************************)
EXTENDS Integers, Sequences, FiniteSets, FiniteSetTheorems, TLAPS,
        WellFoundedInduction

\* A set of natural numbers has a least element.
LEMMA LeastElement ==
  ASSUME NEW T, T \subseteq Nat, T # {}
  PROVE  \E x \in T : \A y \in T : x <= y
<1>1. IsWellFoundedOn(OpToRel(<, Nat), Nat)
  BY NatLessThanWellFounded
<1>2. PICK x \in T : \A y \in T : ~ (<<y, x>> \in OpToRel(<, Nat))
  BY <1>1, WFMin
<1>3. \A m, n \in Nat : m < n => <<m, n>> \in OpToRel(<, Nat)
  BY Zenon DEF OpToRel
<1>4. \A y \in T : ~(y < x)
  BY <1>2, <1>3, Zenon
<1> QED
  BY ONLY <1>4, T \subseteq Nat, x \in T

\* And one that does not go beyond a bound has a greatest one.
LEMMA GreatestElement ==
  ASSUME NEW T, T \subseteq Nat, T # {}, NEW n \in Nat, \A x \in T : x <= n
  PROVE  \E x \in T : \A y \in T : y <= x
<1> DEFINE U == {n - x : x \in T}
<1>1. U \subseteq Nat /\ U # {}
  <2>1. \A x \in T : n - x \in Nat
    OBVIOUS
  <2>2. PICK x \in T : TRUE
    OBVIOUS
  <2>3. n - x \in U
    BY <2>2
  <2> QED
    BY <2>1, <2>3
<1>2. PICK u \in U : \A v \in U : u <= v
  BY <1>1, LeastElement
<1>3. PICK x \in T : u = n - x
  BY <1>2
<1>4. \A y \in T : n - x <= n - y
  BY <1>2, <1>3
<1> QED
  BY <1>4

\* What holds of 0 and goes on from each number to the next holds of all.
LEMMA Induction ==
  ASSUME NEW T, T \subseteq Nat, 0 \in T, \A n \in T : n + 1 \in T
  PROVE  T = Nat
<1> SUFFICES ASSUME Nat \ T # {} PROVE FALSE
  OBVIOUS
<1>1. PICK x \in Nat \ T : \A y \in Nat \ T : x <= y
  BY LeastElement
<1>2. x # 0 /\ x - 1 \in Nat
  BY <1>1
<1>3. x - 1 \in T
  BY <1>1, <1>2
<1> QED
  BY <1>2, <1>3, (x - 1) + 1 \in T

\* The same downwards, from m to the numbers below it.
LEMMA DownwardInduction ==
  ASSUME NEW m \in Nat, NEW T, T \subseteq 0..m, m \in T,
         \A n \in 1..m : n \in T => n - 1 \in T
  PROVE  T = 0..m
<1> SUFFICES ASSUME (0..m) \ T # {} PROVE FALSE
  OBVIOUS
<1>1. (0..m) \ T \subseteq Nat /\ \A x \in (0..m) \ T : x <= m
  OBVIOUS
<1>2. PICK x \in (0..m) \ T : \A y \in (0..m) \ T : y <= x
  BY <1>1, GreatestElement
<1>3. x + 1 \in 1..m /\ x + 1 \in T
  BY <1>2
<1> QED
  BY <1>3, (x + 1) - 1 \in T

\* The same upwards, from 0 to n.
LEMMA UpwardInduction ==
  ASSUME NEW n \in Nat, NEW T, T \subseteq 0..n, 0 \in T,
         \A i \in 1..n : i - 1 \in T => i \in T
  PROVE  T = 0..n
<1> SUFFICES ASSUME (0..n) \ T # {} PROVE FALSE
  OBVIOUS
<1>1. (0..n) \ T \subseteq Nat
  OBVIOUS
<1> DEFINE U == (0..n) \ T
<1>2. PICK x \in U : \A y \in U : x <= y
  <2> HIDE DEF U
  <2> QED
    BY <1>1, LeastElement DEF U
<1>3. x \in 1..n /\ x - 1 \in 0..n
  BY <1>2
<1>4. x - 1 \in T
  BY <1>2, <1>3
<1> QED
  BY <1>2, <1>3, <1>4

Iterates(f, n, first, step) ==
  \A i \in 0..n : f[i] = IF i = 0 THEN first ELSE step[<<i, f[i - 1]>>]

\* A function on 0..n is found by its first value and the step to the next one.
LEMMA Recursion ==
  ASSUME NEW n \in Nat, NEW V, NEW first \in V,
         NEW step \in [(1..n) \X V -> V]
  PROVE  \E f \in [0..n -> V] : Iterates(f, n, first, step)
<1> DEFINE Found(m) ==
             \E f \in [0..m -> V] :
               \A i \in 0..m : f[i] = IF i = 0 THEN first ELSE step[<<i, f[i - 1]>>]
           T == {m \in 0..n : Found(m)}
<1>1. Found(0)
  <2> DEFINE f == [i \in 0..0 |-> first]
  <2>1. f \in [0..0 -> V]
    OBVIOUS
  <2>2. \A i \in 0..0 : f[i] = IF i = 0 THEN first ELSE step[<<i, f[i - 1]>>]
    OBVIOUS
  <2> QED
    BY <2>1, <2>2
<1>2. ASSUME NEW m \in 1..n, Found(m - 1)
      PROVE  Found(m)
  <2>1. PICK f \in [0..(m - 1) -> V] :
          \A i \in 0..(m - 1) : f[i] = IF i = 0 THEN first ELSE step[<<i, f[i - 1]>>]
    BY <1>2
  <2>2. f[m - 1] \in V /\ <<m, f[m - 1]>> \in (1..n) \X V
    OBVIOUS
  <2>3. step[<<m, f[m - 1]>>] \in V
    BY <2>2
  <2> DEFINE g == [i \in 0..m |-> IF i = m THEN step[<<m, f[m - 1]>>] ELSE f[i]]
  <2>4. \A i \in 0..m : i = m \/ i \in 0..(m - 1)
    OBVIOUS
  <2>5. g \in [0..m -> V]
    BY <2>3, <2>4
  <2>6. ASSUME NEW i \in 0..m
        PROVE  g[i] = IF i = 0 THEN first ELSE step[<<i, g[i - 1]>>]
    <3>1. CASE i = m
      <4>1. i # 0 /\ i - 1 \in 0..m /\ i - 1 # m
        BY <3>1
      <4>2. g[i - 1] = f[m - 1] /\ g[i] = step[<<m, f[m - 1]>>]
        BY <3>1, <4>1
      <4>3. <<i, g[i - 1]>> = <<m, f[m - 1]>>
        BY <3>1, <4>2
      <4> HIDE DEF g
      <4>4. g[i] = step[<<i, g[i - 1]>>]
        BY <4>2, <4>3, Zenon
      <4> QED
        BY ONLY <4>1, <4>4
    <3>2. CASE i = 0
      <4>1. 0 \in 0..(m - 1) /\ 0 \in 0..m /\ 0 # m
        OBVIOUS
      <4>2. g[0] = f[0]
        BY <4>1
      <4>3. f[0] = first
        BY <2>1, <4>1, Zenon
      <4> HIDE DEF g
      <4> QED
        BY <3>2, <4>2, <4>3, Zenon
    <3>3. CASE i # m /\ i # 0
      <4>1. i \in 0..(m - 1) /\ i - 1 \in 0..m /\ i - 1 # m
        BY <3>3
      <4>2. g[i] = f[i] /\ g[i - 1] = f[i - 1]
        BY <3>3, <4>1
      <4> HIDE DEF g
      <4> QED
        BY <2>1, <3>3, <4>1, <4>2
    <3> QED
      BY <3>1, <3>2, <3>3
  <2> HIDE DEF g
  <2> QED
    BY <2>5, <2>6
<1> HIDE DEF Found
<1>3. T \subseteq 0..n /\ 0 \in T /\ \A i \in 1..n : i - 1 \in T => i \in T
  BY <1>1, <1>2
<1>5. T = 0..n
  BY <1>3, UpwardInduction
<1> QED
  BY <1>5 DEF Found, Iterates

=============================================================================
