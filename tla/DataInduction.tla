---------------------------- MODULE DataInduction ---------------------------
(* Induction over the data the models fold, filter and count, for the      *)
(* proofs about operators that walk through a sequence or a set.           *)
EXTENDS Integers, Sequences, FiniteSets, Functions, FiniteSetTheorems, WellFoundedInduction, TLAPS

-----------------------------------------------------------------------------
(* Induction.  The library states it of an operator; of a set it follows   *)
(* from the order of the natural numbers being well-founded.               *)

\* A set of numbers that is not empty has a least one.
LEMMA LeastNumber ==
  ASSUME NEW T \in SUBSET Nat, T # {}
  PROVE  \E n \in T : \A m \in T : n <= m
<1>1. PICK x \in T : \A y \in T : ~ (<<y, x>> \in OpToRel(<, Nat))
  BY NatLessThanWellFounded, WFMin
<1>2. \A y \in T : ~(y < x)
  BY <1>1 DEF OpToRel
<1> QED
  BY <1>2

\* Induction up to a number, for the members of a set.
LEMMA Induction ==
  ASSUME NEW n \in Nat, NEW S, 0 \in S, \A i \in 0 .. n : i # n /\ i \in S => i + 1 \in S
  PROVE  0 .. n \subseteq S
<1> SUFFICES ASSUME (0 .. n) \ S # {} PROVE FALSE
  OBVIOUS
<1> DEFINE T == (0 .. n) \ S
<1>a. T \in SUBSET Nat /\ T # {}
  OBVIOUS
<1>1. PICK m \in T : \A k \in T : m <= k
  <2> HIDE DEF T
  <2> QED
    BY <1>a, LeastNumber
<1>2. m # 0 /\ m - 1 \in 0 .. n /\ m - 1 \in S
  BY <1>1
<1>3. (m - 1) + 1 \in S
  BY <1>1, <1>2
<1> QED
  BY <1>1, <1>3

\* The steps of a loop that runs n times, each a function on X.
Loops(n, X) == [1 .. n -> [X -> X]]

\* f holds the value before the first step and after each.
Follows(f, n, x0, step) == f[0] = x0 /\ \A i \in 1 .. n : f[i] = step[i][f[i - 1]]

\* A value can be carried through the steps of a loop.
LEMMA FoldExists ==
  ASSUME NEW n \in Nat, NEW X, NEW x0 \in X, NEW step \in Loops(n, X)
  PROVE  \E f \in [0 .. n -> X] : Follows(f, n, x0, step)
<1> USE DEF Loops
<1> DEFINE Run(m, f) == f[0] = x0 /\ \A i \in 1 .. m : f[i] = step[i][f[i - 1]]
           S == {m \in 0 .. n : \E f \in [0 .. m -> X] : Run(m, f)}
<1>1. 0 \in S
  <2> DEFINE g == [i \in 0 .. 0 |-> x0]
  <2>1. g \in [0 .. 0 -> X] /\ Run(0, g)
    OBVIOUS
  <2> HIDE DEF g, Run
  <2> QED
    BY <2>1
<1>2. ASSUME NEW m \in 0 .. n, m # n, m \in S
      PROVE  m + 1 \in S
  <2>1. PICK f \in [0 .. m -> X] : Run(m, f)
    BY <1>2
  <2> DEFINE g == [i \in 0 .. m + 1 |-> IF i = m + 1 THEN step[m + 1][f[m]] ELSE f[i]]
  <2>2. step[m + 1][f[m]] \in X
    <3>1. m + 1 \in 1 .. n /\ f[m] \in X
      BY <1>2
    <3> QED
      BY <3>1
  <2>3. g \in [0 .. m + 1 -> X]
    BY <2>2
  <2>4. g[0] = x0 /\ \A i \in 1 .. m : g[i] = step[i][g[i - 1]]
    BY <2>1
  <2>5. g[m + 1] = step[m + 1][g[m]]
    OBVIOUS
  <2>6. Run(m + 1, g)
    <3> HIDE DEF g
    <3>1. ASSUME NEW i \in 1 .. m + 1
          PROVE  g[i] = step[i][g[i - 1]]
      <4>1. CASE i \in 1 .. m
        BY <2>4, <4>1
      <4>2. CASE i = m + 1
        <5>1. i - 1 = m
          BY <4>2
        <5> QED
          BY <2>5, <4>2, <5>1
      <4> QED
        BY <4>1, <4>2
    <3> QED
      BY <2>4, <3>1
  <2>7. m + 1 \in 0 .. n
    BY <1>2
  <2> HIDE DEF g, Run
  <2> QED
    BY <2>3, <2>6, <2>7
<1> HIDE DEF S
<1>3. n \in S
  <2>1. \A m \in 0 .. n : m # n /\ m \in S => m + 1 \in S
    BY <1>2
  <2>2. 0 .. n \subseteq S
    BY <1>1, <2>1, Induction
  <2> QED
    BY <2>2
<1>4. PICK f \in [0 .. n -> X] : Run(n, f)
  BY <1>3 DEF S
<1> QED
  BY <1>4 DEF Follows

-----------------------------------------------------------------------------
(* A sum over a finite set, as the folds of the community modules take it: *)
(* one chosen element after the other.                                     *)

AnyOf(s) == CHOOSE x \in s : TRUE

Summed(S, w, g) ==
  /\ g \in [SUBSET S -> Nat]
  /\ g[{}] = 0
  /\ \A s \in SUBSET S : s # {} => g[s] = w[AnyOf(s)] + g[s \ {AnyOf(s)}]

LEMMA SumExists ==
  ASSUME NEW S, IsFiniteSet(S), NEW w, \A x \in S : w[x] \in Nat
  PROVE  \E g : Summed(S, w, g)
<1> DEFINE X == [SUBSET S -> Nat]
           n == Cardinality(S)
           Take(h) == [s \in SUBSET S |->
             IF s = {} THEN 0 ELSE w[AnyOf(s)] + h[s \ {AnyOf(s)}]]
<1>1. n \in Nat
  BY FS_CardinalityType
<1>2. \A s \in SUBSET S : s # {} => AnyOf(s) \in s /\ s \ {AnyOf(s)} \in SUBSET S
  BY DEF AnyOf
<1>3. \A h \in X : Take(h) \in X
  <2> SUFFICES ASSUME NEW h \in X, NEW s \in SUBSET S, s # {}
               PROVE  w[AnyOf(s)] + h[s \ {AnyOf(s)}] \in Nat
    OBVIOUS
  <2>1. w[AnyOf(s)] \in Nat /\ h[s \ {AnyOf(s)}] \in Nat
    BY <1>2
  <2> QED
    BY <2>1
<1>4. \A h \in X, s \in SUBSET S :
        Take(h)[s] = IF s = {} THEN 0 ELSE w[AnyOf(s)] + h[s \ {AnyOf(s)}]
  OBVIOUS
<1> DEFINE zero == [s \in SUBSET S |-> 0]
           step == [i \in 1 .. n |-> [h \in X |-> Take(h)]]
<1>5. zero \in X /\ \A s \in SUBSET S : zero[s] = 0
  OBVIOUS
<1>6. step \in Loops(n, X)
  BY <1>3 DEF Loops
<1>7. \A i \in 1 .. n : \A h \in X : step[i][h] = Take(h)
  OBVIOUS
<1>8. PICK f \in [0 .. n -> X] : f[0] = zero /\ \A i \in 1 .. n : f[i] = step[i][f[i - 1]]
  <2>1. n \in Nat /\ zero \in X /\ step \in Loops(n, X)
    BY <1>1, <1>5, <1>6
  <2> HIDE DEF n, X, zero, step, Take
  <2>2. \A x0 \in X : \E h \in [0 .. n -> X] : Follows(h, n, x0, step)
    BY <2>1, FoldExists
  <2>3. PICK h \in [0 .. n -> X] : Follows(h, n, zero, step)
    BY <2>1, <2>2
  <2> QED
    BY <2>3 DEF Follows
<1>9. \A i \in 1 .. n : f[i] = Take(f[i - 1])
  <2> SUFFICES ASSUME NEW i \in 1 .. n PROVE f[i] = Take(f[i - 1])
    OBVIOUS
  <2> HIDE DEF X, step, Take
  <2>1. f[i - 1] \in X
    BY <1>1
  <2> QED
    BY <1>7, <1>8, <2>1
<1> HIDE DEF zero, step, n, Take
<1>10. \A s \in SUBSET S : IsFiniteSet(s) /\ Cardinality(s) \in Nat /\ Cardinality(s) <= n
  BY FS_Subset, FS_CardinalityType DEF n
<1>11. \A s \in SUBSET S : s # {} =>
         Cardinality(s) > 0 /\ Cardinality(s \ {AnyOf(s)}) = Cardinality(s) - 1
  <2> SUFFICES ASSUME NEW s \in SUBSET S, s # {}
               PROVE  Cardinality(s) > 0
                      /\ Cardinality(s \ {AnyOf(s)}) = Cardinality(s) - 1
    OBVIOUS
  <2>1. IsFiniteSet(s) /\ Cardinality(s) \in Nat /\ AnyOf(s) \in s
    BY <1>2, <1>10
  <2>2. Cardinality(s) # 0
    BY <2>1, FS_EmptySet
  <2>3. Cardinality(s \ {AnyOf(s)}) = Cardinality(s) - 1
    BY <2>1, FS_RemoveElement
  <2> QED
    BY <2>1, <2>2, <2>3
\* After i steps the sets of at most i elements have their sums.
<1> DEFINE Q == {i \in 0 .. n : \A j \in i .. n : \A s \in SUBSET S :
                   Cardinality(s) <= i => f[j][s] = f[i][s]}
<1>12. 0 \in Q
  <2>1. \A s \in SUBSET S : Cardinality(s) <= 0 => s = {}
    BY <1>10, FS_EmptySet
  <2>2. \A j \in 0 .. n : f[j][{}] = 0
    <3> SUFFICES ASSUME NEW j \in 0 .. n PROVE f[j][{}] = 0
      OBVIOUS
    <3>1. CASE j = 0
      BY <1>5, <1>8, <3>1
    <3>2. CASE j # 0
      <4>1. j \in 1 .. n /\ j - 1 \in 0 .. n
        BY <1>1, <3>2
      <4>2. f[j] = Take(f[j - 1]) /\ f[j - 1] \in X
        BY <1>9, <4>1
      <4> QED
        BY <1>4, <4>2
    <3> QED
      BY <3>1, <3>2
  <2>3. ASSUME NEW j \in 0 .. n, NEW s \in SUBSET S, Cardinality(s) <= 0
        PROVE  f[j][s] = f[0][s]
    <3>1. s = {} /\ 0 \in 0 .. n
      BY <1>1, <2>1, <2>3
    <3> QED
      BY <2>2, <3>1
  <2> QED
    BY <1>1, <2>3
<1>13. ASSUME NEW i \in 0 .. n, i # n, i \in Q PROVE i + 1 \in Q
  <2> SUFFICES ASSUME NEW j \in i + 1 .. n, NEW s \in SUBSET S, Cardinality(s) <= i + 1
               PROVE  f[j][s] = f[i + 1][s]
    BY <1>1, <1>13
  <2>1. j \in 1 .. n /\ j - 1 \in i .. n /\ i + 1 \in 1 .. n /\ j - 1 \in 0 .. n
    BY <1>1, <1>13
  <2>2. f[j] = Take(f[j - 1]) /\ f[i + 1] = Take(f[i]) /\ f[j - 1] \in X /\ f[i] \in X
    <3>1. f[i + 1] = Take(f[(i + 1) - 1]) /\ (i + 1) - 1 = i
      BY <1>9, <2>1
    <3> QED
      BY <1>9, <2>1, <3>1
  <2>3. CASE s = {}
    BY <1>4, <2>2, <2>3
  <2>4. CASE s # {}
    <3>1. PICK t \in SUBSET S : t = s \ {AnyOf(s)}
      BY <1>2
    <3>2. Cardinality(t) <= i
      BY <1>10, <1>11, <2>4, <3>1
    <3>3. f[j - 1][t] = f[i][t]
      BY <1>13, <2>1, <3>2
    <3>4. f[j][s] = w[AnyOf(s)] + f[j - 1][t]
      BY <1>4, <2>2, <2>4, <3>1
    <3>5. f[i + 1][s] = w[AnyOf(s)] + f[i][t]
      BY <1>4, <2>2, <2>4, <3>1
    <3> QED
      BY <3>3, <3>4, <3>5
  <2> QED
    BY <2>3, <2>4
<1>14. 0 .. n \subseteq Q
  <2>1. \A i \in 0 .. n : i # n /\ i \in Q => i + 1 \in Q
    BY <1>13
  <2> HIDE DEF Q
  <2> QED
    BY <1>1, <1>12, <2>1, Induction
<1> DEFINE g == f[n]
<1>15. g \in X
  <2>1. n \in 0 .. n
    BY <1>1
  <2> HIDE DEF X
  <2> QED
    BY <2>1
<1>16. g[{}] = 0
  <2>1. 0 \in Q /\ n \in 0 .. n
    BY <1>1, <1>12
  <2>2. \A s \in SUBSET S : Cardinality(s) <= 0 => f[n][s] = f[0][s]
    BY <2>1
  <2>3. Cardinality({}) = 0
    BY FS_EmptySet
  <2> QED
    BY <1>5, <1>8, <2>2, <2>3
<1>17. ASSUME NEW s \in SUBSET S, s # {}
       PROVE  g[s] = w[AnyOf(s)] + g[s \ {AnyOf(s)}]
  <2>1. PICK t \in SUBSET S : t = s \ {AnyOf(s)}
    BY <1>2
  <2>2. n > 0 /\ Cardinality(t) <= n - 1
    <3>1. /\ Cardinality(s) \in Nat /\ Cardinality(s) <= n /\ Cardinality(s) > 0
          /\ Cardinality(t) = Cardinality(s) - 1
      BY <1>10, <1>11, <1>17, <2>1
    <3> QED
      BY <1>1, <3>1
  <2>3. n \in 1 .. n /\ n - 1 \in 0 .. n /\ n \in (n - 1) .. n
    BY <1>1, <2>2
  <2>4. f[n - 1][t] = f[n][t]
    BY <1>14, <2>2, <2>3
  <2>5. f[n] = Take(f[n - 1]) /\ f[n - 1] \in X
    BY <1>9, <2>3
  <2>6. f[n][s] = w[AnyOf(s)] + f[n - 1][t]
    BY <1>4, <1>17, <2>1, <2>5
  <2> QED
    BY <2>1, <2>4, <2>6
<1> QED
  BY <1>15, <1>16, <1>17 DEF Summed

\* Induction over the subsets of a finite set.
LEMMA SubsetInduction ==
  ASSUME NEW S, IsFiniteSet(S), NEW P, {} \in P,
         \A s \in SUBSET S : s # {} /\ s \ {AnyOf(s)} \in P => s \in P
  PROVE  SUBSET S \subseteq P
<1> SUFFICES ASSUME (SUBSET S) \ P # {} PROVE FALSE
  OBVIOUS
<1> DEFINE T == {Cardinality(s) : s \in (SUBSET S) \ P}
<1>1. \A s \in SUBSET S : IsFiniteSet(s) /\ Cardinality(s) \in Nat
  BY FS_Subset, FS_CardinalityType
<1>2. T \in SUBSET Nat /\ T # {}
  BY <1>1
<1>3. PICK m \in T : \A k \in T : m <= k
  <2> HIDE DEF T
  <2> QED
    BY <1>2, LeastNumber
<1>4. PICK s \in (SUBSET S) \ P : m = Cardinality(s)
  OBVIOUS
<1>5. s # {} /\ AnyOf(s) \in s
  BY <1>4 DEF AnyOf
<1>6. Cardinality(s \ {AnyOf(s)}) = Cardinality(s) - 1
  BY <1>1, <1>4, <1>5, FS_RemoveElement
<1>7. PICK t \in SUBSET S : t = s \ {AnyOf(s)}
  OBVIOUS
<1>8. t \notin P
  BY <1>4, <1>5, <1>7
<1>9. Cardinality(t) \in T
  BY <1>8
<1> HIDE DEF T
<1>10. m <= Cardinality(t) /\ Cardinality(t) = m - 1 /\ m \in Nat
  BY <1>1, <1>3, <1>4, <1>6, <1>7, <1>9
<1> QED
  BY <1>10

\* The fold of a function with + is its sum.
LEMMA FoldIsSum ==
  ASSUME NEW S, IsFiniteSet(S), NEW w, \A x \in S : w[x] \in Nat
  PROVE  \E g : /\ Summed(S, w, g)
                /\ FoldFunctionOnSet(LAMBDA x, y : x + y, 0, w, S) = g[S]
<1> DEFINE sum[s \in SUBSET S] == IF s = {} THEN 0 ELSE w[AnyOf(s)] + sum[s \ {AnyOf(s)}]
<1>1. PICK g : Summed(S, w, g)
  BY SumExists
<1>2. g = [s \in SUBSET S |-> IF s = {} THEN 0 ELSE w[AnyOf(s)] + g[s \ {AnyOf(s)}]]
  <2>1. g = [s \in SUBSET S |-> g[s]]
    BY <1>1 DEF Summed
  <2>2. \A s \in SUBSET S : g[s] = IF s = {} THEN 0 ELSE w[AnyOf(s)] + g[s \ {AnyOf(s)}]
    BY <1>1 DEF Summed
  <2> QED
    BY <2>1, <2>2
<1>3. sum = [s \in SUBSET S |-> IF s = {} THEN 0 ELSE w[AnyOf(s)] + sum[s \ {AnyOf(s)}]]
  BY <1>2
<1>4. FoldFunctionOnSet(LAMBDA x, y : x + y, 0, w, S) = sum[S]
  BY DEF FoldFunctionOnSet, MapThenFoldSet, AnyOf
<1> HIDE DEF sum
\* The two agree, whatever the recursion was solved by.
<1> DEFINE P == {s \in SUBSET S : sum[s] = g[s]}
<1>5. {} \in P
  BY <1>1, <1>3 DEF Summed
<1>6. ASSUME NEW s \in SUBSET S, s # {}, s \ {AnyOf(s)} \in P PROVE s \in P
  BY <1>1, <1>3, <1>6 DEF Summed
<1>7. SUBSET S \subseteq P
  <2>1. \A s \in SUBSET S : s # {} /\ s \ {AnyOf(s)} \in P => s \in P
    BY <1>6
  <2> HIDE DEF P
  <2> QED
    BY <1>5, <2>1, SubsetInduction
<1>8. sum[S] = g[S]
  BY <1>7
<1> QED
  BY <1>1, <1>4, <1>8

\* A sum with a part that is not zero is not zero.
LEMMA SumPositive ==
  ASSUME NEW S, IsFiniteSet(S), NEW w, \A x \in S : w[x] \in Nat,
         NEW g, Summed(S, w, g), NEW d \in S, w[d] > 0
  PROVE  g[S] >= 1
<1> DEFINE P == {s \in SUBSET S : d \in s => g[s] >= 1}
<1>1. {} \in P
  OBVIOUS
<1>2. ASSUME NEW s \in SUBSET S, s # {}, s \ {AnyOf(s)} \in P PROVE s \in P
  <2> SUFFICES ASSUME d \in s PROVE g[s] >= 1
    OBVIOUS
  <2>1. AnyOf(s) \in s
    BY <1>2 DEF AnyOf
  <2>2. PICK a \in Nat : a = w[AnyOf(s)]
    BY <2>1
  <2>3. PICK b \in Nat : b = g[s \ {AnyOf(s)}]
    BY DEF Summed
  <2>4. g[s] = a + b
    BY <1>2, <2>2, <2>3 DEF Summed
  <2>5. a >= 1 \/ b >= 1
    <3>1. CASE d = AnyOf(s)
      BY <2>2, <3>1
    <3>2. CASE d # AnyOf(s)
      BY <1>2, <2>3, <3>2
    <3> QED
      BY <3>1, <3>2
  <2> QED
    BY <2>4, <2>5
<1>3. SUBSET S \subseteq P
  <2>1. \A s \in SUBSET S : s # {} /\ s \ {AnyOf(s)} \in P => s \in P
    BY <1>2
  <2> HIDE DEF P
  <2> QED
    BY <1>1, <2>1, SubsetInduction
<1> QED
  BY <1>3

\* A sum of ones and zeros with at most one one is at most one.
LEMMA SumAtMostOne ==
  ASSUME NEW S, IsFiniteSet(S), NEW w, \A x \in S : w[x] \in 0 .. 1,
         \A x, y \in S : w[x] > 0 /\ w[y] > 0 => x = y,
         NEW g, Summed(S, w, g)
  PROVE  g[S] <= 1
<1> DEFINE P == {s \in SUBSET S : g[s] <= 1 /\ ((\A x \in s : w[x] = 0) => g[s] = 0)}
<1>1. {} \in P
  BY DEF Summed
<1>2. ASSUME NEW s \in SUBSET S, s # {}, s \ {AnyOf(s)} \in P PROVE s \in P
  <2>1. AnyOf(s) \in s
    BY <1>2 DEF AnyOf
  <2>2. PICK a \in 0 .. 1 : a = w[AnyOf(s)]
    BY <2>1
  <2>3. PICK b \in Nat : b = g[s \ {AnyOf(s)}]
    BY DEF Summed
  <2>4. g[s] = a + b
    BY <1>2, <2>2, <2>3 DEF Summed
  <2>5. b <= 1 /\ ((\A x \in s \ {AnyOf(s)} : w[x] = 0) => b = 0)
    BY <1>2, <2>3
  <2>6. ASSUME a = 1 PROVE b = 0
    <3>1. ASSUME NEW x \in s \ {AnyOf(s)} PROVE ~(w[x] > 0) /\ w[x] \in 0 .. 1
      <4>1. x \in S /\ AnyOf(s) \in S /\ x # AnyOf(s)
        BY <2>1
      <4>2. w[AnyOf(s)] > 0
        BY <2>2, <2>6
      <4>3. ~(w[x] > 0)
        BY <4>1, <4>2
      <4> QED
        BY <4>1, <4>3
    <3>2. \A x \in s \ {AnyOf(s)} : w[x] = 0
      BY <3>1
    <3> QED
      BY <2>5, <3>2
  <2>7. g[s] <= 1
    BY <2>2, <2>4, <2>5, <2>6
  <2>8. ASSUME \A x \in s : w[x] = 0 PROVE g[s] = 0
    BY <2>1, <2>2, <2>4, <2>5, <2>8
  <2> QED
    BY <2>7, <2>8
<1>3. SUBSET S \subseteq P
  <2>1. \A s \in SUBSET S : s # {} /\ s \ {AnyOf(s)} \in P => s \in P
    BY <1>2
  <2> HIDE DEF P
  <2> QED
    BY <1>1, <2>1, SubsetInduction
<1> QED
  BY <1>3
=============================================================================
