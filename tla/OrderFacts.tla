----------------------------- MODULE OrderFacts -----------------------------
(***************************************************************************)
(* Facts about natural numbers that proofs about loops and sorted answers   *)
(* need, stated with sets so that they can be cited for any property.       *)
(***************************************************************************)
EXTENDS Naturals, Sequences, FiniteSets, TLAPS, FiniteSetTheorems, WellFoundedInduction

(* A non-empty set of natural numbers has a least element.                  *)
LEMMA LeastNumber ==
  ASSUME NEW T \in SUBSET Nat, T # {}
  PROVE  \E m \in T : \A k \in T : m <= k
<1> DEFINE R == OpToRel(<, Nat)
<1>1. IsWellFoundedOn(R, Nat)
  BY NatLessThanWellFounded
<1>2. \A x, y \in Nat : x < y => <<x, y>> \in R
  BY DEF OpToRel
<1> HIDE DEF R
<1>3. PICK m \in T : \A k \in T : ~ (<<k, m>> \in R)
  BY <1>1, WFMin
<1>4. \A k \in T : ~ (k < m)
  BY <1>2, <1>3
<1> QED
  BY <1>3, <1>4

(* Induction up to n: S is the set of the numbers that have the property.   *)
LEMMA InductionUpTo ==
  ASSUME NEW n \in Nat, NEW S, 0 \in S, \A k \in 0 .. n - 1 : k \in S => k + 1 \in S
  PROVE  \A k \in 0 .. n : k \in S
<1> DEFINE T == {k \in 0 .. n : k \notin S}
<1> SUFFICES ASSUME T # {} PROVE FALSE
  OBVIOUS
<1>1. PICK m \in T : \A k \in T : m <= k
  <2>1. T \in SUBSET Nat
    OBVIOUS
  <2> QED
    BY <2>1, LeastNumber
<1>2. m # 0 /\ m \in 0 .. n
  OBVIOUS
<1>3. m - 1 \in 0 .. n - 1 /\ m - 1 \notin T /\ (m - 1) + 1 = m
  BY <1>1, <1>2
<1> QED
  BY <1>3

(* Numbers of a total preorder R can be put in order: there is a            *)
(* rearrangement of 1 .. n in which each is R-related to the later ones.    *)
LEMMA SortingExists ==
  ASSUME NEW n \in Nat, NEW R,
         \A i, j \in 1 .. n : <<i, j>> \in R \/ <<j, i>> \in R,
         \A i, j, k \in 1 .. n : <<i, j>> \in R /\ <<j, k>> \in R => <<i, k>> \in R
  PROVE  \E p \in [1 .. n -> 1 .. n] :
           /\ \A i, j \in 1 .. n : p[i] = p[j] => i = j
           /\ \A i, j \in 1 .. n : i < j => <<p[i], p[j]>> \in R
<1> DEFINE Sorts(p, k) ==
             /\ p \in [1 .. k -> 1 .. k]
             /\ \A i, j \in 1 .. k : p[i] = p[j] => i = j
             /\ \A i, j \in 1 .. k : i < j => <<p[i], p[j]>> \in R
           S == {k \in 0 .. n : \E p : Sorts(p, k)}
<1>1. 0 \in S
  <2>1. Sorts([i \in {} |-> i], 0)
    OBVIOUS
  <2> HIDE DEF Sorts
  <2> QED
    BY <2>1
<1>2. ASSUME NEW k \in 0 .. n - 1, k \in S PROVE k + 1 \in S
  <2>1. PICK p : Sorts(p, k)
    BY <1>2
  (* k + 1 takes the place of the first that is not to come before it.      *)
  <2> DEFINE After == {i \in 1 .. k + 1 : i \in 1 .. k => <<p[i], k + 1>> \notin R}
  <2>2. PICK m \in After : \A i \in After : m <= i
    <3>1. After \in SUBSET Nat /\ k + 1 \in After
      OBVIOUS
    <3> QED
      BY <3>1, LeastNumber
  <2>3. m \in 1 .. k + 1 /\ \A i \in 1 .. k : i < m => <<p[i], k + 1>> \in R
    BY <2>2
  <2>4. k + 1 \in 1 .. n /\ \A i \in 1 .. k : p[i] \in 1 .. n /\ p[i] # k + 1
    BY <2>1
  <2>5. \A i \in 1 .. k : m <= i => <<k + 1, p[i]>> \in R
    <3> SUFFICES ASSUME NEW i \in 1 .. k, m <= i PROVE <<k + 1, p[i]>> \in R
      OBVIOUS
    <3>1. m \in 1 .. k /\ <<p[m], k + 1>> \notin R
      BY <2>2
    <3>2. <<k + 1, p[m]>> \in R
      BY <2>4, <3>1
    <3>3. m = i \/ <<p[m], p[i]>> \in R
      BY <2>1, <3>1
    <3> QED
      BY <2>4, <3>1, <3>2, <3>3
  <2> DEFINE Old(i) == IF i < m THEN i ELSE i - 1
             q == [i \in 1 .. k + 1 |-> IF i = m THEN k + 1 ELSE p[Old(i)]]
  <2>6. \A i \in 1 .. k + 1 : i # m => Old(i) \in 1 .. k
    BY <2>3
  <2>7. \A i, j \in 1 .. k + 1 : i # m /\ j # m /\ i < j => Old(i) < Old(j)
    BY <2>3
  <2>8. /\ q[m] = k + 1
        /\ \A i \in 1 .. k + 1 : i # m => q[i] = p[Old(i)]
    BY <2>3
  <2> HIDE DEF q
  <2>9. q \in [1 .. k + 1 -> 1 .. k + 1]
    <3>1. \A i \in 1 .. k + 1 : (IF i = m THEN k + 1 ELSE p[Old(i)]) \in 1 .. k + 1
      BY <2>1, <2>6
    <3> QED
      BY <3>1 DEF q
  <2>10. \A i, j \in 1 .. k + 1 : q[i] = q[j] => i = j
    <3> SUFFICES ASSUME NEW i \in 1 .. k + 1, NEW j \in 1 .. k + 1, i < j PROVE q[i] # q[j]
      BY <1>2
    <3>1. CASE i = m \/ j = m
      BY <2>4, <2>6, <2>8, <3>1
    <3>2. CASE i # m /\ j # m
      <4>1. Old(i) \in 1 .. k /\ Old(j) \in 1 .. k /\ Old(i) # Old(j)
        BY <2>6, <2>7, <3>2
      <4> HIDE DEF Old
      <4> QED
        BY <2>1, <2>8, <3>2, <4>1
    <3> QED
      BY <3>1, <3>2
  <2>11. \A i, j \in 1 .. k + 1 : i < j => <<q[i], q[j]>> \in R
    <3> SUFFICES ASSUME NEW i \in 1 .. k + 1, NEW j \in 1 .. k + 1, i < j
                 PROVE  <<q[i], q[j]>> \in R
      OBVIOUS
    <3>1. CASE i = m
      <4>1. j # m /\ Old(j) \in 1 .. k /\ m <= Old(j)
        BY <2>3, <3>1
      <4> HIDE DEF Old
      <4> QED
        BY <2>5, <2>8, <3>1, <4>1
    <3>2. CASE j = m
      <4>1. i # m /\ Old(i) \in 1 .. k /\ Old(i) < m
        BY <2>3, <3>2
      <4> HIDE DEF Old
      <4> QED
        BY <2>3, <2>8, <3>2, <4>1
    <3>3. CASE i # m /\ j # m
      <4>1. Old(i) \in 1 .. k /\ Old(j) \in 1 .. k /\ Old(i) < Old(j)
        BY <2>6, <2>7, <3>3
      <4> HIDE DEF Old
      <4> QED
        BY <2>1, <2>8, <3>3, <4>1
    <3> QED
      BY <3>1, <3>2, <3>3
  <2>12. Sorts(q, k + 1) /\ k + 1 \in 0 .. n
    BY <2>9, <2>10, <2>11
  <2> HIDE DEF Sorts
  <2> QED
    BY <2>12
<1>3. n \in S
  <2> HIDE DEF S
  <2>1. \A k \in 0 .. n : k \in S
    BY <1>1, <1>2, InductionUpTo
  <2> QED
    BY <2>1
<1> QED
  BY <1>3

(* f is given by what it is at 0 and by a step from each number to the next.*)
Recurs(f, n, base, step) ==
  f[0] = base /\ \A k \in 1 .. n : f[k] = step[k][f[k - 1]]

(* A recursion over 0 .. n whose steps stay in T defines a function.        *)
LEMMA RecursionExists ==
  ASSUME NEW n \in Nat, NEW T, NEW base \in T, NEW step \in [1 .. n -> [T -> T]]
  PROVE  \E f \in [0 .. n -> T] : Recurs(f, n, base, step)
<1> DEFINE Goes(f, m) == f \in [0 .. n -> T] /\ Recurs(f, m, base, step)
           S == {m \in 0 .. n : \E f : Goes(f, m)}
<1>1. 0 \in S
  <2>1. Goes([k \in 0 .. n |-> base], 0)
    BY DEF Recurs
  <2> HIDE DEF Goes
  <2> QED
    BY <2>1
<1>2. ASSUME NEW m \in 0 .. n - 1, m \in S PROVE m + 1 \in S
  <2>1. PICK f : Goes(f, m)
    BY <1>2
  <2>2. m + 1 \in 1 .. n /\ m \in 0 .. n /\ m + 1 \in 0 .. n /\ m + 1 # 0 /\ (m + 1) - 1 = m
    OBVIOUS
  <2> DEFINE g == [f EXCEPT ![m + 1] = step[m + 1][f[m]]]
  <2>3. f[m] \in T /\ step[m + 1][f[m]] \in T
    BY <2>1, <2>2
  <2>4. g \in [0 .. n -> T] /\ g[0] = base
    BY <2>1, <2>2, <2>3 DEF Recurs
  <2>5. ASSUME NEW k \in 1 .. m + 1 PROVE g[k] = step[k][g[k - 1]]
    <3>1. CASE k = m + 1
      <4>1. g[k] = step[m + 1][f[m]]
        BY <2>1, <2>2, <3>1
      <4>2. g[m] = f[m]
        BY <2>1, <2>2
      <4> QED
        BY <2>2, <3>1, <4>1, <4>2
    <3>2. CASE k # m + 1
      <4>1. k \in 1 .. m /\ k - 1 \in 0 .. n /\ k \in 0 .. n /\ k - 1 # m + 1
        BY <2>2, <3>2
      <4>2. g[k] = f[k] /\ g[k - 1] = f[k - 1]
        BY <2>1, <3>2, <4>1
      <4> QED
        BY <2>1, <4>1, <4>2 DEF Recurs
    <3> QED
      BY <3>1, <3>2
  <2> HIDE DEF g
  <2>6. Goes(g, m + 1)
    BY <2>4, <2>5 DEF Recurs
  <2> HIDE DEF Goes
  <2> QED
    BY <2>2, <2>6
<1>3. \A m \in 0 .. n : m \in S
  <2> HIDE DEF S
  <2> QED
    BY <1>1, <1>2, InductionUpTo
<1>4. n \in 0 .. n
  OBVIOUS
<1>5. PICK f : Goes(f, n)
  BY <1>3, <1>4
<1> QED
  BY <1>5

(* What each step keeps holds at the end of the recursion.                  *)
LEMMA RecursionStays ==
  ASSUME NEW n \in Nat, NEW T, NEW f, f[0] \in T,
         \A k \in 1 .. n : f[k - 1] \in T => f[k] \in T
  PROVE  \A k \in 0 .. n : f[k] \in T
<1> DEFINE S == {k \in 0 .. n : f[k] \in T}
<1>1. 0 \in S
  OBVIOUS
<1>2. ASSUME NEW k \in 0 .. n - 1, k \in S PROVE k + 1 \in S
  <2>1. k + 1 \in 1 .. n /\ (k + 1) - 1 = k
    OBVIOUS
  <2> QED
    BY <1>2, <2>1
<1>3. \A k \in 0 .. n : k \in S
  <2> HIDE DEF S
  <2> QED
    BY <1>1, <1>2, InductionUpTo
<1> QED
  BY <1>3
=============================================================================
