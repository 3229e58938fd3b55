----------------------------- MODULE Induction -----------------------------
(***************************************************************************)
(* Induction and recursion over the natural numbers, with sets in place of  *)
(* predicates and functions in place of operators, so that the backend     *)
(* provers can use them.                                                   *)
(***************************************************************************)
EXTENDS Integers, FiniteSets, FiniteSetTheorems, WellFoundedInduction, TLAPS

-----------------------------------------------------------------------------
(* Induction over the natural numbers, with sets in place of predicates *)

\* A set of natural numbers has a least element, since the intervals up to its
\* elements have one that contains no other.
LEMMA LeastElement ==
    ASSUME NEW T, T \subseteq Nat, T # {}
    PROVE  \E m \in T : \A n \in T : m <= n
<1> DEFINE W == {0..n : n \in T}
<1>1. ASSUME NEW n \in T PROVE 0..n \in FiniteSubsetsOf(Nat)
  <2>1. n \in Int /\ 0 \in Int
    OBVIOUS
  <2>2. IsFiniteSet(0..n)
    BY <2>1, FS_Interval
  <2> QED
    BY <2>1, <2>2 DEF FiniteSubsetsOf
<1>2. W \subseteq FiniteSubsetsOf(Nat) /\ W # {}
  BY <1>1
<1>3. PICK w \in W : \A y \in W : <<y, w>> \notin StrictSubsetOrdering(Nat)
  <2> HIDE DEF W
  <2> QED
    BY <1>2, FS_StrictSubsetOrderingWellFounded, WFMin
<1>4. PICK m \in T : w = 0..m
  OBVIOUS
<1>5. ASSUME NEW n \in T, n < m PROVE FALSE
  <2>1. 0..n \subseteq 0..m /\ m \notin 0..n /\ m \in 0..m
    BY <1>5
  <2>2. <<0..n, 0..m>> \in StrictSubsetOrdering(Nat)
    BY <2>1 DEF StrictSubsetOrdering
  <2> QED
    BY <1>3, <1>4, <2>2
<1> QED
  BY <1>5

\* What holds of 0 and of the successor of each number it holds of holds of all.
LEMMA SetInduction ==
    ASSUME NEW S, 0 \in S, \A n \in Nat : n \in S => n + 1 \in S
    PROVE  \A n \in Nat : n \in S
<1> SUFFICES ASSUME Nat \ S # {} PROVE FALSE
  OBVIOUS
<1> DEFINE T == Nat \ S
<1>1. PICK m \in T : \A n \in T : m <= n
  <2>1. T \subseteq Nat /\ T # {}
    OBVIOUS
  <2> HIDE DEF T
  <2> QED
    BY <2>1, LeastElement
<1>2. m \in Nat /\ m # 0
  OBVIOUS
<1>3. m - 1 \in Nat /\ m - 1 \notin T /\ (m - 1) + 1 = m
  BY <1>1, <1>2
<1> QED
  BY <1>2, <1>3

Unfolds(f, start, step) ==
    f[0] = start /\ \A j \in Nat : f[j + 1] = step[<<f[j], j>>]

\* What a recursion over the numbers defines exists: each step is given by what
\* the one before has come to.
LEMMA Recursion ==
    ASSUME NEW X, NEW start \in X, NEW step \in [X \X Nat -> X]
    PROVE  \E f \in [Nat -> X] : Unfolds(f, start, step)
<1> DEFINE Upto(g, m) ==
             /\ g \in [0..m -> X] /\ g[0] = start
             /\ \A j \in 0..m - 1 : g[j + 1] = step[<<g[j], j>>]
           S == {m \in Nat : \E g : Upto(g, m)}
           G(m) == CHOOSE g : Upto(g, m)
           f == [m \in Nat |-> G(m)[m]]
<1>1. \A m \in Nat : m \in S
  <2>1. 0 \in S
    <3>1. Upto([j \in 0..0 |-> start], 0)
      <4>1. 0 \in 0..0 /\ 0..0 - 1 = {}
        OBVIOUS
      <4> QED
        BY <4>1
    <3> QED
      BY <3>1
  <2>2. ASSUME NEW m \in Nat, m \in S PROVE m + 1 \in S
    <3>1. PICK g : Upto(g, m)
      BY <2>2
    <3>2. m \in 0..m /\ g[m] \in X /\ step[<<g[m], m>>] \in X
      BY <3>1
    <3> DEFINE h == [j \in 0..m + 1 |->
                        IF j = m + 1 THEN step[<<g[m], m>>] ELSE g[j]]
    <3>3. h \in [0..m + 1 -> X] /\ h[0] = start
      BY <3>1, <3>2
    <3>4. ASSUME NEW j \in 0..(m + 1) - 1
          PROVE  h[j + 1] = step[<<h[j], j>>]
      <4>1. h[j] = g[j] /\ j \in 0..m /\ j + 1 \in 0..m + 1
        OBVIOUS
      <4>2. CASE j = m
        BY <4>1, <4>2
      <4>3. CASE j # m
        <5>1. h[j + 1] = g[j + 1] /\ j \in 0..m - 1
          BY <4>1, <4>3
        <5> QED
          BY <3>1, <4>1, <5>1
      <4> QED
        BY <4>2, <4>3
    <3>5. Upto(h, m + 1)
      <4> HIDE DEF h
      <4> QED
        BY <3>3, <3>4
    <3> QED
      <4> HIDE DEF h, Upto
      <4> QED
        BY <3>5
  <2> HIDE DEF S
  <2> QED
    BY <2>1, <2>2, SetInduction
<1>2. \A m \in Nat : Upto(G(m), m)
  <2>1. \A m \in Nat : \E g : Upto(g, m)
    BY <1>1
  <2> HIDE DEF Upto
  <2> QED
    BY <2>1, Zenon
<1>3. ASSUME NEW m \in Nat, NEW g, NEW h, Upto(g, m), Upto(h, m + 1)
      PROVE  g[m] = h[m]
  <2> DEFINE Q == {j \in Nat : j <= m => g[j] = h[j]}
  <2>1. 0 \in Q
    BY <1>3
  <2>2. ASSUME NEW j \in Nat, j \in Q PROVE j + 1 \in Q
    <3> SUFFICES ASSUME j + 1 <= m PROVE g[j + 1] = h[j + 1]
      OBVIOUS
    <3>1. j \in 0..m - 1 /\ j \in 0..(m + 1) - 1 /\ g[j] = h[j]
      BY <2>2
    <3> QED
      BY <1>3, <3>1
  <2>3. m \in Q
    <3> HIDE DEF Q
    <3> QED
      BY <2>1, <2>2, SetInduction
  <2> QED
    BY <2>3
<1> HIDE DEF G
<1>4. f \in [Nat -> X]
  BY <1>2
<1>5. f[0] = start
  BY <1>2
<1>6. ASSUME NEW j \in Nat PROVE f[j + 1] = step[<<f[j], j>>]
  <2>1. Upto(G(j), j) /\ Upto(G(j + 1), j + 1)
    BY <1>2
  <2>2. G(j)[j] = G(j + 1)[j]
    <3> HIDE DEF Upto
    <3> QED
      BY <1>3, <2>1
  <2>3. G(j + 1)[j + 1] = step[<<G(j + 1)[j], j>>]
    <3>1. j \in 0..(j + 1) - 1
      OBVIOUS
    <3> QED
      BY <2>1, <3>1
  <2> QED
    BY <2>2, <2>3
<1> HIDE DEF f
<1> QED
  BY <1>4, <1>5, <1>6 DEF Unfolds

UnfoldsTo(f, start, step, n) ==
    f = [j \in 0..n |-> IF j = 0 THEN start ELSE step[<<f[j - 1], j - 1>>]]

\* A recursion over an interval, in the form in which a definition states it.
LEMMA FiniteRecursion ==
    ASSUME NEW X, NEW start \in X, NEW step \in [X \X Nat -> X], NEW n \in Nat
    PROVE  \E f \in [0..n -> X] : UnfoldsTo(f, start, step, n)
<1>1. PICK f \in [Nat -> X] : Unfolds(f, start, step)
  BY Recursion
<1> DEFINE g == [j \in 0..n |-> f[j]]
<1>2. g \in [0..n -> X]
  OBVIOUS
<1>3. ASSUME NEW j \in 0..n
      PROVE  g[j] = IF j = 0 THEN start ELSE step[<<g[j - 1], j - 1>>]
  <2>1. CASE j = 0
    BY <1>1, <2>1 DEF Unfolds
  <2>2. CASE j # 0
    <3>1. j - 1 \in Nat /\ j - 1 \in 0..n /\ (j - 1) + 1 = j
      BY <2>2
    <3>2. f[(j - 1) + 1] = step[<<f[j - 1], j - 1>>]
      BY <1>1, <3>1 DEF Unfolds
    <3> QED
      BY <2>2, <3>1, <3>2
  <2> QED
    BY <2>1, <2>2
<1> HIDE DEF g
<1>4. g = [j \in 0..n |-> IF j = 0 THEN start
                          ELSE step[<<g[j - 1], j - 1>>]]
  <2>1. g = [j \in 0..n |-> g[j]]
    BY <1>2
  <2> QED
    BY <1>3, <2>1
<1> QED
  BY <1>2, <1>4 DEF UnfoldsTo

=============================================================================
