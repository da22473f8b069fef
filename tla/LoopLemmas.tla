------------------------------- MODULE LoopLemmas -------------------------------
(***************************************************************************)
(* Induction over the natural numbers, stated about a set, so that it can  *)
(* be cited, and what follows from it: what a loop (TelnetEvents) keeps.   *)
(***************************************************************************)
EXTENDS TelnetEvents, WellFoundedInduction, TLAPS

LEMMA Induction ==
    ASSUME NEW S, 0 \in S, \A n \in Nat : n \in S => n + 1 \in S
    PROVE  Nat \subseteq S
  <1> DEFINE R == {p \in Nat \X Nat : p[1] < p[2]}
             T == Nat \ S
  <1>1. IsWellFoundedOn(R, Nat)
    BY NatLessThanWellFounded DEF OpToRel
  <1>2. CASE T # {}
    <2>0. T \subseteq Nat
      OBVIOUS
    <2> HIDE DEF R, T
    <2>1. PICK x \in T : \A y \in T : ~(<<y, x>> \in R)
      BY <1>1, <1>2, <2>0, WFMin
    <2>2. x \in Nat /\ x # 0 /\ x - 1 \in Nat
      BY <2>0, <2>1 DEF T
    <2>3. <<x - 1, x>> \in R
      BY <2>2 DEF R
    <2>4. x - 1 \in S
      BY <2>1, <2>2, <2>3 DEF T
    <2> QED
      BY <2>1, <2>2, <2>4 DEF T
  <1> QED
    BY <1>2

(* The same for the numbers up to n. *)
LEMMA InductionUpTo ==
    ASSUME NEW n \in Nat, NEW S, 0 \in S, \A k \in 1..n : k - 1 \in S => k \in S
    PROVE  0..n \subseteq S
  <1> DEFINE T == {k \in Nat : k <= n => k \in S}
  <1>1. 0 \in T
    OBVIOUS
  <1>2. ASSUME NEW k \in Nat, k \in T PROVE k + 1 \in T
    <2>1. CASE k + 1 <= n
      <3>1. k + 1 \in 1..n /\ k \in S /\ (k + 1) - 1 = k
        BY <1>2, <2>1
      <3> QED
        BY <3>1
    <2> QED
      BY <2>1
  <1>3. Nat \subseteq T
    <2> HIDE DEF T
    <2> QED
      BY <1>1, <1>2, Induction
  <1> QED
    BY <1>3

-----------------------------------------------------------------------------
(* A function defined by recursion on 0..n is there. *)
LEMMA LoopIs ==
    ASSUME NEW turn, NEW s, NEW n \in Nat
    PROVE  \E f : /\ f = [k \in 0..n |-> IF k = 0 THEN s ELSE turn[f[k - 1]]]
                  /\ Loop(turn, s, n) = f[n]
  <1> DEFINE Is(f, m) == f = [k \in 0..m |-> IF k = 0 THEN s ELSE turn[f[k - 1]]]
             S == {m \in Nat : \E f : Is(f, m)}
  <1>1. 0 \in S
    <2>1. Is([k \in 0..0 |-> s], 0)
      OBVIOUS
    <2> QED
      BY <2>1
  <1>2. ASSUME NEW m \in Nat, m \in S PROVE m + 1 \in S
    <2>1. PICK f : Is(f, m)
      BY <1>2
    <2> DEFINE g == [k \in 0..m + 1 |-> IF k <= m THEN f[k] ELSE turn[f[m]]]
    <2>2. ASSUME NEW k \in 0..m + 1
          PROVE  g[k] = IF k = 0 THEN s ELSE turn[g[k - 1]]
      <3>1. CASE k = 0
        BY <2>1, <3>1
      <3>2. CASE k # 0 /\ k <= m
        <4>1. k \in 0..m /\ k - 1 \in 0..m + 1 /\ k - 1 <= m
          BY <3>2
        <4>2. f[k] = turn[f[k - 1]]
          BY <2>1, <3>2, <4>1
        <4> QED
          BY <3>2, <4>1, <4>2
      <3>3. CASE k = m + 1
        <4>1. k - 1 = m /\ m \in 0..m + 1 /\ k # 0 /\ ~(k <= m)
          BY <3>3
        <4> QED
          BY <4>1
      <3> QED
        BY <3>1, <3>2, <3>3
    <2>3. Is(g, m + 1)
      <3>1. g = [k \in 0..m + 1 |-> g[k]]
        OBVIOUS
      <3> HIDE DEF g
      <3> QED
        BY <2>2, <3>1
    <2> HIDE DEF g, Is
    <2> QED
      BY <2>3
  <1>3. n \in S
    <2> HIDE DEF S
    <2> QED
      BY <1>1, <1>2, Induction
  <1> DEFINE c == CHOOSE f : Is(f, n)
  <1>4. Is(c, n)
    <2>1. \E f : Is(f, n)
      BY <1>3
    <2> HIDE DEF Is
    <2> QED
      BY <2>1
  <1>5. Loop(turn, s, n) = c[n]
    BY DEF Loop
  <1> HIDE DEF c
  <1> QED
    BY <1>4, <1>5

(* A loop ends in Y[n] if turn k leads from Y[k - 1] to Y[k]. *)
LEMMA LoopKeeps ==
    ASSUME NEW turn, NEW s, NEW n \in Nat, NEW Y, s \in Y[0],
           \A k \in 1..n : \A x \in Y[k - 1] : turn[x] \in Y[k]
    PROVE  Loop(turn, s, n) \in Y[n]
  <1>1. PICK f : /\ f = [k \in 0..n |-> IF k = 0 THEN s ELSE turn[f[k - 1]]]
                 /\ Loop(turn, s, n) = f[n]
    BY LoopIs
  <1> DEFINE S == {k \in 0..n : f[k] \in Y[k]}
  <1>2. 0 \in S
    BY <1>1
  <1>3. ASSUME NEW k \in 1..n, k - 1 \in S PROVE k \in S
    <2>1. f[k] = turn[f[k - 1]]
      BY <1>1
    <2> QED
      BY <1>3, <2>1
  <1>4. n \in S
    <2> HIDE DEF S
    <2> QED
      BY <1>2, <1>3, InductionUpTo
  <1> QED
    BY <1>1, <1>4
(* A least and a greatest number. *)
LEMMA LeastIs ==
    ASSUME NEW S, S \subseteq Nat, S # {}
    PROVE  \E x \in S : \A y \in S : x <= y
  <1> SUFFICES ASSUME \A x \in S : \E y \in S : ~(x <= y) PROVE FALSE
    OBVIOUS
  <1> DEFINE T == {m \in Nat : \A y \in S : m <= y}
  <1>1. 0 \in T
    OBVIOUS
  <1>2. ASSUME NEW m \in Nat, m \in T PROVE m + 1 \in T
    <2>1. m \notin S
      BY <1>2
    <2> QED
      BY <1>2, <2>1
  <1>3. Nat \subseteq T
    <2> HIDE DEF T
    <2> QED
      BY <1>1, <1>2, Induction
  <1>4. PICK y : y \in S
    BY Zenon
  <1>5. y \in Nat /\ y + 1 \in T
    BY <1>3, <1>4
  <1> QED
    BY <1>4, <1>5

LEMMA GreatestIs ==
    ASSUME NEW n \in Nat, NEW S, S \subseteq 0..n, S # {}
    PROVE  \E x \in S : \A y \in S : y <= x
  <1> SUFFICES ASSUME \A x \in S : \E y \in S : ~(y <= x) PROVE FALSE
    OBVIOUS
  <1> DEFINE T == {m \in Nat : \E y \in S : m <= y}
  <1>0. PICK z : z \in S
    BY Zenon
  <1>1. 0 \in T
    BY <1>0
  <1>2. ASSUME NEW m \in Nat, m \in T PROVE m + 1 \in T
    <2>1. PICK x \in S : m <= x
      BY <1>2
    <2>2. PICK y \in S : ~(y <= x)
      OBVIOUS
    <2>3. x \in Nat /\ y \in Nat
      OBVIOUS
    <2>4. m + 1 <= y
      BY <2>1, <2>2, <2>3
    <2> QED
      BY <2>2, <2>4
  <1>3. Nat \subseteq T
    <2> HIDE DEF T
    <2> QED
      BY <1>1, <1>2, Induction
  <1>4. n + 1 \in T
    <2> HIDE DEF T
    <2> QED
      BY <1>3
  <1>5. PICK y \in S : n + 1 <= y
    BY <1>4
  <1>6. y \in 0..n
    OBVIOUS
  <1> QED
    BY <1>5, <1>6
=============================================================================
