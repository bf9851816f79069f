--------------------------- MODULE DataInduction ----------------------------
(***************************************************************************)
(* Induction over sets of naturals, for proofs about what a recursive      *)
(* function computes. The induction theorems of the library take a         *)
(* predicate as a parameter; these take the set of the numbers it holds    *)
(* of, and a step as a function, so that they can be cited as they are.    *)
(***************************************************************************)
EXTENDS Integers, WellFoundedInduction, TLAPS

\* A set of naturals that is not empty has a least element.
LEMMA HasLeast ==
  ASSUME NEW T, T \subseteq Nat, T # {}
  PROVE  \E x \in T : \A y \in T : x <= y
<1> DEFINE R == OpToRel(<, Nat)
<1>1. IsWellFoundedOn(R, Nat)
  BY NatLessThanWellFounded, Zenon
<1>2. \A x, y \in Nat : y < x => <<y, x>> \in R
  BY DEF OpToRel
<1> HIDE DEF R
<1>3. PICK x \in T : \A y \in T : ~(<<y, x>> \in R)
  BY <1>1, WFMin
<1>4. ASSUME NEW y \in T
      PROVE  x <= y
  <2>1. x \in Nat /\ y \in Nat /\ ~(y < x)
    BY <1>2, <1>3
  <2> QED BY <2>1
<1> QED BY <1>4

\* What holds of 0, and of n + 1 when it holds of n, holds up to N.
LEMMA UpTo ==
  ASSUME NEW N \in Nat, NEW S, 0 \in S, \A n \in 0 .. N - 1 : n \in S => n + 1 \in S
  PROVE  \A n \in 0 .. N : n \in S
<1> DEFINE T == (0 .. N) \ S
<1>1. SUFFICES ASSUME T # {} PROVE FALSE
  OBVIOUS
<1>2. T \subseteq Nat
  OBVIOUS
<1>3. PICK x \in T : \A y \in T : x <= y
  BY <1>1, <1>2, HasLeast
<1>4. x \in 0 .. N /\ x # 0 /\ x \notin S
  BY <1>3
<1>5. x - 1 \in 0 .. N - 1 /\ x - 1 \in S
  BY <1>3, <1>4
<1>6. (x - 1) + 1 \in S
  BY <1>5
<1> QED BY <1>4, <1>6

\* step[n] leads from S to S; g[n] is what n steps make of base.
Steps(step, N, S) == \A n \in 1 .. N, x \in S : step[n][x] \in S
Iterates(g, N, base, step) == g[0] = base /\ \A n \in 1 .. N : g[n] = step[n][g[n - 1]]

\* A recursion over 0 .. N, which the CHOOSE of its definition finds.
LEMMA Recursion ==
  ASSUME NEW N \in Nat, NEW S, NEW base \in S, NEW step, Steps(step, N, S)
  PROVE  \E g \in [0 .. N -> S] : Iterates(g, N, base, step)
<1> USE DEF Steps, Iterates
<1> DEFINE Is(g, k) == g[0] = base /\ \A n \in 1 .. k : g[n] = step[n][g[n - 1]]
           Begun == {k \in 0 .. N : \E g \in [0 .. k -> S] : Is(g, k)}
<1>1. 0 \in Begun
  <2> DEFINE h == [n \in 0 .. 0 |-> base]
  <2>1. h \in [0 .. 0 -> S] /\ Is(h, 0)
    OBVIOUS
  <2> HIDE DEF h, Is
  <2> QED BY <2>1
<1>2. ASSUME NEW k \in 0 .. N - 1, k \in Begun
      PROVE  k + 1 \in Begun
  <2>1. PICK g \in [0 .. k -> S] : Is(g, k)
    BY <1>2
  <2> DEFINE h == [n \in 0 .. k + 1 |-> IF n <= k THEN g[n] ELSE step[k + 1][g[k]]]
  <2>2. h \in [0 .. k + 1 -> S]
    OBVIOUS
  <2>3. \A n \in 1 .. k + 1 : h[n] = step[n][h[n - 1]]
    <3> SUFFICES ASSUME NEW n \in 1 .. k + 1 PROVE h[n] = step[n][h[n - 1]]
      OBVIOUS
    <3>1. h[n - 1] = g[n - 1]
      OBVIOUS
    <3>2. CASE n <= k
      <4>1. h[n] = g[n] /\ n \in 1 .. k
        BY <3>2
      <4>2. g[n] = step[n][g[n - 1]]
        BY <2>1, <4>1
      <4> QED BY <3>1, <4>1, <4>2
    <3>3. CASE n = k + 1
      <4>1. h[n] = step[k + 1][g[k]] /\ n - 1 = k
        BY <3>3
      <4> QED BY <3>1, <3>3, <4>1
    <3> QED BY <3>2, <3>3
  <2>4. Is(h, k + 1)
    <3>1. h[0] = base
      BY <2>1
    <3> QED BY <2>3, <3>1
  <2>5. k + 1 \in 0 .. N
    OBVIOUS
  <2> HIDE DEF h, Is
  <2>6. \E i \in [0 .. k + 1 -> S] : Is(i, k + 1)
    BY <2>2, <2>4
  <2> QED BY <2>5, <2>6
<1> HIDE DEF Begun
<1>3. N \in Begun
  BY <1>1, <1>2, UpTo
<1> QED BY <1>3 DEF Begun
=============================================================================
