------------------------------ MODULE Induction ------------------------------
(***************************************************************************)
(* Induction over the natural numbers and functions defined by recursion,   *)
(* stated with sets and functions where the library has operators.         *)
(***************************************************************************)
EXTENDS WellFoundedInduction, TLAPS

(* Induction over the natural numbers, stated with a set.                   *)
LEMMA SetInduction ==
  ASSUME NEW T, 0 \in T, \A n \in Nat : n \in T => n + 1 \in T
  PROVE  Nat \subseteq T
<1> DEFINE R == OpToRel(<, Nat)
           U == Nat \ T
<1> SUFFICES ASSUME U # {} PROVE FALSE
  OBVIOUS
<1>1. IsWellFoundedOn(R, Nat)
  BY NatLessThanWellFounded
<1>2. \A x, y \in Nat : y < x => <<y, x>> \in R
  BY DEF OpToRel
<1>3. U \subseteq Nat
  OBVIOUS
<1> HIDE DEF R
<1>4. \E x \in U : \A y \in U : ~(<<y, x>> \in R)
  <2> HIDE DEF U
  <2> QED BY <1>1, <1>3, WFMin
<1>5. PICK x \in U : \A y \in U : ~(<<y, x>> \in R)
  BY <1>4
<1>6. x \in Nat /\ x # 0 /\ x - 1 \in Nat /\ x - 1 + 1 = x
  BY <1>5
<1>7. x - 1 \in U
  BY <1>5, <1>6
<1>8. <<x - 1, x>> \in R
  BY <1>2, <1>6
<1>9. ~(<<x - 1, x>> \in R)
  <2> HIDE DEF U
  <2> QED BY <1>5, <1>7
<1> QED BY <1>8, <1>9

(* ... and over the first of them.                                          *)
LEMMA BoundedInduction ==
  ASSUME NEW m \in Nat, NEW T, 0 \in T, \A n \in 0..(m - 1) : n \in T => n + 1 \in T
  PROVE  \A n \in 0..m : n \in T
<1> DEFINE U == {n \in Nat : n <= m => n \in T}
<1>1. 0 \in U
  OBVIOUS
<1>2. ASSUME NEW n \in Nat, n \in U PROVE n + 1 \in U
  BY <1>2
<1>3. Nat \subseteq U
  <2> HIDE DEF U
  <2> QED BY <1>1, <1>2, SetInduction
<1> QED BY <1>3

(* f is defined by recursion: f[0] = v0, f[n] = step[<<n, f[n - 1]>>].      *)
Recurses(f, V, v0, m, step) ==
  f \in [0..m -> V] /\ f[0] = v0 /\ \A n \in 1..m : f[n] = step[<<n, f[n - 1]>>]

(* A function defined by recursion over 0..m exists.                        *)
LEMMA RecursionExists ==
  ASSUME NEW V, NEW v0 \in V, NEW m \in Nat, NEW step, step \in [(1..m) \X V -> V]
  PROVE  \E f : Recurses(f, V, v0, m, step)
<1> DEFINE Solves(f, h) == f \in [0..h -> V] /\ f[0] = v0 /\ \A n \in 1..h : f[n] = step[<<n, f[n - 1]>>]
           T == {h \in Nat : h <= m => \E f : Solves(f, h)}
<1>1. 0 \in T
  <2>1. Solves([n \in 0..0 |-> v0], 0)
    OBVIOUS
  <2> QED BY <2>1
<1>2. ASSUME NEW h \in Nat, h \in T PROVE h + 1 \in T
  <2> SUFFICES ASSUME h + 1 <= m PROVE \E f : Solves(f, h + 1)
    OBVIOUS
  <2>1. PICK f : Solves(f, h)
    BY <1>2
  <2> DEFINE g == [n \in 0..(h + 1) |-> IF n = h + 1 THEN step[<<h + 1, f[h]>>] ELSE f[n]]
  <2>2. f[h] \in V /\ step[<<h + 1, f[h]>>] \in V
    BY <2>1
  <2>3. g \in [0..(h + 1) -> V] /\ g[0] = v0
    BY <2>1, <2>2
  <2>4. ASSUME NEW n \in 1..(h + 1) PROVE g[n] = step[<<n, g[n - 1]>>]
    <3>1. n \in 0..(h + 1) /\ n - 1 \in 0..(h + 1) /\ n - 1 # h + 1
      OBVIOUS
    <3>2. g[n - 1] = f[n - 1]
      BY <3>1
    <3>3. CASE n = h + 1
      BY <3>1, <3>2, <3>3
    <3>4. CASE n # h + 1
      <4>1. n \in 1..h
        BY <3>4
      <4>2. g[n] = f[n]
        BY <3>1, <3>4
      <4> QED BY <2>1, <3>2, <4>1, <4>2
    <3> QED BY <3>3, <3>4
  <2>5. Solves(g, h + 1)
    <3> HIDE DEF g
    <3> QED BY <2>3, <2>4
  <2> QED
    <3> HIDE DEF Solves, g
    <3> QED BY <2>5
<1>3. Nat \subseteq T
  <2> HIDE DEF T
  <2> QED BY <1>1, <1>2, SetInduction
<1>4. \E f : Solves(f, m)
  <2> HIDE DEF Solves
  <2> QED BY <1>3
<1> QED BY <1>4 DEF Recurses
=============================================================================
