------------------------------- MODULE Induction -------------------------------
(***************************************************************************)
(* Induction and recursion over the naturals, stated with sets and         *)
(* functions in place of predicates and operators, so that a step of a     *)
(* proof can cite them.                                                    *)
(***************************************************************************)
EXTENDS WellFoundedInduction, TLAPS

LEMMA SetInduction ==
    ASSUME NEW T, 0 \in T, \A n \in Nat : n \in T => n + 1 \in T
    PROVE  Nat \subseteq T
<1> SUFFICES ASSUME Nat \ T # {} PROVE FALSE
  OBVIOUS
<1> DEFINE R == OpToRel(<, Nat)
<1>1. \A a, b \in Nat : <<a, b>> \in R <=> a < b
  BY DEF OpToRel
<1> HIDE DEF R
<1>2. IsWellFoundedOn(R, Nat)
  BY NatLessThanWellFounded DEF R
<1>3. PICK x \in Nat \ T : \A y \in Nat \ T : ~ (<<y, x>> \in R)
  BY <1>2, WFMin, Zenon
<1>4. x # 0 /\ x - 1 \in Nat /\ x - 1 < x /\ x = (x - 1) + 1
  BY <1>3
<1>5. x - 1 \notin T
  BY <1>3, <1>4
<1> QED BY <1>1, <1>3, <1>4, <1>5

\* What holds at the start, and at each place when it holds at the one before,
\* holds at the end.
LEMMA Climb ==
  ASSUME NEW N \in Nat, NEW T, 0 \in T, \A n \in 1 .. N : n - 1 \in T => n \in T
  PROVE  \A n \in 0 .. N : n \in T
<1> DEFINE U == {n \in Nat : n <= N => n \in T}
<1>1. 0 \in U OBVIOUS
<1>2. ASSUME NEW n \in Nat, n \in U PROVE n + 1 \in U
  <2>1. n + 1 \in Nat /\ (n + 1) - 1 = n OBVIOUS
  <2> SUFFICES ASSUME n + 1 <= N PROVE n + 1 \in T BY <2>1
  <2>2. n + 1 \in 1 .. N /\ n \in T BY <1>2
  <2> QED BY <2>1, <2>2
<1>3. Nat \subseteq U
  <2> HIDE DEF U
  <2> QED BY <1>1, <1>2, SetInduction
<1> QED BY <1>3

\* A function defined by recursion up to N exists.
LEMMA Recursion ==
    ASSUME NEW S, NEW a \in S, NEW N \in Nat, NEW F \in [1 .. N -> [S -> S]]
    PROVE  \E h \in [0 .. N -> S] :
              h[0] = a /\ \A n \in 1 .. N : h[n] = F[n][h[n - 1]]
<1> DEFINE Good(h, n) == /\ h \in [0 .. n -> S] /\ h[0] = a
                         /\ \A i \in 1 .. n : h[i] = F[i][h[i - 1]]
           T == {n \in Nat : n <= N => \E h : Good(h, n)}
<1>1. 0 \in T
  <2> DEFINE h == [i \in 0 .. 0 |-> a]
  <2>1. Good(h, 0)
    OBVIOUS
  <2> QED BY <2>1
<1>2. ASSUME NEW n \in Nat, n \in T PROVE n + 1 \in T
  <2> SUFFICES ASSUME n + 1 <= N PROVE \E h : Good(h, n + 1)
    OBVIOUS
  <2>1. PICK h : Good(h, n)
    BY <1>2
  <2> DEFINE v == F[n + 1][h[n]]
             g == [i \in 0 .. (n + 1) |-> IF i = n + 1 THEN v ELSE h[i]]
  <2>2. h[n] \in S /\ n + 1 \in 1 .. N
    BY <2>1
  <2>3. v \in S
    BY <2>2
  <2> HIDE DEF v
  <2>4. g \in [0 .. (n + 1) -> S] /\ g[0] = a
    BY <2>1, <2>3
  <2>5. ASSUME NEW i \in 1 .. (n + 1) PROVE g[i] = F[i][g[i - 1]]
    <3>1. CASE i = n + 1
      <4>1. i - 1 = n /\ g[i] = v /\ g[n] = h[n]
        BY <3>1
      <4> QED BY <4>1, <3>1 DEF v
    <3>2. CASE i \in 1 .. n
      <4>1. g[i] = h[i] /\ g[i - 1] = h[i - 1]
        BY <3>2
      <4>2. h[i] = F[i][h[i - 1]]
        BY <2>1, <3>2
      <4> QED BY <4>1, <4>2
    <3> QED BY <3>1, <3>2
  <2> HIDE DEF g
  <2>6. Good(g, n + 1)
    BY <2>4, <2>5
  <2> QED BY <2>6
<1>3. Nat \subseteq T
  <2> HIDE DEF T
  <2> QED BY <1>1, <1>2, SetInduction
<1>4. PICK h : Good(h, N)
  BY <1>3
<1> QED BY <1>4

\* The same with the set of values and the number of steps under one name, for
\* sets that are not names themselves.
Unfolds(S, N) ==
    \A a \in S, F \in [1 .. N -> [S -> S]] :
        \E h \in [0 .. N -> S] : h[0] = a /\ \A n \in 1 .. N : h[n] = F[n][h[n - 1]]
LEMMA Unfolding ==
    ASSUME NEW S, NEW N \in Nat
    PROVE  Unfolds(S, N)
<1>1. ASSUME NEW a \in S, NEW F \in [1 .. N -> [S -> S]]
      PROVE  \E h \in [0 .. N -> S] : h[0] = a /\ \A n \in 1 .. N : h[n] = F[n][h[n - 1]]
  BY Recursion
<1> QED BY <1>1 DEF Unfolds
================================================================================
