------------------------------ MODULE NatLemmas ------------------------------
(***************************************************************************)
(* Facts about natural numbers that the proofs of the components share:    *)
(* the least element of a set, induction stated for a set, and the         *)
(* existence of a function defined by iteration.                           *)
(***************************************************************************)
EXTENDS Naturals, WellFoundedInduction, TLAPS

(* A set of natural numbers has a least element.                           *)
LEMMA LeastElement ==
  ASSUME NEW S \in SUBSET Nat, S # {}
  PROVE  \E m \in S : \A n \in S : m <= n
  <1> DEFINE R == OpToRel(<, Nat)
  <1>1. IsWellFoundedOn(R, Nat)
    BY NatLessThanWellFounded
  <1>2. PICK m \in S : \A n \in S : <<n, m>> \notin R
    <2> HIDE DEF R
    <2> QED BY <1>1, WFMin
  <1>3. \A n \in S : ~(n < m)
    BY <1>2 DEF OpToRel
  <1> QED BY <1>3

(* A set that has 0 and each successor of its members has every number.    *)
LEMMA SetInduction ==
  ASSUME NEW S, 0 \in S, \A n \in Nat : n \in S => n + 1 \in S
  PROVE  \A n \in Nat : n \in S
  <1> SUFFICES ASSUME NEW k \in Nat, k \notin S
               PROVE  FALSE
    OBVIOUS
  <1> DEFINE Missing == {n \in Nat : n \notin S}
  <1>1. PICK m \in Missing : \A n \in Missing : m <= n
    <2>1. Missing \in SUBSET Nat /\ Missing # {}
      OBVIOUS
    <2> HIDE DEF Missing
    <2> QED BY <2>1, LeastElement
  <1>2. m - 1 \in Nat /\ m - 1 \in S
    BY <1>1
  <1> QED BY <1>1, <1>2

(* The same up to a bound.                                                 *)
LEMMA BoundedInduction ==
  ASSUME NEW N \in Nat, NEW S, 0 \in S, \A n \in 0..(N - 1) : n \in S => n + 1 \in S
  PROVE  \A n \in 0..N : n \in S
  <1> DEFINE T == {n \in Nat : n <= N => n \in S}
  <1>1. \A n \in Nat : n \in T
    <2>1. 0 \in T /\ \A n \in Nat : n \in T => n + 1 \in T
      OBVIOUS
    <2> HIDE DEF T
    <2> QED BY <2>1, SetInduction
  <1> QED BY <1>1

(* N steps from a first value make a function.                             *)
Iterates(f, N, S, first, step) ==
  f \in [0..N -> S] /\ f[0] = first /\ \A n \in 1..N : f[n] = step[n][f[n - 1]]

LEMMA Iteration ==
  ASSUME NEW N \in Nat, NEW S, NEW first \in S, NEW step \in [1..N -> [S -> S]]
  PROVE  \E f : Iterates(f, N, S, first, step)
  <1> DEFINE Upto(k, f) == f[0] = first /\ \A n \in 1..k : f[n] = step[n][f[n - 1]]
             K == {k \in 0..N : \E f \in [0..k -> S] : Upto(k, f)}
  <1>1. 0 \in K
    <2> DEFINE f == [n \in 0..0 |-> first]
    <2>1. f \in [0..0 -> S] /\ Upto(0, f)
      OBVIOUS
    <2> HIDE DEF f
    <2>2. \E h \in [0..0 -> S] : Upto(0, h)
      BY <2>1
    <2> QED BY <2>2
  <1>2. ASSUME NEW k \in 0..(N - 1), k \in K
        PROVE  k + 1 \in K
    <2>1. PICK f \in [0..k -> S] : Upto(k, f)
      BY <1>2
    <2> DEFINE g == [n \in 0..(k + 1) |-> IF n <= k THEN f[n] ELSE step[k + 1][f[k]]]
    <2>2. g \in [0..(k + 1) -> S]
      <3>1. k \in 0..k /\ k + 1 \in 1..N /\ f[k] \in S /\ step[k + 1][f[k]] \in S
        OBVIOUS
      <3> QED BY <3>1
    <2>3. g[0] = first
      BY <2>1
    <2>4. ASSUME NEW n \in 1..(k + 1)
          PROVE  g[n] = step[n][g[n - 1]]
      <3>1. g[n - 1] = f[n - 1]
        OBVIOUS
      <3>2. CASE n <= k
        BY <2>1, <3>1, <3>2
      <3>3. CASE n = k + 1
        BY <3>1, <3>3
      <3> QED BY <3>2, <3>3
    <2> HIDE DEF g
    <2>5. Upto(k + 1, g)
      BY <2>3, <2>4
    <2> QED BY <2>2, <2>5
  <1>3. \A k \in 0..N : k \in K
    <2> HIDE DEF K
    <2> QED BY <1>1, <1>2, BoundedInduction
  <1> QED BY <1>3 DEF Iterates
=============================================================================
