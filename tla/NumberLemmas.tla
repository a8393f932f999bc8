------------------------------ MODULE NumberLemmas ------------------------------
(***************************************************************************)
(* Facts about numbers and finite sets that the proofs of the components   *)
(* share.  The library states induction for operators, which the provers   *)
(* cannot instantiate; here it is stated for sets.                         *)
(***************************************************************************)
EXTENDS FiniteSetsExt, FiniteSetTheorems, WellFoundedInduction, TLAPS

(* Strict inclusion is well-founded on finite sets, so a non-empty set of  *)
(* naturals has a least element.                                           *)
LEMMA LeastNat ==
  ASSUME NEW T, T \subseteq Nat, T # {}
  PROVE  \E x \in T : \A y \in T : x <= y
<1> DEFINE R == StrictSubsetOrdering(Nat)
           U == {0 .. x : x \in T}
<1>1. IsWellFoundedOn(R, FiniteSubsetsOf(Nat))
  BY FS_StrictSubsetOrderingWellFounded, Zenon
<1>2. ASSUME NEW x \in T PROVE 0 .. x \in FiniteSubsetsOf(Nat)
  <2>1. IsFiniteSet(0 .. x)
    BY FS_Interval
  <2>2. 0 .. x \subseteq Nat
    OBVIOUS
  <2>3. QED
    BY <2>1, <2>2 DEF FiniteSubsetsOf
<1>3. U \subseteq FiniteSubsetsOf(Nat) /\ U # {}
  BY <1>2
<1>4. PICK u \in U : \A v \in U : ~ (<<v, u>> \in R)
  <2> HIDE DEF U, R
  <2> QED BY <1>1, <1>3, WFMin, Zenon
<1>5. PICK x \in T : u = 0 .. x
  OBVIOUS
<1>6. ASSUME NEW y \in T, y < x PROVE FALSE
  <2>1. /\ 0 .. y \subseteq Nat /\ 0 .. x \subseteq Nat
        /\ x \in 0 .. x /\ x \notin 0 .. y /\ 0 .. y \subseteq 0 .. x
    BY <1>6
  <2>2. <<0 .. y, u>> \in R
    BY <2>1, <1>5 DEF StrictSubsetOrdering
  <2>3. QED
    BY <2>2, <1>4
<1>7. QED
  BY <1>6

(* A bounded, non-empty set of naturals has a greatest element. *)
LEMMA GreatestNat ==
  ASSUME NEW T, NEW N \in Nat, T \subseteq 0 .. N, T # {}
  PROVE  \E x \in T : \A y \in T : y <= x
<1> DEFINE U == {N - x : x \in T}
<1>1. ASSUME NEW x \in T PROVE N - x \in Nat
  <2>1. x \in 0 .. N
    OBVIOUS
  <2>2. QED
    BY <2>1
<1>2. U \subseteq Nat /\ U # {}
  BY <1>1
<1>3. PICK u \in U : \A v \in U : u <= v
  <2> HIDE DEF U
  <2> QED BY <1>2, LeastNat
<1>4. PICK x \in T : u = N - x
  OBVIOUS
<1>5. ASSUME NEW y \in T PROVE y <= x
  <2>1. N - x <= N - y
    BY <1>3, <1>4
  <2>2. x \in 0 .. N /\ y \in 0 .. N
    OBVIOUS
  <2>3. QED
    BY <2>1, <2>2
<1>6. QED
  BY <1>5

(* Max is the greatest element. *)
LEMMA MaxProperty ==
  ASSUME NEW T, NEW N \in Nat, T \subseteq 0 .. N, T # {}
  PROVE  Max(T) \in T /\ \A y \in T : y <= Max(T)
<1>1. PICK x \in T : \A y \in T : y <= x
  BY GreatestNat
<1>2. T \subseteq Int
  OBVIOUS
<1>3. \A y \in T : x >= y
  BY <1>1, <1>2
<1>4. QED
  BY <1>2, <1>3 DEF Max

(* Min is the least element of a set of naturals. *)
LEMMA MinProperty ==
  ASSUME NEW T, T \subseteq Nat, T # {}
  PROVE  Min(T) \in T /\ \A y \in T : Min(T) <= y
<1>1. PICK x \in T : \A y \in T : x <= y
  BY LeastNat
<1>2. QED
  BY <1>1 DEF Min

(* Induction: a set of naturals with 0 and all successors is Nat. *)
LEMMA NatSetInduction ==
  ASSUME NEW T, T \subseteq Nat, 0 \in T, \A n \in T : n + 1 \in T
  PROVE  T = Nat
<1>1. SUFFICES ASSUME Nat \ T # {} PROVE FALSE
  OBVIOUS
<1>2. PICK x \in Nat \ T : \A y \in Nat \ T : x <= y
  <2>1. Nat \ T \subseteq Nat
    OBVIOUS
  <2>2. QED
    BY <1>1, <2>1, LeastNat
<1>3. x # 0 /\ x - 1 \in Nat
  BY <1>2
<1>4. x - 1 \in T
  BY <1>2, <1>3
<1>5. QED
  BY <1>2, <1>3, <1>4

(* A function can be applied again and again, and the results form one     *)
(* function of the number of times.                                        *)
Iterates(f, S, a, g, N) ==
    /\ f = [n \in 0 .. N |-> IF n = 0 THEN a ELSE g[f[n - 1]]]
    /\ \A n \in 0 .. N : f[n] \in S

LEMMA Iteration ==
  ASSUME NEW S, NEW a \in S, NEW g \in [S -> S], NEW N \in Nat
  PROVE  \E f : Iterates(f, S, a, g, N)
<1> DEFINE T == {n \in Nat : \E f : Iterates(f, S, a, g, n)}
<1>1. 0 \in T
  <2> DEFINE f == [n \in 0 .. 0 |-> a]
  <2>1. f = [n \in 0 .. 0 |-> IF n = 0 THEN a ELSE g[f[n - 1]]]
    OBVIOUS
  <2>2. \A n \in 0 .. 0 : f[n] \in S
    OBVIOUS
  <2> HIDE DEF f
  <2>3. Iterates(f, S, a, g, 0)
    BY <2>1, <2>2 DEF Iterates
  <2>. QED BY <2>3
<1>2. ASSUME NEW n \in T PROVE n + 1 \in T
  <2>1. n \in Nat /\ n + 1 \in Nat
    OBVIOUS
  <2>2. PICK f : Iterates(f, S, a, g, n)
    OBVIOUS
  <2> DEFINE h == [i \in 0 .. n + 1 |-> IF i = n + 1 THEN g[f[n]] ELSE f[i]]
  <2>3. \A i \in 0 .. n : f[i] \in S /\ f[i] = IF i = 0 THEN a ELSE g[f[i - 1]]
    BY <2>2 DEF Iterates
  <2>4. ASSUME NEW i \in 0 .. n + 1
        PROVE  h[i] \in S /\ h[i] = IF i = 0 THEN a ELSE g[h[i - 1]]
    <3>1. CASE i = n + 1
      <4>1. i # 0 /\ i - 1 = n /\ n \in 0 .. n /\ n \in 0 .. n + 1 /\ n # n + 1
        BY <2>1, <3>1
      <4>2. h[i] = g[f[n]] /\ h[n] = f[n]
        BY <3>1, <4>1
      <4>. QED BY <2>3, <4>1, <4>2
    <3>2. CASE i # n + 1 /\ i # 0
      <4>1. /\ i \in 0 .. n /\ i - 1 \in 0 .. n + 1 /\ i - 1 # n + 1
        BY <2>1, <3>2
      <4>2. h[i] = f[i] /\ h[i - 1] = f[i - 1]
        BY <3>2, <4>1
      <4>. QED BY <2>3, <3>2, <4>1, <4>2
    <3>3. CASE i # n + 1 /\ i = 0
      <4>1. 0 \in 0 .. n /\ h[i] = f[i]
        BY <2>1, <3>3
      <4>. QED BY <2>3, <3>3, <4>1
    <3>. QED BY <3>1, <3>2, <3>3
  <2>5. h = [i \in 0 .. n + 1 |-> h[i]]
    OBVIOUS
  <2> HIDE DEF h
  <2>6. h = [i \in 0 .. n + 1 |-> IF i = 0 THEN a ELSE g[h[i - 1]]]
    BY <2>4, <2>5
  <2>7. Iterates(h, S, a, g, n + 1)
    BY <2>4, <2>6 DEF Iterates
  <2>. QED BY <2>1, <2>7
<1>3. T = Nat
  <2>1. T \subseteq Nat
    OBVIOUS
  <2>2. \A n \in T : n + 1 \in T
    BY <1>2
  <2> HIDE DEF T
  <2>. QED BY <1>1, <2>1, <2>2, NatSetInduction
<1>. QED BY <1>3

(* {x} \X S is as large as S. *)
LEMMA PairsCount ==
  ASSUME NEW x, NEW S, IsFiniteSet(S)
  PROVE  IsFiniteSet({x} \X S) /\ Cardinality({x} \X S) = Cardinality(S)
<1>1. IsFiniteSet({x}) /\ Cardinality({x}) = 1
  BY FS_Singleton
<1>2. Cardinality(S) \in Nat
  BY FS_CardinalityType
<1>3. QED
  BY <1>1, <1>2, FS_Product
================================================================================
