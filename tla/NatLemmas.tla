----------------------------- MODULE NatLemmas -----------------------------
(***************************************************************************)
(* Facts about natural numbers that the proofs of several components need. *)
(* They follow from the well-foundedness of < and are stated with sets, so *)
(* that no operator has to be instantiated.                                *)
(***************************************************************************)
EXTENDS Integers, WellFoundedInduction, TLAPS

(* A nonempty set of naturals has a least element. *)
LEMMA LeastNat ==
  ASSUME NEW T \in SUBSET Nat, T # {}
  PROVE  \E x \in T : \A y \in T : x <= y
<1> DEFINE R == OpToRel(<, Nat)
<1>1. IsWellFoundedOn(R, Nat)
  BY NatLessThanWellFounded
<1>2. \A x, y \in Nat : x < y => <<x, y>> \in R
  BY DEF OpToRel
<1> HIDE DEF R
<1>3. PICK x \in T : \A y \in T : ~(<<y, x>> \in R)
  BY <1>1, WFMin
<1>4. ASSUME NEW y \in T PROVE x <= y
  <2>1. x \in Nat /\ y \in Nat /\ ~(y < x)
    BY <1>2, <1>3
  <2> QED BY <2>1
<1> QED
  BY <1>4

(* A nonempty bounded one has a greatest element. *)
LEMMA GreatestNat ==
  ASSUME NEW n \in Nat, NEW T \in SUBSET (0..n), T # {}
  PROVE  \E x \in T : \A y \in T : y <= x
<1> DEFINE D == {i \in 0..n : n - i \in T}
<1>1. D \in SUBSET Nat /\ D # {}
  <2>1. PICK y \in T : TRUE
    OBVIOUS
  <2>2. n - y \in D
    BY <2>1
  <2>3. D \subseteq Nat
    OBVIOUS
  <2> HIDE DEF D
  <2> QED BY <2>2, <2>3
<1>2. PICK x \in D : \A y \in D : x <= y
  BY <1>1, LeastNat
<1>3. n - x \in T BY <1>2
<1>4. ASSUME NEW y \in T PROVE y <= n - x
  <2>1. n - y \in D OBVIOUS
  <2> QED BY <1>2, <2>1
<1> QED BY <1>3, <1>4

(* Induction: a set of naturals that has 0 and is closed under + 1 has all. *)
LEMMA InductionOnSets ==
  ASSUME NEW P \in SUBSET Nat, 0 \in P, \A n \in P : n + 1 \in P
  PROVE  P = Nat
<1> SUFFICES ASSUME P # Nat PROVE FALSE
  OBVIOUS
<1> DEFINE T == Nat \ P
<1>1. PICK x \in T : \A y \in T : x <= y
  BY LeastNat
<1>2. x - 1 \in Nat /\ x - 1 \notin T
  BY <1>1
<1> QED BY <1>2

(* Recursion: there is a function with a given start and given steps ... *)
LEMMA Recursion ==
  ASSUME NEW S, NEW a \in S, NEW h \in [Nat -> [S -> S]], NEW n \in Nat
  PROVE  \E f \in [0..n -> S] : f[0] = a /\ \A i \in 1..n : f[i] = h[i][f[i - 1]]
<1> DEFINE P == {m \in Nat :
                   \E f \in [0..m -> S] : f[0] = a /\ \A i \in 1..m : f[i] = h[i][f[i - 1]]}
<1>1. 0 \in P
  <2>1. [i \in 0..0 |-> a] \in [0..0 -> S] /\ [i \in 0..0 |-> a][0] = a
    OBVIOUS
  <2> DEFINE f == [i \in 0..0 |-> a]
  <2>2. \A i \in 1..0 : f[i] = h[i][f[i - 1]]
    <3>1. 1..0 = {}
      OBVIOUS
    <3> HIDE DEF f
    <3> QED BY <3>1
  <2>3. f \in [0..0 -> S] /\ f[0] = a
    BY <2>1
  <2> HIDE DEF f
  <2>4. \E g \in [0..0 -> S] : g[0] = a /\ \A i \in 1..0 : g[i] = h[i][g[i - 1]]
    BY <2>2, <2>3
  <2> QED BY <2>4
<1>2. ASSUME NEW m \in P PROVE m + 1 \in P
  <2>1. m \in Nat /\ m + 1 \in Nat
    OBVIOUS
  <2>2. PICK f \in [0..m -> S] : f[0] = a /\ \A i \in 1..m : f[i] = h[i][f[i - 1]]
    OBVIOUS
  <2> DEFINE g == [i \in 0..(m + 1) |-> IF i <= m THEN f[i] ELSE h[m + 1][f[m]]]
  <2>3. h[m + 1][f[m]] \in S
    BY <2>1
  <2>4. g \in [0..(m + 1) -> S] /\ g[0] = a
    BY <2>1, <2>2, <2>3
  <2>5. \A i \in 0..m : g[i] = f[i]
    BY <2>1
  <2>6. g[m + 1] = h[m + 1][f[m]]
    BY <2>1
  <2> HIDE DEF g
  <2>7. \A i \in 1..(m + 1) : g[i] = h[i][g[i - 1]]
    <3> TAKE i \in 1..(m + 1)
    <3>1. CASE i = m + 1
      BY <2>1, <2>5, <2>6, <3>1
    <3>2. CASE i \in 1..m
      BY <2>1, <2>2, <2>5, <3>2
    <3> QED BY <2>1, <3>1, <3>2
  <2> QED BY <2>1, <2>4, <2>7
<1>3. P = Nat
  BY <1>1, <1>2, InductionOnSets
<1> QED BY <1>3
=============================================================================
