------------------------------ MODULE BasicLemmas ------------------------------
(***************************************************************************)
(* Lemmas about numbers and sequences that several proofs need.  Induction *)
(* is stated over a set: a fact is proved of every number by proving that  *)
(* the set of the numbers it holds of is all of them.                      *)
(***************************************************************************)
EXTENDS Integers, Sequences, SequencesExt, WellFoundedInduction, TLAPS

\* Every set of natural numbers has a least one.
LEMMA LeastNat == ASSUME NEW T \in SUBSET Nat, T # {} PROVE \E n \in T : \A m \in T : n <= m
<1> DEFINE R == {p \in Nat \X Nat : p[1] < p[2]}
<1>1. IsWellFoundedOn(R, Nat)
  <2>1. \A f \in [Nat -> Nat] : \E n \in Nat : ~(f[n + 1] < f[n])
    BY NatLessThanWellFounded DEF IsWellFoundedOn, OpToRel
  <2> QED BY <2>1 DEF IsWellFoundedOn
<1>2. PICK n \in T : \A m \in T : <<m, n>> \notin R
  BY <1>1, WFMin, Zenon
<1>3. \A m \in T : ~(m < n)
  BY <1>2
<1> QED BY <1>3

\* Induction over the natural numbers: from 0, and from each number to the next.
LEMMA NatInd ==
  ASSUME NEW T \in SUBSET Nat, 0 \in T, \A n \in T : n + 1 \in T PROVE T = Nat
<1> SUFFICES ASSUME NEW k \in Nat, k \notin T PROVE FALSE
  OBVIOUS
<1>1. PICK n \in Nat \ T : \A m \in Nat \ T : n <= m
  <2>1. Nat \ T \in SUBSET Nat /\ Nat \ T # {}
    OBVIOUS
  <2> QED BY <2>1, LeastNat
<1>2. n # 0 /\ n - 1 \in Nat
  BY <1>1
<1>3. n - 1 \in T
  BY <1>1, <1>2
<1> QED BY <1>1, <1>2, <1>3

\* Induction up to a bound.
LEMMA UptoInd ==
  ASSUME NEW m \in Nat, NEW T, 0 \in T, \A n \in 0..m : n \in T /\ n < m => n + 1 \in T
  PROVE  \A n \in 0..m : n \in T
<1> DEFINE U == {n \in Nat : n <= m => n \in T}
<1>1. 0 \in U
  OBVIOUS
<1>2. ASSUME NEW n \in U PROVE n + 1 \in U
  <2>1. n \in Nat /\ (n <= m => n \in T)
    OBVIOUS
  <2>2. CASE n + 1 <= m
    <3>1. n \in 0..m /\ n < m
      BY <2>1, <2>2
    <3> QED BY <2>1, <3>1
  <2>3. CASE ~(n + 1 <= m)
    BY <2>1, <2>3
  <2> QED BY <2>2, <2>3
<1>3. U = Nat
  BY <1>1, <1>2, NatInd
<1> QED BY <1>3

\* Induction down from a bound.
LEMMA DownInd ==
  ASSUME NEW m \in Nat, NEW T, m \in T, \A n \in 0..m : n + 1 \in T /\ n < m => n \in T
  PROVE  \A n \in 0..m : n \in T
<1> DEFINE U == {k \in 0..m : m - k \in T}
<1>1. 0 \in U
  OBVIOUS
<1>2. ASSUME NEW k \in 0..m, k \in U, k < m PROVE k + 1 \in U
  <2> DEFINE n == m - (k + 1)
  <2>1. n \in 0..m /\ n + 1 = m - k /\ n < m
    BY <1>2
  <2>2. n + 1 \in T
    BY <1>2, <2>1
  <2>3. n \in T
    BY <2>1, <2>2
  <2> QED BY <1>2, <2>3
<1>3. \A k \in 0..m : k \in U
  BY <1>1, <1>2, UptoInd
<1>4. ASSUME NEW n \in 0..m PROVE n \in T
  <2>1. m - n \in 0..m /\ m - (m - n) = n
    OBVIOUS
  <2> QED BY <1>3, <2>1
<1> QED BY <1>4

\* What f is up to m, from b on.
Iterates(f, b, step, m) ==
  f[0] = b /\ \A n \in 0..m : n < m => f[n + 1] = step[<<n, f[n]>>]

\* A function is defined by its value at 0 and a step from each number to the next.
LEMMA Recursion ==
  ASSUME NEW S, NEW b \in S, NEW m \in Nat, NEW step \in [Nat \X S -> S]
  PROVE  \E f \in [0..m -> S] : Iterates(f, b, step, m)
<1> USE DEF Iterates
<1> DEFINE Upto(n, g) == Iterates(g, b, step, n)
           T == {n \in Nat : \E g \in [0..n -> S] : Upto(n, g)}
<1>1. 0 \in T
  <2>1. Upto(0, [k \in 0..0 |-> b])
    OBVIOUS
  <2> QED BY <2>1
<1>2. ASSUME NEW n \in T PROVE n + 1 \in T
  <2>1. PICK g \in [0..n -> S] : Upto(n, g)
    OBVIOUS
  <2> DEFINE h == [k \in 0..(n + 1) |-> IF k <= n THEN g[k] ELSE step[<<n, g[n]>>]]
  <2>2. n \in Nat /\ n + 1 \in Nat
    OBVIOUS
  <2>3. h \in [0..(n + 1) -> S]
    BY <2>1, <2>2
  <2>4. h[0] = b
    BY <2>1, <2>2
  <2>5. ASSUME NEW k \in 0..(n + 1), k < n + 1 PROVE h[k + 1] = step[<<k, h[k]>>]
    <3>1. CASE k < n
      BY <2>1, <2>2, <3>1
    <3>2. CASE k = n
      BY <2>1, <2>2, <3>2
    <3> QED BY <2>2, <2>5, <3>1, <3>2
  <2>6. Upto(n + 1, h)
    BY <2>3, <2>4, <2>5
  <2> QED BY <2>2, <2>3, <2>6
<1>3. T = Nat
  BY <1>1, <1>2, NatInd
<1> QED BY <1>3

--------------------------------------------------------------------------------
(* Sequences.                                                              *)

\* The elements of a sequence, and what they belong to.
LEMMA ToSetIsRange == ASSUME NEW S, NEW s \in Seq(S)
                      PROVE  ToSet(s) = {s[n] : n \in 1..Len(s)} /\ ToSet(s) \subseteq S
BY DEF ToSet

\* A function on the first numbers is a sequence.
LEMMA FunctionIsSeq ==
  ASSUME NEW S, NEW l \in Nat, NEW f \in [1..l -> S]
  PROVE  f \in Seq(S) /\ Len(f) = l /\ DOMAIN f = 1..l
OBVIOUS

================================================================================
