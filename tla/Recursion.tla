------------------------------ MODULE Recursion ------------------------------
(***************************************************************************)
(* Induction and definition by recursion over the natural numbers, stated   *)
(* with sets and functions, so that they can be cited for what recursive    *)
(* functions compute.                                                       *)
(***************************************************************************)
EXTENDS Integers, WellFoundedInduction, TLAPS

\* A set of numbers has a least one.
LEMMA LeastNat ==
    ASSUME NEW T, T \subseteq Nat, T # {}
    PROVE  \E n \in T : \A m \in T : n <= m
<1>. DEFINE R == OpToRel(<, Nat)
<1>1. IsWellFoundedOn(R, Nat)
  BY NatLessThanWellFounded
<1>2. R = {ss \in Nat \X Nat : ss[1] < ss[2]}
  BY DEF OpToRel
<1>. HIDE DEF R
<1>3. PICK x \in T : \A y \in T : ~ (<<y, x>> \in R)
  BY <1>1, WFMin
<1>4. \A y \in T : <<y, x>> \in Nat \X Nat
  OBVIOUS
<1>5. \A y \in T : y < x => <<y, x>> \in R
  BY <1>2, <1>4
<1>. HIDE DEF R
<1>6. \A y \in T : ~ (y < x)
  BY <1>3, <1>5
<1>7. \A y \in T : x \in Nat /\ y \in Nat
  OBVIOUS
<1>. QED  BY <1>6, <1>7

\* Induction: a set that has 0, and with n also n + 1, has them all.
LEMMA NatSet ==
    ASSUME NEW S, 0 \in S, \A n \in Nat : n \in S => n + 1 \in S
    PROVE  \A n \in Nat : n \in S
<1>. SUFFICES ASSUME Nat \ S # {} PROVE FALSE
  OBVIOUS
<1>1. PICK n \in Nat \ S : \A m \in Nat \ S : n <= m
  BY LeastNat
<1>2. n # 0 /\ n - 1 \in Nat
  OBVIOUS
<1>3. n - 1 \in S
  BY <1>1, <1>2
<1>. QED  BY <1>2, <1>3

\* The same up to m.
LEMMA UpTo ==
    ASSUME NEW S, NEW m \in Nat, 0 \in S, \A n \in 1..m : n - 1 \in S => n \in S
    PROVE  \A n \in 0..m : n \in S
<1>. DEFINE N == {n \in Nat : n <= m => n \in S}
<1>1. 0 \in N
  OBVIOUS
<1>2. \A n \in Nat : n \in N => n + 1 \in N
  OBVIOUS
<1>. HIDE DEF N
<1>3. \A n \in Nat : n \in N
  BY <1>1, <1>2, NatSet
<1>. QED  BY <1>3 DEF N

\* Recursion: a first value and a step to the next define a function.
LEMMA Recursion ==
    ASSUME NEW V, NEW b \in V, NEW m \in Nat, NEW step \in [1..m -> [V -> V]]
    PROVE  \E f \in [0..m -> V] : f[0] = b /\ \A n \in 1..m : f[n] = step[n][f[n - 1]]
<1>. DEFINE Good(f, k) == f[0] = b /\ \A n \in 1..k : f[n] = step[n][f[n - 1]]
            S == {k \in 0..m : \E f \in [0..m -> V] : Good(f, k)}
<1>1. 0 \in S
  <2>. DEFINE g == [n \in 0..m |-> b]
  <2>1. g \in [0..m -> V] /\ g[0] = b /\ 0 \in 0..m
    OBVIOUS
  <2>2. \A n \in 1..0 : g[n] = step[n][g[n - 1]]
    OBVIOUS
  <2>. HIDE DEF g
  <2>3. \E f \in [0..m -> V] : Good(f, 0)
    BY <2>1, <2>2
  <2>. QED  BY <2>1, <2>3
<1>2. \A k \in 1..m : k - 1 \in S => k \in S
  <2>. SUFFICES ASSUME NEW k \in 1..m, k - 1 \in S PROVE k \in S
    OBVIOUS
  <2>1. PICK f \in [0..m -> V] : Good(f, k - 1)
    OBVIOUS
  <2>. DEFINE g == [f EXCEPT ![k] = step[k][f[k - 1]]]
  <2>2. step[k][f[k - 1]] \in V
    OBVIOUS
  <2>3. g \in [0..m -> V] /\ g[k] = step[k][f[k - 1]] /\ \A n \in 0..k - 1 : g[n] = f[n]
    BY <2>2
  <2>. HIDE DEF g
  <2>4. g[k - 1] = f[k - 1] /\ \A n \in 1..k - 1 : g[n - 1] = f[n - 1]
    BY <2>3
  <2>5. \A n \in 1..k : g[n] = step[n][g[n - 1]]
    <3>. SUFFICES ASSUME NEW n \in 1..k PROVE g[n] = step[n][g[n - 1]]
      OBVIOUS
    <3>1. CASE n = k
      BY <2>3, <2>4, <3>1
    <3>2. CASE n # k
      BY <2>1, <2>3, <2>4, <3>2
    <3>. QED  BY <3>1, <3>2
  <2>6. g[0] = b
    BY <2>1, <2>3
  <2>7. \E h \in [0..m -> V] : Good(h, k)
    BY <2>3, <2>5, <2>6
  <2>. QED  BY <2>7
<1>. HIDE DEF S
<1>3. \A n \in 0..m : n \in S
  BY <1>1, <1>2, UpTo
<1>4. m \in S
  BY <1>3
<1>. QED  BY <1>4 DEF S
=============================================================================
