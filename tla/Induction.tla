------------------------------ MODULE Induction ------------------------------
(***************************************************************************)
(* Induction and recursion over the naturals, stated about sets and        *)
(* functions, so that first-order provers can use them: a property is the  *)
(* set of the numbers that have it, a recursive step is a function.        *)
(***************************************************************************)
EXTENDS Integers, WellFoundedInduction, TLAPS

\* Every non-empty set of naturals has a least element.
LEMMA LeastNatural ==
  ASSUME NEW T, T \subseteq Nat, T # {}
  PROVE  \E x \in T : \A y \in T : x <= y
<1>1. PICK x \in T : \A y \in T : <<y, x>> \notin OpToRel(<, Nat)
  BY NatLessThanWellFounded, WFMin
<1>2. ASSUME NEW y \in T, ~(x <= y)
      PROVE  FALSE
  <2>1. <<y, x>> \in OpToRel(<, Nat)
    BY <1>2 DEF OpToRel
  <2>2. QED
    BY <1>1, <2>1
<1>3. QED
  BY <1>1, <1>2

\* Induction: a set that holds 0 and the successor of each natural in it holds all.
LEMMA SetInduction ==
  ASSUME NEW S, 0 \in S, \A n \in Nat : n \in S => n + 1 \in S
  PROVE  \A n \in Nat : n \in S
<1> SUFFICES ASSUME Nat \ S # {}
             PROVE  FALSE
  OBVIOUS
<1>1. PICK n \in Nat \ S : \A m \in Nat \ S : n <= m
  BY LeastNatural
<1>2. n # 0 /\ n - 1 \in Nat /\ n - 1 \in S
  BY <1>1
<1>3. (n - 1) + 1 \in S
  BY <1>2
<1>4. QED
  BY <1>1, <1>3

\* The same, up to N.
LEMMA RangeInduction ==
  ASSUME NEW S, NEW N \in Nat, 0 \in S, \A n \in 1..N : n - 1 \in S => n \in S
  PROVE  \A n \in 0..N : n \in S
<1> DEFINE T == {n \in Nat : n <= N => n \in S}
<1>1. 0 \in T
  OBVIOUS
<1>2. ASSUME NEW n \in Nat, n \in T
      PROVE  n + 1 \in T
  <2>1. CASE n + 1 <= N
    <3>1. n + 1 \in 1..N /\ (n + 1) - 1 = n /\ n \in S
      BY <1>2, <2>1
    <3>2. n + 1 \in S
      BY <3>1
    <3>3. QED
      BY <3>2
  <2>2. QED
    BY <2>1
<1> HIDE DEF T
<1>3. \A n \in Nat : n \in T
  BY <1>1, <1>2, SetInduction
<1>4. QED
  BY <1>3 DEF T

\* A function whose values stay in a set if the first is in it.
LEMMA StaysIn ==
  ASSUME NEW D, NEW N \in Nat, NEW f,
         f[0] \in D, \A n \in 1..N : f[n-1] \in D => f[n] \in D
  PROVE  \A n \in 0..N : f[n] \in D
<1> DEFINE S == {n \in Nat : f[n] \in D}
<1>1. 0 \in S
  OBVIOUS
<1>2. \A n \in 1..N : n - 1 \in S => n \in S
  OBVIOUS
<1> HIDE DEF S
<1>3. \A n \in 0..N : n \in S
  BY <1>1, <1>2, RangeInduction
<1>4. QED
  BY <1>3 DEF S

\* f is what a first value and a step lead to, up to n.
Computes(f, D, base, step, n) ==
  /\ f \in [0..n -> D]
  /\ f[0] = base
  /\ \A i \in 1..n : f[i] = step[<<f[i-1], i>>]

\* One more value.
LEMMA ComputesOneMore ==
  ASSUME NEW D, NEW n \in Nat, NEW base, NEW step, NEW f,
         Computes(f, D, base, step, n), step[<<f[n], n + 1>>] \in D
  PROVE  \E g : Computes(g, D, base, step, n + 1)
<1> DEFINE next == step[<<f[n], n + 1>>]
<1>1. next \in D
  OBVIOUS
<1>2. next = step[<<f[n], n + 1>>]
  OBVIOUS
<1> HIDE DEF next
<1> DEFINE g == [i \in 0..(n+1) |-> IF i = n + 1 THEN next ELSE f[i]]
<1>3. f \in [0..n -> D] /\ f[0] = base /\ \A i \in 1..n : f[i] = step[<<f[i-1], i>>]
  BY DEF Computes
<1>4. \A i \in 0..(n+1) : g[i] \in D
  BY <1>1, <1>3
<1>5. g \in [0..(n+1) -> D]
  BY <1>4
<1>6. g[0] = base
  BY <1>3
<1>7. ASSUME NEW i \in 1..(n+1)
      PROVE  g[i] = step[<<g[i-1], i>>]
  <2>1. CASE i = n + 1
    <3>1. g[i] = next /\ g[i-1] = f[n]
      BY <2>1
    <3>2. QED
      BY <3>1, <1>2, <2>1
  <2>2. CASE i # n + 1
    <3>1. i \in 1..n /\ g[i] = f[i] /\ g[i-1] = f[i-1]
      BY <2>2
    <3>2. f[i] = step[<<f[i-1], i>>]
      BY <3>1, <1>3
    <3>3. QED
      BY <3>1, <3>2
  <2>3. QED
    BY <2>1, <2>2
<1> HIDE DEF g
<1>8. Computes(g, D, base, step, n + 1)
  BY <1>5, <1>6, <1>7 DEF Computes
<1>9. QED
  BY <1>8

\* Recursion: a first value and a step determine a function on 0..N.
LEMMA RecursionExists ==
  ASSUME NEW D, NEW N \in Nat, NEW base \in D, NEW step,
         \A x \in D, n \in 1..N : step[<<x, n>>] \in D
  PROVE  \E f : Computes(f, D, base, step, N)
<1> DEFINE S == {n \in Nat : \E f : Computes(f, D, base, step, n)}
<1>1. 0 \in S
  <2> DEFINE f == [i \in 0..0 |-> base]
  <2>1. f \in [0..0 -> D] /\ f[0] = base
    OBVIOUS
  <2> HIDE DEF f
  <2>2. Computes(f, D, base, step, 0)
    BY <2>1 DEF Computes
  <2>3. QED
    BY <2>2
<1>2. ASSUME NEW n \in 1..N, n - 1 \in S
      PROVE  n \in S
  <2>1. PICK m \in Nat : m = n - 1
    OBVIOUS
  <2>2. PICK f : Computes(f, D, base, step, m)
    BY <1>2, <2>1
  <2>3. f[m] \in D
    BY <2>2 DEF Computes
  <2>4. step[<<f[m], m + 1>>] \in D
    BY <2>1, <2>3
  <2>5. \E g : Computes(g, D, base, step, m + 1)
    BY <2>2, <2>4, ComputesOneMore
  <2>6. QED
    BY <2>1, <2>5
<1> HIDE DEF S
<1>3. N \in S
  BY <1>1, <1>2, RangeInduction
<1>4. QED
  BY <1>3 DEF S
=============================================================================
