------------------------------ MODULE NumberLemmas ------------------------------
(***************************************************************************)
(* Facts about the natural numbers that the proofs of several components     *)
(* need.  The library states induction and recursion of an operator, which  *)
(* cannot be instantiated here; they are stated of a set and of a function. *)
(***************************************************************************)
EXTENDS Integers, WellFoundedInduction, TLAPS

(* A set of numbers that is not empty has a least member.                     *)
LEMMA LeastOf ==
  ASSUME NEW S \in SUBSET Nat, S # {}
  PROVE  \E x \in S : \A y \in S : x <= y
<1> DEFINE R == {ss \in Nat \X Nat : ss[1] < ss[2]}
<1>1. IsWellFoundedOn(R, Nat)
  BY NatLessThanWellFounded DEF OpToRel
<1>2. PICK x \in S : \A y \in S : ~ (<<y, x>> \in R)
  <2> HIDE DEF R
  <2> QED
    BY <1>1, WFMin
<1>3. ASSUME NEW y \in S PROVE x <= y
  <2>1. x \in Nat /\ y \in Nat
    OBVIOUS
  <2>2. ~ (y < x)
    BY <1>2, <2>1
  <2> QED
    BY <2>1, <2>2
<1> QED
  BY <1>3

(* A set of numbers that is not empty and has a bound has a greatest member.  *)
LEMMA GreatestOf ==
  ASSUME NEW n \in Nat, NEW S \in SUBSET (0 .. n), S # {}
  PROVE  \E x \in S : \A y \in S : y <= x
<1> DEFINE D == {n - x : x \in S}
<1>1. D \in SUBSET Nat /\ D # {}
  <2>1. \A x \in S : n - x \in Nat
    OBVIOUS
  <2> QED
    BY <2>1
<1>2. PICK d \in D : \A e \in D : d <= e
  <2> HIDE DEF D
  <2> QED
    BY <1>1, LeastOf
<1>3. PICK x \in S : d = n - x
  OBVIOUS
<1>4. ASSUME NEW y \in S PROVE y <= x
  <2>1. n - y \in D
    OBVIOUS
  <2>2. n - x <= n - y
    BY <1>2, <1>3, <2>1
  <2>3. x \in Int /\ y \in Int
    OBVIOUS
  <2> QED
    BY <2>2, <2>3
<1> QED
  BY <1>4

(* Induction: a set of numbers that holds 0 and every successor of its own      *)
(* holds all.                                                                 *)
LEMMA SetInduction ==
  ASSUME NEW S \in SUBSET Nat, 0 \in S, \A n \in S : n + 1 \in S
  PROVE  S = Nat
<1> DEFINE T == Nat \ S
<1>1. SUFFICES ASSUME T # {} PROVE FALSE
  OBVIOUS
<1>2. PICK x \in T : \A y \in T : x <= y
  <2>1. T \in SUBSET Nat
    OBVIOUS
  <2> HIDE DEF T
  <2> QED
    BY <1>1, <2>1, LeastOf
<1>3. x \in Nat /\ x # 0
  OBVIOUS
<1>4. x - 1 \in Nat /\ ~ (x <= x - 1)
  BY <1>3
<1>5. x - 1 \in S
  BY <1>2, <1>4
<1>6. (x - 1) + 1 = x
  BY <1>3
<1> QED
  BY <1>5, <1>6

(* The first n + 1 values of a recursion that starts with x and takes the step  *)
(* g, computed one from the other.                                            *)
Computes(h, n, X, x, g) ==
  /\ h \in [0 .. n -> X]
  /\ h[0] = x
  /\ \A k \in 1 .. n : h[k] = g[<<k, h[k - 1]>>]

(* As many values as one likes can be computed.                               *)
LEMMA ComputedUpTo ==
  ASSUME NEW X, NEW x \in X, NEW g \in [Nat \X X -> X]
  PROVE  \A n \in Nat : \E h : Computes(h, n, X, x, g)
<1> DEFINE S == {n \in Nat : \E h : Computes(h, n, X, x, g)}
<1>1. 0 \in S
  <2>1. Computes([k \in 0 .. 0 |-> x], 0, X, x, g)
    BY DEF Computes
  <2> QED
    BY <2>1
<1>2. ASSUME NEW n \in S PROVE n + 1 \in S
  <2>1. PICK h : Computes(h, n, X, x, g)
    OBVIOUS
  <2>2. n \in Nat /\ h[n] \in X
    BY <2>1 DEF Computes
  <2> DEFINE next == g[<<n + 1, h[n]>>]
             f == [k \in 0 .. n + 1 |-> IF k = n + 1 THEN next ELSE h[k]]
  <2>3. next \in X
    BY <2>2
  <2> HIDE DEF next
  <2>4. f \in [0 .. n + 1 -> X] /\ f[0] = x
    BY <2>1, <2>2, <2>3 DEF Computes
  <2>5. ASSUME NEW k \in 1 .. n + 1 PROVE f[k] = g[<<k, f[k - 1]>>]
    <3>1. CASE k = n + 1
      <4>1. f[k] = next /\ f[k - 1] = h[n]
        BY <2>2, <3>1
      <4> HIDE DEF f
      <4> QED
        BY <3>1, <4>1 DEF next
    <3>2. CASE k # n + 1
      <4>1. k \in 1 .. n /\ f[k] = h[k] /\ f[k - 1] = h[k - 1]
        BY <2>2, <3>2
      <4> HIDE DEF f
      <4> QED
        BY <2>1, <4>1 DEF Computes
    <3> QED
      BY <3>1, <3>2
  <2> HIDE DEF f
  <2>6. Computes(f, n + 1, X, x, g)
    BY <2>4, <2>5 DEF Computes
  <2> QED
    BY <2>2, <2>6
<1>3. S = Nat
  <2> HIDE DEF S
  <2>1. S \in SUBSET Nat
    BY DEF S
  <2> QED
    BY <1>1, <1>2, <2>1, SetInduction
<1> QED
  BY <1>3

(* And only one way to compute them.                                          *)
LEMMA ComputedAgree ==
  ASSUME NEW X, NEW x, NEW g, NEW a, NEW n \in Nat, Computes(a, n, X, x, g), NEW b,
         NEW m \in Nat, Computes(b, m, X, x, g)
  PROVE  \A k \in Nat : k <= n /\ k <= m => a[k] = b[k]
<1> DEFINE S == {i \in Nat : i <= n /\ i <= m => a[i] = b[i]}
<1>1. 0 \in S
  BY DEF Computes
<1>2. ASSUME NEW i \in S PROVE i + 1 \in S
  <2> SUFFICES ASSUME i + 1 <= n, i + 1 <= m PROVE a[i + 1] = b[i + 1]
    OBVIOUS
  <2>1. i \in Nat /\ i <= n /\ i <= m
    OBVIOUS
  <2>2. a[i] = b[i]
    BY <2>1
  <2>3. i + 1 \in 1 .. n /\ i + 1 \in 1 .. m /\ (i + 1) - 1 = i
    BY <2>1
  <2> HIDE DEF S
  <2>4. a[i + 1] = g[<<i + 1, a[i]>>] /\ b[i + 1] = g[<<i + 1, b[i]>>]
    BY <2>3 DEF Computes
  <2> QED
    BY <2>2, <2>4
<1>3. S = Nat
  <2> HIDE DEF S
  <2>1. S \in SUBSET Nat
    BY DEF S
  <2> QED
    BY <1>1, <1>2, <2>1, SetInduction
<1> QED
  BY <1>3

(* The function that starts with x and takes the step g.                       *)
Recurs(h, x, g) == h[0] = x /\ \A k \in Nat \ {0} : h[k] = g[<<k, h[k - 1]>>]

(* Recursion: there is one.                                                   *)
LEMMA Recursion ==
  ASSUME NEW X, NEW x \in X, NEW g \in [Nat \X X -> X]
  PROVE  \E h \in [Nat -> X] : Recurs(h, x, g)
<1> DEFINE upTo(n) == CHOOSE h : Computes(h, n, X, x, g)
           f == [n \in Nat |-> upTo(n)[n]]
<1>1. \A n \in Nat : Computes(upTo(n), n, X, x, g)
  BY ComputedUpTo
<1> HIDE DEF upTo
<1>2. f \in [Nat -> X] /\ f[0] = x
  <2>1. \A n \in Nat : upTo(n)[n] \in X
    BY <1>1 DEF Computes
  <2>2. upTo(0)[0] = x
    BY <1>1 DEF Computes
  <2> QED
    BY <2>1, <2>2
<1>3. ASSUME NEW n \in Nat \ {0} PROVE f[n] = g[<<n, f[n - 1]>>]
  <2>1. PICK k \in Nat : k = n - 1
    OBVIOUS
  <2>2. n \in Nat /\ n \in 1 .. n /\ k <= n /\ k <= k
    BY <2>1
  <2>3. upTo(n)[n] = g[<<n, upTo(n)[k]>>]
    BY <1>1, <2>1, <2>2 DEF Computes
  <2>4. PICK a : a = upTo(n)
    OBVIOUS
  <2>5. PICK b : b = upTo(k)
    OBVIOUS
  <2>6. Computes(a, n, X, x, g) /\ Computes(b, k, X, x, g)
    BY <1>1, <2>2, <2>4, <2>5
  <2>7. \A i \in Nat : i <= n /\ i <= k => a[i] = b[i]
    <3> HIDE DEF f
    <3> QED
      BY <2>2, <2>6, ComputedAgree
  <2>7b. a[k] = b[k]
    BY <2>2, <2>7
  <2>8. f[n] = upTo(n)[n] /\ f[k] = upTo(k)[k]
    BY <2>2
  <2> HIDE DEF f
  <2>9. f[n] = g[<<n, f[k]>>]
    BY <2>3, <2>4, <2>5, <2>7b, <2>8
  <2> QED
    BY <2>1, <2>9
<1> HIDE DEF f
<1>4. Recurs(f, x, g)
  BY <1>2, <1>3 DEF Recurs
<1> QED
  BY <1>2, <1>4

=============================================================================
