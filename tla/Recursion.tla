------------------------------ MODULE Recursion ------------------------------
(* Natural numbers and recursive functions.  The recursive functions of the   *)
(* models exist, and their values are what they should be, by induction: on   *)
(* the set of the numbers for which this is so.                               *)
EXTENDS Integers, FiniteSetsExt, TLAPS, WellFoundedInduction

------------------------------------------------------------------------------
(* Numbers. *)

\* Every set of natural numbers has a least one.
LEMMA LeastNumber ==
    ASSUME NEW T \in SUBSET Nat, T # {}
    PROVE  Min(T) \in T /\ \A k \in T : Min(T) <= k
<1> DEFINE R == OpToRel(<, Nat)
<1>1. \A m, k \in Nat : <<k, m>> \in R <=> k < m
  BY DEF OpToRel
<1>2. IsWellFoundedOn(R, Nat)
  BY NatLessThanWellFounded
<1> HIDE DEF R
<1>3. PICK m \in T : \A k \in T : ~(<<k, m>> \in R)
  BY <1>2, WFMin
<1>4. ASSUME NEW k \in T PROVE m <= k
  <2>1. m \in Nat /\ k \in Nat
    OBVIOUS
  <2>2. ~(k < m)
    BY <1>1, <1>3, <2>1
  <2>3. QED
    BY <2>1, <2>2
<1>5. QED
  BY <1>4 DEF Min

\* Every set of numbers up to some number has a greatest one.
LEMMA GreatestNumber ==
    ASSUME NEW n \in Nat, NEW T \in SUBSET (0..n), T # {}
    PROVE  Max(T) \in T
<1> DEFINE U == {n - k : k \in T}
<1>1. U \in SUBSET Nat /\ U # {}
  <2>1. PICK k \in T : TRUE
    OBVIOUS
  <2>2. n - k \in U
    OBVIOUS
  <2>3. \A j \in U : j \in Nat
    OBVIOUS
  <2>4. QED
    BY <2>2, <2>3
<1>2. Min(U) \in U /\ \A k \in U : Min(U) <= k
  <2> HIDE DEF U
  <2>1. QED
    BY <1>1, LeastNumber
<1>3. PICK m \in T : Min(U) = n - m
  BY <1>2
<1>4. ASSUME NEW k \in T PROVE m >= k
  <2>1. n - k \in U /\ k \in 0..n /\ m \in 0..n
    OBVIOUS
  <2>2. n - m <= n - k
    BY <1>2, <1>3, <2>1
  <2>3. QED
    BY <2>1, <2>2
<1>5. QED
  BY <1>4 DEF Max

\* Induction, on the elements of a set.
LEMMA Induction ==
    ASSUME NEW T, 0 \in T, \A k \in Nat : k \in T => k + 1 \in T
    PROVE  \A k \in Nat : k \in T
<1> DEFINE U == {k \in Nat : k \notin T}
<1>1. SUFFICES ASSUME U # {} PROVE FALSE
  OBVIOUS
<1>2. Min(U) \in U /\ \A k \in U : Min(U) <= k
  <2>1. U \in SUBSET Nat
    OBVIOUS
  <2> HIDE DEF U
  <2>2. QED
    BY <1>1, <2>1, LeastNumber
<1> DEFINE m == Min(U)
<1> HIDE DEF m
<1>3. m \in Nat /\ m \notin T /\ \A k \in U : m <= k
  BY <1>2 DEF m
<1>4. m # 0
  BY <1>3
<1>5. m - 1 \in Nat /\ m - 1 \in T
  BY <1>3, <1>4
<1>6. m - 1 + 1 = m
  BY <1>3
<1>7. QED
  BY <1>3, <1>5, <1>6

------------------------------------------------------------------------------
(* Functions. *)

\* g gives what F makes of a start, applied any number of times.
Iterates(g, start, F, X) ==
    /\ g \in [Nat -> X] /\ g[0] = start
    /\ \A k \in Nat : k # 0 => g[k] = F[g[k - 1]]

\* A function on a set can be applied any number of times.
LEMMA Iteration ==
    ASSUME NEW X, NEW start \in X, NEW F \in [X -> X]
    PROVE  \E g : Iterates(g, start, F, X)
<1> DEFINE Is(h, n) == h \in [0..n -> X] /\ h[0] = start /\ \A k \in 1..n : h[k] = F[h[k - 1]]
           T == {n \in Nat : \E h : Is(h, n)}
<1>1. 0 \in T
  <2>1. Is([k \in 0..0 |-> start], 0)
    OBVIOUS
  <2>2. QED
    BY <2>1
<1>2. ASSUME NEW n \in Nat, n \in T PROVE n + 1 \in T
  <2>1. PICK h : Is(h, n)
    BY <1>2
  <2> DEFINE i == [k \in 0..n + 1 |-> IF k = n + 1 THEN F[h[n]] ELSE h[k]]
  <2>2. i \in [0..n + 1 -> X]
    BY <2>1
  <2>3. i[0] = start
    BY <2>1
  <2>4. ASSUME NEW k \in 1..n + 1 PROVE i[k] = F[i[k - 1]]
    BY <2>1
  <2> HIDE DEF i
  <2>5. Is(i, n + 1)
    BY <2>2, <2>3, <2>4
  <2>6. QED
    BY <2>5
<1>3. \A n \in Nat : \E h : Is(h, n)
  <2> HIDE DEF Is
  <2>1. \A n \in Nat : n \in T
    <3> HIDE DEF T
    <3>1. QED
      BY <1>1, <1>2, Induction
  <2>2. QED
    BY <2>1
<1> DEFINE h == [n \in Nat |-> CHOOSE f : Is(f, n)]
<1>4. \A n \in Nat : Is(h[n], n)
  <2> HIDE DEF Is
  <2>1. QED
    BY <1>3
<1> HIDE DEF h
<1> DEFINE Agree == {k \in Nat : \A n \in Nat : k <= n => h[n][k] = h[k][k]}
<1>5. 0 \in Agree
  BY <1>4
<1>6. ASSUME NEW k \in Nat, k \in Agree PROVE k + 1 \in Agree
  <2>1. ASSUME NEW n \in Nat, k + 1 <= n PROVE h[n][k + 1] = h[k + 1][k + 1]
    <3>1. h[n][k + 1] = F[h[n][k]]
      BY <1>4, <2>1
    <3>2. h[k + 1][k + 1] = F[h[k + 1][k]]
      BY <1>4
    <3>3. h[n][k] = h[k][k] /\ h[k + 1][k] = h[k][k]
      BY <1>6, <2>1
    <3>4. QED
      BY <3>1, <3>2, <3>3
  <2>2. QED
    BY <2>1
<1>7. \A k \in Nat : k \in Agree
  <2> HIDE DEF Agree
  <2>1. QED
    BY <1>5, <1>6, Induction
<1> DEFINE g == [k \in Nat |-> h[k][k]]
<1>8. g \in [Nat -> X] /\ g[0] = start
  BY <1>4
<1>9. ASSUME NEW k \in Nat, k # 0 PROVE g[k] = F[g[k - 1]]
  <2>1. k - 1 \in Nat /\ k - 1 <= k
    BY <1>9
  <2>2. h[k][k] = F[h[k][k - 1]]
    BY <1>4, <1>9
  <2>3. h[k][k - 1] = h[k - 1][k - 1]
    BY <1>7, <2>1
  <2>4. QED
    BY <2>1, <2>2, <2>3
<1> HIDE DEF g
<1>10. QED
  BY <1>8, <1>9 DEF Iterates

\* The recursion that goes on from x to F[x], as long as x is in M.
Continues(g, D, M, F, Out) ==
    g = [x \in D |-> IF x \in M THEN g[F[x]] ELSE Out[x]]

\* A function may be defined by such a recursion, whether or not it ends: its value
\* is that of a place where a way from x ends, if there is one.
LEMMA TailRecursion ==
    ASSUME NEW D, NEW M \in SUBSET D, NEW F \in [M -> D], NEW Out
    PROVE  \E g : Continues(g, D, M, F, Out)
<1> DEFINE Way(w, n, x) == /\ w \in [0..n -> D] /\ w[0] = x
                           /\ \A k \in 1..n : w[k - 1] \in M /\ w[k] = F[w[k - 1]]
           Ends(x) == {y \in D : y \notin M /\ \E n \in Nat : \E w : Way(w, n, x) /\ w[n] = y}
           g == [x \in D |-> Out[CHOOSE y \in Ends(x) : TRUE]]
<1>1. ASSUME NEW x \in D, x \notin M PROVE Ends(x) = {x}
  <2>1. ASSUME NEW y \in Ends(x) PROVE y = x
    <3>0. PICK n \in Nat : \E w : Way(w, n, x) /\ w[n] = y
      BY <2>1
    <3>1. PICK w : Way(w, n, x) /\ w[n] = y
      BY <3>0
    <3>2. n = 0
      <4>1. SUFFICES ASSUME n # 0 PROVE FALSE
        OBVIOUS
      <4>2. 1 \in 1..n
        BY <4>1
      <4>3. w[1 - 1] \in M
        BY <3>1, <4>2
      <4>4. QED
        BY <1>1, <3>1, <4>3
    <3>3. QED
      BY <3>1, <3>2
  <2>2. x \in Ends(x)
    <3> DEFINE w == [k \in 0..0 |-> x]
    <3>1. Way(w, 0, x) /\ w[0] = x
      OBVIOUS
    <3> HIDE DEF w, Way
    <3>2. QED
      BY <1>1, <3>1
  <2>3. QED
    BY <2>1, <2>2
<1>2. ASSUME NEW x \in M PROVE Ends(x) = Ends(F[x])
  <2>1. ASSUME NEW y \in Ends(x) PROVE y \in Ends(F[x])
    <3>0. PICK n \in Nat : \E w : Way(w, n, x) /\ w[n] = y
      BY <2>1
    <3>1. PICK w : Way(w, n, x) /\ w[n] = y
      BY <3>0
    <3>2. n # 0 /\ y \in D /\ y \notin M
      BY <2>1, <3>1
    <3> DEFINE v == [k \in 0..n - 1 |-> w[k + 1]]
    <3>3. v \in [0..n - 1 -> D]
      BY <3>1, <3>2
    <3>4. v[0] = F[x] /\ v[n - 1] = y
      BY <3>1, <3>2
    <3>5. ASSUME NEW k \in 1..n - 1 PROVE v[k - 1] \in M /\ v[k] = F[v[k - 1]]
      <4>1. k + 1 \in 1..n /\ k + 1 - 1 = k /\ k \in 0..n - 1 /\ k - 1 \in 0..n - 1
        OBVIOUS
      <4>2. v[k - 1] = w[k] /\ v[k] = w[k + 1]
        BY <4>1
      <4>3. w[k + 1 - 1] \in M /\ w[k + 1] = F[w[k + 1 - 1]]
        BY <3>1, <4>1
      <4>4. QED
        BY <4>1, <4>2, <4>3
    <3> HIDE DEF v
    <3>6. Way(v, n - 1, F[x]) /\ n - 1 \in Nat
      BY <3>2, <3>3, <3>4, <3>5
    <3> HIDE DEF Way
    <3>7. QED
      BY <3>2, <3>4, <3>6
  <2>2. ASSUME NEW y \in Ends(F[x]) PROVE y \in Ends(x)
    <3>0. PICK n \in Nat : \E w : Way(w, n, F[x]) /\ w[n] = y
      BY <2>2
    <3>1. PICK w : Way(w, n, F[x]) /\ w[n] = y
      BY <3>0
    <3>2. y \in D /\ y \notin M
      BY <2>2
    <3> DEFINE v == [k \in 0..n + 1 |-> IF k = 0 THEN x ELSE w[k - 1]]
    <3>3. v \in [0..n + 1 -> D]
      BY <3>1
    <3>4. v[0] = x /\ v[n + 1] = y
      BY <3>1
    <3>5. ASSUME NEW k \in 1..n + 1 PROVE v[k - 1] \in M /\ v[k] = F[v[k - 1]]
      <4>1. v[k] = w[k - 1]
        OBVIOUS
      <4>2. CASE k = 1
        BY <3>1, <4>1, <4>2
      <4>3. CASE k # 1
        <5>1. k - 1 \in 1..n /\ v[k - 1] = w[k - 1 - 1]
          BY <4>3
        <5>2. QED
          BY <3>1, <4>1, <5>1
      <4>4. QED
        BY <4>2, <4>3
    <3> HIDE DEF v
    <3>6. Way(v, n + 1, x) /\ n + 1 \in Nat
      BY <3>3, <3>4, <3>5
    <3> HIDE DEF Way
    <3>7. QED
      BY <3>2, <3>4, <3>6
  <2>3. QED
    <3> HIDE DEF Ends
    <3>1. QED
      BY <2>1, <2>2
<1> HIDE DEF Ends
<1>3. ASSUME NEW x \in D PROVE g[x] = IF x \in M THEN g[F[x]] ELSE Out[x]
  <2>1. CASE x \in M
    <3>1. Ends(x) = Ends(F[x]) /\ F[x] \in D
      BY <1>2, <2>1
    <3>2. QED
      BY <2>1, <3>1
  <2>2. CASE x \notin M
    BY <1>1, <2>2
  <2>3. QED
    BY <2>1, <2>2
<1> DEFINE h == [x \in D |-> IF x \in M THEN g[F[x]] ELSE Out[x]]
<1>4. g = h
  <2>1. \A x \in D : g[x] = h[x]
    BY <1>3
  <2>2. QED
    BY <2>1
<1>5. QED
  <2> HIDE DEF g
  <2>1. QED
    BY <1>4 DEF Continues

\* What grows as long as it is too small, from n to F[n].
Grown(g, least, F) == g = [n \in Nat |-> IF n < least THEN g[F[n]] ELSE n]

LEMMA Growth ==
    ASSUME NEW least \in Nat, NEW F \in [Nat -> Nat]
    PROVE  \E g : Grown(g, least, F)
<1> DEFINE M == 0..least - 1
           G == [n \in M |-> F[n]]
           Out == [n \in Nat |-> n]
<1>1. M \in SUBSET Nat /\ G \in [M -> Nat]
  OBVIOUS
<1>2. PICK g : Continues(g, Nat, M, G, Out)
  <2> HIDE DEF M, G, Out
  <2>1. QED
    BY <1>1, TailRecursion
<1>3. \A n \in Nat : (IF n \in M THEN g[G[n]] ELSE Out[n]) = (IF n < least THEN g[F[n]] ELSE n)
  OBVIOUS
<1>4. Grown(g, least, F)
  <2> HIDE DEF M, G, Out
  <2>1. QED
    BY <1>2, <1>3 DEF Continues, Grown
<1>5. QED
  BY <1>4

\* It is large enough in the end.
LEMMA GrowsEnough ==
    ASSUME NEW least \in Nat, NEW F \in [Nat -> Nat], \A n \in Nat : n # 0 => F[n] > n,
           NEW g, Grown(g, least, F)
    PROVE  \A n \in Nat \ {0} : g[n] \in Nat /\ g[n] >= least /\ g[n] >= n
<1> DEFINE Reached(i) == g[i] \in Nat /\ g[i] >= least /\ g[i] >= i
           U == {n \in Nat : \A i \in Nat \ {0} : i + n >= least => Reached(i)}
<1>0. \A i \in Nat : g[i] = IF i < least THEN g[F[i]] ELSE i
  BY DEF Grown
<1>1. 0 \in U
  BY <1>0
<1>2. ASSUME NEW n \in Nat, n \in U PROVE n + 1 \in U
  <2>1. ASSUME NEW i \in Nat \ {0}, i + (n + 1) >= least PROVE Reached(i)
    <3>1. CASE i < least
      <4>1. F[i] \in Nat \ {0} /\ F[i] + n >= least /\ F[i] > i
        BY <2>1
      <4>2. Reached(F[i]) /\ g[i] = g[F[i]]
        BY <1>0, <1>2, <3>1, <4>1
      <4>3. QED
        BY <4>1, <4>2
    <3>2. CASE ~(i < least)
      BY <1>0, <3>2
    <3>3. QED
      BY <3>1, <3>2
  <2>2. QED
    BY <2>1
<1>3. \A n \in Nat : n \in U
  <2> HIDE DEF U
  <2>1. QED
    BY <1>1, <1>2, Induction
<1>4. least \in U
  <2> HIDE DEF U
  <2>1. QED
    BY <1>3
<1>5. QED
  BY <1>4
=============================================================================
