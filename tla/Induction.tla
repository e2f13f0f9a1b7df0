------------------------------- MODULE Induction -------------------------------
(***************************************************************************)
(* Facts about natural numbers and recursive functions on which the proofs *)
(* of several parts rest.  An induction is told by its least               *)
(* counterexample, so that it needs no operator as a parameter.            *)
(***************************************************************************)
EXTENDS Sums, FiniteSetTheorems, TLAPS

\* Every set of naturals has a least member.
LEMMA LeastNatural ==
  ASSUME NEW T \in SUBSET Nat, T # {}
  PROVE  \E x \in T : \A y \in T : x <= y
<1> DEFINE R == StrictSubsetOrdering(Nat)
           S == {0 .. m : m \in T}
<1>1. IsWellFoundedOn(R, FiniteSubsetsOf(Nat))
  BY FS_StrictSubsetOrderingWellFounded
<1>2. \A A, B \in SUBSET Nat : A \subseteq B /\ A # B => <<A, B>> \in R
  BY DEF StrictSubsetOrdering
<1>3. S \subseteq FiniteSubsetsOf(Nat) /\ S # {}
  <2>1. ASSUME NEW m \in T PROVE IsFiniteSet(0 .. m)
    <3>1. 0 \in Int /\ m \in Int
      OBVIOUS
    <3> QED BY <3>1, FS_Interval
  <2>2. \A m \in T : 0 .. m \in FiniteSubsetsOf(Nat)
    BY <2>1 DEF FiniteSubsetsOf
  <2> QED BY <2>2
<1>4. \E A \in S : \A B \in S : ~ (<<B, A>> \in R)
  <2> HIDE DEF S, R
  <2> QED BY <1>1, <1>3, WFMin
<1>5. PICK x \in T : \A y \in T : <<0 .. y, 0 .. x>> \notin R
  BY <1>4
<1>6. ASSUME NEW y \in T, y < x PROVE FALSE
  <2>1. 0 .. y \subseteq 0 .. x /\ x \in 0 .. x /\ x \notin 0 .. y
    BY <1>6
  <2>2. 0 .. y \in SUBSET Nat /\ 0 .. x \in SUBSET Nat
    OBVIOUS
  <2> HIDE DEF R
  <2>3. <<0 .. y, 0 .. x>> \in R
    BY <1>2, <2>1, <2>2
  <2> QED BY <1>5, <2>3
<1> QED BY <1>6

-----------------------------------------------------------------------------
(* Sums.                                                                   *)

\* The weights in K among the first n of w.
Summing(w, K, f, N) ==
  f = [n \in 0 .. N |-> IF n = 0 THEN 0 ELSE f[n - 1] + (IF n \in K THEN w[n] ELSE 0)]

LEMMA SumsExist ==
  ASSUME NEW w, NEW K, NEW N \in Nat
  PROVE  \E f : Summing(w, K, f, N)
<1> DEFINE G(n, f) == IF n = 0 THEN 0 ELSE f[n - 1] + (IF n \in K THEN w[n] ELSE 0)
           T == {m \in Nat : ~ \E f : Summing(w, K, f, m)}
<1>1. SUFFICES ASSUME T # {} PROVE FALSE
  OBVIOUS
<1>2. PICK m \in T : \A k \in T : m <= k
  BY <1>1, LeastNatural
<1>3. CASE m = 0
  <2> DEFINE f == [n \in 0 .. 0 |-> 0]
  <2>1. f = [n \in 0 .. 0 |-> G(n, f)]
    OBVIOUS
  <2>2. Summing(w, K, f, 0)
    BY <2>1 DEF Summing
  <2> QED BY <1>2, <1>3, <2>2
<1>4. CASE m # 0
  <2>1. m \in Nat /\ m - 1 \in Nat /\ m - 1 \notin T
    BY <1>2, <1>4
  <2>2. PICK g : g = [n \in 0 .. m - 1 |-> G(n, g)]
    BY <2>1 DEF Summing
  <2> DEFINE f == [n \in 0 .. m |-> IF n < m THEN g[n] ELSE G(m, g)]
  <2>3. ASSUME NEW n \in 0 .. m PROVE f[n] = G(n, f)
    <3>1. n = 0 \/ (n - 1 \in 0 .. m - 1 /\ n - 1 \in 0 .. m /\ n - 1 < m)
      BY <2>1
    <3>2. n # 0 => f[n - 1] = g[n - 1]
      BY <3>1
    <3>3. G(n, f) = G(n, g)
      BY <3>2
    <3>4. CASE n < m
      <4>1. n \in 0 .. m - 1
        BY <2>1, <3>4
      <4>2. g[n] = G(n, g)
        <5> HIDE DEF G
        <5> QED BY <2>2, <4>1
      <4>3. f[n] = g[n]
        BY <3>4
      <4> QED BY <3>3, <4>2, <4>3
    <3>5. CASE n = m
      BY <3>3, <3>5
    <3> QED BY <2>1, <3>4, <3>5
  <2>4. f = [n \in 0 .. m |-> f[n]]
    OBVIOUS
  <2>5. f = [n \in 0 .. m |-> G(n, f)]
    <3> HIDE DEF f, G
    <3> QED BY <2>3, <2>4
  <2>6. Summing(w, K, f, m)
    BY <2>5 DEF Summing
  <2> QED BY <1>2, <2>6
<1> QED BY <1>3, <1>4

\* f says how far the sum over K is after each of w.
Summed(w, K, f) ==
  /\ f[0] = 0
  /\ \A n \in 1 .. Len(w) : f[n] = f[n - 1] + (IF n \in K THEN w[n] ELSE 0)
  /\ SumOf(w, K) = f[Len(w)]

LEMMA SumIsSummed ==
  ASSUME NEW w, Len(w) \in Nat, NEW K
  PROVE  \E f : Summed(w, K, f)
<1> DEFINE f == CHOOSE f : Summing(w, K, f, Len(w))
<1>1. SumOf(w, K) = f[Len(w)]
  BY DEF SumOf, Summing
<1>2. Summing(w, K, f, Len(w))
  BY SumsExist
<1> HIDE DEF f
<1> DEFINE G(n) == IF n = 0 THEN 0 ELSE f[n - 1] + (IF n \in K THEN w[n] ELSE 0)
<1>3. \A n \in 0 .. Len(w) : f[n] = G(n)
  <2>1. f = [n \in 0 .. Len(w) |-> G(n)]
    BY <1>2 DEF Summing
  <2> HIDE DEF G
  <2> QED BY <2>1
<1>4. f[0] = 0
  BY <1>3
<1>5. \A n \in 1 .. Len(w) : f[n] = f[n - 1] + (IF n \in K THEN w[n] ELSE 0)
  <2> TAKE n \in 1 .. Len(w)
  <2>1. n \in 0 .. Len(w) /\ n # 0
    OBVIOUS
  <2> QED BY <1>3, <2>1
<1> QED BY <1>1, <1>4, <1>5 DEF Summed

\* Two sequences that begin alike sum up alike so far.
LEMMA SumsBeginAlike ==
  ASSUME NEW w, Len(w) \in Nat, NEW v, Len(v) \in Nat, Len(w) <= Len(v), NEW J, NEW K,
         \A n \in 1 .. Len(w) : (n \in J <=> n \in K) /\ (n \in J => w[n] = v[n] /\ w[n] \in Int),
         NEW f, Summed(w, J, f), NEW g, Summed(v, K, g)
  PROVE  \A n \in 0 .. Len(w) : f[n] \in Int /\ g[n] = f[n]
<1> DEFINE N == Len(w)
           T == {n \in 0 .. N : ~ (f[n] \in Int /\ g[n] = f[n])}
<1>1. SUFFICES ASSUME T # {} PROVE FALSE
  OBVIOUS
<1>2. PICK n \in T : \A k \in T : n <= k
  <2>1. T \in SUBSET Nat
    OBVIOUS
  <2> HIDE DEF T
  <2> QED BY <1>1, <2>1, LeastNatural
<1>3. n # 0
  BY <1>2 DEF Summed
<1> DEFINE l == n - 1
<1>4. n \in 1 .. N /\ n \in 1 .. Len(v) /\ l \in 0 .. N /\ l < n /\ l \in Nat
  BY <1>2, <1>3
<1>5. l \notin T
  <2> HIDE DEF l, T
  <2> QED BY <1>2, <1>4
<1>6. f[l] \in Int /\ g[l] = f[l]
  BY <1>4, <1>5
<1>7. /\ f[n] = f[l] + (IF n \in J THEN w[n] ELSE 0)
      /\ g[n] = g[l] + (IF n \in K THEN v[n] ELSE 0)
  BY <1>4 DEF Summed
<1> HIDE DEF l
<1>8. f[n] \in Int /\ g[n] = f[n]
  BY <1>4, <1>6, <1>7
<1> QED BY <1>2, <1>8

\* What one more number makes of a sum.
LEMMA SumOfNext ==
  ASSUME NEW w, Len(w) \in Nat, NEW v, Len(v) = Len(w) + 1, NEW J, NEW K,
         \A n \in 1 .. Len(w) : (n \in J <=> n \in K) /\ (n \in J => w[n] = v[n] /\ w[n] \in Int)
  PROVE  /\ SumOf(w, J) \in Int
         /\ SumOf(v, K) = SumOf(w, J) + (IF Len(v) \in K THEN v[Len(v)] ELSE 0)
<1>1. PICK f : Summed(w, J, f)
  BY SumIsSummed
<1>2. Len(v) \in Nat /\ Len(w) <= Len(v) /\ Len(v) \in 1 .. Len(v) /\ Len(v) - 1 = Len(w)
  OBVIOUS
<1>3. PICK g : Summed(v, K, g)
  BY <1>2, SumIsSummed
<1>4. \A n \in 0 .. Len(w) : f[n] \in Int /\ g[n] = f[n]
  BY <1>1, <1>2, <1>3, SumsBeginAlike
<1>5. Len(w) \in 0 .. Len(w)
  OBVIOUS
<1>6. g[Len(v)] = g[Len(v) - 1] + (IF Len(v) \in K THEN v[Len(v)] ELSE 0)
  BY <1>2, <1>3 DEF Summed
<1>7. SumOf(w, J) = f[Len(w)] /\ SumOf(v, K) = g[Len(v)]
  BY <1>1, <1>3 DEF Summed
<1> QED BY <1>2, <1>4, <1>5, <1>6, <1>7

\* Of two sums over numbers that are not negative, the one that leaves one of them out is less.
LEMMA SumOfFewer ==
  ASSUME NEW w, Len(w) \in Nat, \A n \in 1 .. Len(w) : w[n] \in Nat,
         NEW J, NEW K, K \subseteq J, NEW i \in 1 .. Len(w), i \in J, i \notin K, w[i] > 0
  PROVE  SumOf(w, K) \in Nat /\ SumOf(w, J) \in Nat /\ SumOf(w, K) < SumOf(w, J)
<1>1. PICK f : Summed(w, K, f)
  BY SumIsSummed
<1>2. PICK g : Summed(w, J, g)
  BY SumIsSummed
<1> DEFINE N == Len(w)
           Less(n) == /\ f[n] \in Nat /\ g[n] \in Nat /\ f[n] <= g[n]
                      /\ i <= n => f[n] < g[n]
           T == {n \in 0 .. N : ~ Less(n)}
<1>3. T = {}
  <2> SUFFICES ASSUME T # {} PROVE FALSE
    OBVIOUS
  <2>1. PICK n \in T : \A k \in T : n <= k
    <3>1. T \in SUBSET Nat
      OBVIOUS
    <3> HIDE DEF T
    <3> QED BY <3>1, LeastNatural
  <2>2. n # 0
    <3>1. Less(0)
      BY <1>1, <1>2 DEF Summed
    <3> QED BY <2>1, <3>1
  <2> DEFINE l == n - 1
  <2>3. n \in 1 .. N /\ l \in 0 .. N /\ l < n /\ l \in Nat /\ n \in Nat
    BY <2>1, <2>2
  <2>4. l \notin T
    <3> HIDE DEF l, T
    <3> QED BY <2>1, <2>3
  <2>5. f[l] \in Nat /\ g[l] \in Nat /\ f[l] <= g[l] /\ (i <= l => f[l] < g[l])
    BY <2>3, <2>4
  <2>6. i <= n <=> i <= l \/ i = n
    BY <2>3
  <2> DEFINE a == IF n \in K THEN w[n] ELSE 0
             b == IF n \in J THEN w[n] ELSE 0
  <2>7. f[n] = f[l] + a /\ g[n] = g[l] + b
    BY <1>1, <1>2, <2>3 DEF Summed
  <2>8. a \in Nat /\ b \in Nat /\ a <= b /\ (i = n => a < b)
    <3>1. w[n] \in Nat
      BY <2>3
    <3> QED BY <3>1
  <2>9. Less(n)
    <3> HIDE DEF a, b, l, N, T, Less
    <3>1. f[n] \in Nat /\ g[n] \in Nat /\ f[n] <= g[n]
      BY <2>5, <2>7, <2>8
    <3>2. i <= n => f[n] < g[n]
      BY <2>5, <2>6, <2>7, <2>8
    <3> QED BY <3>1, <3>2 DEF Less
  <2> QED BY <2>1, <2>9
<1>4. Less(N)
  <2>1. N \in 0 .. N
    OBVIOUS
  <2> QED BY <1>3, <2>1
<1>5. i <= N /\ SumOf(w, K) = f[N] /\ SumOf(w, J) = g[N]
  BY <1>1, <1>2 DEF Summed
<1> QED BY <1>4, <1>5

LEMMA SumOfNothing ==
  ASSUME NEW w, Len(w) = 0, NEW K
  PROVE  SumOf(w, K) = 0
<1>1. Len(w) \in Nat
  OBVIOUS
<1>2. PICK f : Summed(w, K, f)
  BY <1>1, SumIsSummed
<1> QED BY <1>2 DEF Summed

-----------------------------------------------------------------------------
(* Some places of a sequence.                                              *)

\* Where, among the first n places of s, there is a member of match.
Matches(match, s, n) == {i \in 1 .. n : s[i] \in match}

LEMMA MatchesNext ==
  ASSUME NEW match, NEW s, NEW n \in Nat
  PROVE  /\ Matches(match, s, 0) = {}
         /\ Matches(match, s, n) \subseteq Matches(match, s, n + 1)
         /\ IsFiniteSet(Matches(match, s, n))
         /\ Cardinality(Matches(match, s, n)) \in Nat
         /\ s[n + 1] \in match => /\ n + 1 \in Matches(match, s, n + 1)
                                  /\ Cardinality(Matches(match, s, n + 1)) =
                                       Cardinality(Matches(match, s, n)) + 1
         /\ s[n + 1] \notin match => Matches(match, s, n + 1) = Matches(match, s, n)
<1> DEFINE M == Matches(match, s, n)
<1>1. Matches(match, s, 0) = {}
  BY DEF Matches
<1>2. IsFiniteSet(M)
  <2>1. IsFiniteSet(1 .. n)
    <3>1. 1 \in Int /\ n \in Int
      OBVIOUS
    <3> QED BY <3>1, FS_Interval
  <2>2. M \in SUBSET (1 .. n)
    BY DEF Matches
  <2> QED BY <2>1, <2>2, FS_Subset
<1>3. M \subseteq Matches(match, s, n + 1) /\ n + 1 \notin M
  BY DEF Matches
<1>4. ASSUME s[n + 1] \in match PROVE Matches(match, s, n + 1) = M \cup {n + 1}
  BY <1>4 DEF Matches
<1>5. ASSUME s[n + 1] \notin match PROVE Matches(match, s, n + 1) = M
  BY <1>5 DEF Matches
<1> HIDE DEF M
<1>6. Cardinality(M) \in Nat /\ Cardinality(M \cup {n + 1}) = Cardinality(M) + 1
  BY <1>2, <1>3, FS_CardinalityType, FS_AddElement
<1> QED BY <1>1, <1>2, <1>3, <1>4, <1>5, <1>6 DEF M

\* The value of f at n is made of n and its value before.
Recursion(N, S, base, step, f) ==
  /\ f \in [0 .. N -> S] /\ f[0] = base
  /\ \A n \in 1 .. N : f[n] = step[<<n, f[n - 1]>>]

\* There is such a function.
LEMMA RecursionExists ==
  ASSUME NEW N \in Nat, NEW S, NEW base \in S, NEW step \in [(1 .. N) \X S -> S]
  PROVE  \E f : Recursion(N, S, base, step, f)
<1> DEFINE Fits(f, m) == /\ f \in [0 .. m -> S] /\ f[0] = base
                         /\ \A n \in 1 .. m : f[n] = step[<<n, f[n - 1]>>]
           T == {m \in 0 .. N : ~ \E f : Fits(f, m)}
<1>1. SUFFICES ASSUME T # {} PROVE FALSE
  <2>1. N \in 0 .. N
    OBVIOUS
  <2> QED BY <2>1 DEF Recursion
<1>2. PICK m \in T : \A k \in T : m <= k
  <2>1. T \in SUBSET Nat
    OBVIOUS
  <2> HIDE DEF T
  <2> QED BY <1>1, <2>1, LeastNatural
<1>3. m # 0
  <2>1. Fits([n \in 0 .. 0 |-> base], 0)
    OBVIOUS
  <2> QED BY <1>2, <2>1
<1> DEFINE l == m - 1
<1>4. m \in 1 .. N /\ l \in 0 .. N /\ l < m /\ l \in Nat /\ m \in Nat
  BY <1>2, <1>3
<1>5. l \notin T
  <2> HIDE DEF l, T
  <2> QED BY <1>2, <1>4
<1>6. PICK f : Fits(f, l)
  BY <1>4, <1>5
<1> DEFINE g == [n \in 0 .. m |-> IF n < m THEN f[n] ELSE step[<<m, f[l]>>]]
<1>7. l \in 0 .. l /\ f[l] \in S
  BY <1>4, <1>6
<1>8. step[<<m, f[l]>>] \in S
  BY <1>4, <1>7
<1>9. g \in [0 .. m -> S]
  <2>1. \A n \in 0 .. m : n < m => n \in 0 .. l
    BY <1>4
  <2> QED BY <1>6, <1>8, <2>1
<1>10. g[0] = base
  BY <1>4, <1>6
<1>11. ASSUME NEW n \in 1 .. m PROVE g[n] = step[<<n, g[n - 1]>>]
  <2>1. n - 1 \in 0 .. m /\ n - 1 < m /\ n \in 0 .. m
    BY <1>4
  <2>2. g[n - 1] = f[n - 1]
    BY <2>1
  <2>3. CASE n < m
    <3>1. n \in 1 .. l /\ g[n] = f[n]
      BY <1>4, <2>1, <2>3
    <3> QED BY <1>6, <2>2, <3>1
  <2>4. CASE n = m
    <3>1. g[n] = step[<<n, f[n - 1]>>]
      BY <2>1, <2>4
    <3> QED BY <2>2, <3>1
  <2> QED BY <1>4, <2>3, <2>4
<1>12. Fits(g, m)
  BY <1>9, <1>10, <1>11
<1> QED BY <1>2, <1>12

\* A sum of shares of m is full exactly when each of them is.
LEMMA SumOfShares ==
  ASSUME NEW w, Len(w) \in Nat, NEW m \in Nat, \A n \in 1 .. Len(w) : w[n] \in 0 .. m
  PROVE  /\ SumOf(w, 1 .. Len(w)) \in 0 .. m * Len(w)
         /\ SumOf(w, 1 .. Len(w)) = m * Len(w) <=> \A n \in 1 .. Len(w) : w[n] = m
<1> DEFINE N == Len(w)
<1>1. PICK f : Summed(w, 1 .. N, f)
  BY SumIsSummed
<1> DEFINE Full(n) == \A k \in 1 .. n : w[k] = m
           Good(n) == f[n] \in 0 .. m * n /\ (f[n] = m * n <=> Full(n))
           T == {n \in 0 .. N : ~ Good(n)}
<1>2. T = {}
  <2> SUFFICES ASSUME T # {} PROVE FALSE
    OBVIOUS
  <2>1. PICK n \in T : \A k \in T : n <= k
    <3>1. T \in SUBSET Nat
      OBVIOUS
    <3> HIDE DEF T
    <3> QED BY <3>1, LeastNatural
  <2>2. n # 0
    <3>1. m * 0 = 0 /\ f[0] = 0
      BY <1>1 DEF Summed
    <3> QED BY <2>1, <3>1
  <2> DEFINE l == n - 1
  <2>3. n \in 1 .. N /\ l \in 0 .. N /\ l < n /\ l \in Nat /\ n \in Nat /\ n = l + 1
    BY <2>1, <2>2
  <2>4. l \notin T
    <3> HIDE DEF l, T
    <3> QED BY <2>1, <2>3
  <2>5. f[l] \in 0 .. m * l /\ (f[l] = m * l <=> Full(l))
    BY <2>3, <2>4
  <2>6. f[n] = f[l] + w[n]
    BY <1>1, <2>3 DEF Summed
  <2>7. w[n] \in 0 .. m
    BY <2>3
  <2>8. m * n = m * l + m /\ m * l \in Nat /\ m * n \in Nat
    BY <2>3
  <2>9. Full(n) <=> Full(l) /\ w[n] = m
    <3>1. \A k \in 1 .. n : k \in 1 .. l \/ k = n
      BY <2>3
    <3>2. 1 .. l \subseteq 1 .. n /\ n \in 1 .. n
      BY <2>3
    <3> QED BY <3>1, <3>2
  <2>10. Good(n)
    <3> HIDE DEF Full, l
    <3> DEFINE a == m * l
               b == m * n
    <3>1. a \in Nat /\ b \in Nat /\ b = a + m /\ f[l] \in 0 .. a /\ (f[l] = a <=> Full(l))
      BY <2>5, <2>8
    <3> HIDE DEF a, b
    <3> DEFINE g == f[l]
    <3>2. g \in 0 .. a /\ (g = a <=> Full(l)) /\ f[n] = g + w[n]
      BY <2>6, <3>1
    <3> HIDE DEF g
    <3>3. f[n] \in 0 .. b
      BY <2>7, <3>1, <3>2
    <3>4. f[n] = b <=> g = a /\ w[n] = m
      BY <2>7, <3>1, <3>2
    <3> QED BY <2>9, <3>2, <3>3, <3>4 DEF b
  <2> QED BY <2>1, <2>10
<1>3. Good(N)
  <2>1. N \in 0 .. N
    OBVIOUS
  <2> QED BY <1>2, <2>1
<1>4. SumOf(w, 1 .. N) = f[N]
  BY <1>1 DEF Summed
<1> QED BY <1>3, <1>4

\* Of two sums over the same places, the one of smaller numbers is no greater.
LEMMA SumOfLess ==
  ASSUME NEW w, Len(w) \in Nat, NEW v, Len(v) = Len(w), NEW K,
         \A n \in 1 .. Len(w) : w[n] \in Nat /\ v[n] \in Nat /\ w[n] <= v[n]
  PROVE  SumOf(w, K) \in Nat /\ SumOf(v, K) \in Nat /\ SumOf(w, K) <= SumOf(v, K)
<1> DEFINE N == Len(w)
<1>1. PICK f : Summed(w, K, f)
  BY SumIsSummed
<1>2. PICK g : Summed(v, K, g)
  BY SumIsSummed
<1> DEFINE Less(n) == f[n] \in Nat /\ g[n] \in Nat /\ f[n] <= g[n]
           T == {n \in 0 .. N : ~ Less(n)}
<1>3. T = {}
  <2> SUFFICES ASSUME T # {} PROVE FALSE
    OBVIOUS
  <2>1. PICK n \in T : \A k \in T : n <= k
    <3>1. T \in SUBSET Nat
      OBVIOUS
    <3> HIDE DEF T
    <3> QED BY <3>1, LeastNatural
  <2>2. n # 0
    <3>1. Less(0)
      BY <1>1, <1>2 DEF Summed
    <3> QED BY <2>1, <3>1
  <2> DEFINE l == n - 1
  <2>3. n \in 1 .. N /\ l \in 0 .. N /\ l < n /\ l \in Nat
    BY <2>1, <2>2
  <2>4. l \notin T
    <3> HIDE DEF l, T
    <3> QED BY <2>1, <2>3
  <2>5. f[l] \in Nat /\ g[l] \in Nat /\ f[l] <= g[l]
    BY <2>3, <2>4
  <2>6. /\ f[n] = f[l] + (IF n \in K THEN w[n] ELSE 0)
        /\ g[n] = g[l] + (IF n \in K THEN v[n] ELSE 0)
    BY <1>1, <1>2, <2>3 DEF Summed
  <2>7. w[n] \in Nat /\ v[n] \in Nat /\ w[n] <= v[n]
    BY <2>3
  <2> HIDE DEF l, N
  <2>8. Less(n)
    BY <2>5, <2>6, <2>7
  <2> QED BY <2>1, <2>8
<1>4. Less(N)
  <2>1. N \in 0 .. N
    OBVIOUS
  <2> QED BY <1>3, <2>1
<1>5. SumOf(w, K) = f[N] /\ SumOf(v, K) = g[N]
  BY <1>1, <1>2 DEF Summed
<1> QED BY <1>4, <1>5

\* What a number that replaces nothing adds to a sum.
OneMore(w, v, i) ==
  /\ Len(w) \in Nat /\ Len(v) = Len(w) /\ i \in 1 .. Len(w)
  /\ \A n \in 1 .. Len(w) : w[n] \in Nat /\ (n # i => v[n] = w[n])
  /\ w[i] = 0 /\ v[i] \in Nat

\* Counting one place more adds its weight.
LEMMA SumOfOneMore ==
  ASSUME NEW w, NEW v, NEW i, OneMore(w, v, i)
  PROVE  SumOf(v, 1 .. Len(v)) = SumOf(w, 1 .. Len(w)) + v[i]
<1> USE DEF OneMore
<1> DEFINE N == Len(w)
<1>1. PICK f : Summed(w, 1 .. N, f)
  BY SumIsSummed
<1>2. PICK g : Summed(v, 1 .. N, g)
  BY SumIsSummed
<1> DEFINE More(n) == f[n] \in Nat /\ g[n] = f[n] + (IF i <= n THEN v[i] ELSE 0)
           T == {n \in 0 .. N : ~ More(n)}
<1>3. T = {}
  <2> SUFFICES ASSUME T # {} PROVE FALSE
    OBVIOUS
  <2>1. PICK n \in T : \A k \in T : n <= k
    <3>1. T \in SUBSET Nat
      OBVIOUS
    <3> HIDE DEF T
    <3> QED BY <3>1, LeastNatural
  <2>2. n # 0
    <3>1. More(0)
      BY <1>1, <1>2 DEF Summed
    <3> QED BY <2>1, <3>1
  <2> DEFINE l == n - 1
  <2>3. n \in 1 .. N /\ l \in 0 .. N /\ l < n /\ l \in Nat
    BY <2>1, <2>2
  <2>4. l \notin T
    <3> HIDE DEF l, T
    <3> QED BY <2>1, <2>3
  <2>5. f[l] \in Nat /\ g[l] = f[l] + (IF i <= l THEN v[i] ELSE 0)
    BY <2>3, <2>4
  <2>6. f[n] = f[l] + w[n] /\ g[n] = g[l] + v[n]
    BY <1>1, <1>2, <2>3 DEF Summed
  <2>7. w[n] \in Nat /\ (n # i => v[n] = w[n]) /\ (n = i => w[n] = 0)
    BY <2>3
  <2>8. (i <= n <=> i <= l \/ i = n) /\ (i = n => ~ (i <= l))
    BY <2>3
  <2> HIDE DEF l, N
  <2>9. More(n)
    BY <2>5, <2>6, <2>7, <2>8
  <2> QED BY <2>1, <2>9
<1>4. More(N)
  <2>1. N \in 0 .. N
    OBVIOUS
  <2> QED BY <1>3, <2>1
<1>5. i <= N /\ SumOf(w, 1 .. N) = f[N] /\ SumOf(v, 1 .. N) = g[N]
  BY <1>1, <1>2 DEF Summed
<1> QED BY <1>4, <1>5

\* A sum of m for each place of D.
LEMMA SumOfMembers ==
  ASSUME NEW w, Len(w) \in Nat, NEW m \in Nat, NEW D \in SUBSET (1 .. Len(w)),
         \A n \in 1 .. Len(w) : w[n] = IF n \in D THEN m ELSE 0
  PROVE  /\ IsFiniteSet(D) /\ Cardinality(D) \in Nat
         /\ SumOf(w, 1 .. Len(w)) = m * Cardinality(D)
<1> DEFINE N == Len(w)
           One == [n \in 1 .. N |-> n]
<1>1. PICK f : Summed(w, 1 .. N, f)
  BY SumIsSummed
<1> DEFINE C(n) == Cardinality(Matches(D, One, n))
           Good(n) == C(n) \in Nat /\ f[n] = m * C(n)
           T == {n \in 0 .. N : ~ Good(n)}
<1>2. T = {}
  <2> SUFFICES ASSUME T # {} PROVE FALSE
    OBVIOUS
  <2>1. PICK n \in T : \A k \in T : n <= k
    <3>1. T \in SUBSET Nat
      OBVIOUS
    <3> HIDE DEF T
    <3> QED BY <3>1, LeastNatural
  <2>2. n # 0
    <3>1. Matches(D, One, 0) = {}
      BY DEF Matches
    <3>2. C(0) = 0
      BY <3>1, FS_EmptySet
    <3>3. f[0] = 0 /\ m * 0 = 0
      BY <1>1 DEF Summed
    <3>4. Good(0)
      <4> HIDE DEF C
      <4> QED BY <3>2, <3>3
    <3> QED BY <2>1, <3>4
  <2> DEFINE l == n - 1
  <2>3. n \in 1 .. N /\ l \in 0 .. N /\ l < n /\ l \in Nat /\ l + 1 = n
    BY <2>1, <2>2
  <2>4. l \notin T
    <3> HIDE DEF l, T
    <3> QED BY <2>1, <2>3
  <2>5. C(l) \in Nat /\ f[l] = m * C(l)
    BY <2>3, <2>4
  <2>6. f[n] = f[l] + w[n]
    BY <1>1, <2>3 DEF Summed
  <2>7. w[n] = IF n \in D THEN m ELSE 0
    BY <2>3
  <2>8. (n \in D => C(n) = C(l) + 1) /\ (n \notin D => C(n) = C(l))
    <3>1. One[n] = n
      BY <2>3
    <3> HIDE DEF l, One
    <3>2. /\ One[l + 1] \in D => Cardinality(Matches(D, One, l + 1)) = Cardinality(Matches(D, One, l)) + 1
          /\ One[l + 1] \notin D => Matches(D, One, l + 1) = Matches(D, One, l)
      BY <2>3, MatchesNext
    <3> QED BY <2>3, <3>1, <3>2
  <2>9. Good(n)
    <3> HIDE DEF C, l, N
    <3>1. m * (C(l) + 1) = m * C(l) + m
      BY <2>5
    <3> QED BY <2>5, <2>6, <2>7, <2>8, <3>1
  <2> QED BY <2>1, <2>9
<1>3. Good(N)
  <2>1. N \in 0 .. N
    OBVIOUS
  <2> QED BY <1>2, <2>1
<1>4. Matches(D, One, N) = D
  BY DEF Matches
<1>5. IsFiniteSet(Matches(D, One, N))
  BY MatchesNext
<1>6. SumOf(w, 1 .. N) = f[N]
  BY <1>1 DEF Summed
<1> QED BY <1>3, <1>4, <1>5, <1>6

\* A set of naturals below a bound has a greatest member, and one that is not empty a least.
LEMMA GreatestIsMax ==
  ASSUME NEW m \in Nat, NEW T \in SUBSET (0 .. m), T # {}
  PROVE  \E x \in T : \A y \in T : y <= x
<1> DEFINE U == {n \in Nat : \E y \in T : n = m - y}
<1>1. U # {}
  <2>1. PICK y \in T : TRUE
    OBVIOUS
  <2>2. m - y \in U
    OBVIOUS
  <2> QED BY <2>2
<1>2. PICK n \in U : \A k \in U : n <= k
  <2>1. U \in SUBSET Nat
    OBVIOUS
  <2> HIDE DEF U
  <2> QED BY <1>1, <2>1, LeastNatural
<1>3. PICK x \in T : n = m - x
  BY <1>2
<1>4. ASSUME NEW y \in T PROVE y <= x
  <2>1. m - y \in U
    OBVIOUS
  <2>2. n <= m - y
    <3> HIDE DEF U
    <3> QED BY <1>2, <2>1
  <2> QED BY <1>3, <2>2
<1> QED BY <1>4
================================================================================
