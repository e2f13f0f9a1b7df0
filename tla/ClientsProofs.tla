--------------------------- MODULE ClientsProofs ---------------------------
(***************************************************************************)
(* Theorems about Clients, for every driver, page size and row cap, every  *)
(* session and every sequence of signed batches: a read that says it is    *)
(* complete is, if its pages came in one order (CompleteIsExact), a chain  *)
(* is found authentic exactly when it is what was signed (ChainIsExact),   *)
(* what a verdict says of a session is so (VerdictIsHonest), a green build *)
(* turns red only for a loss (BuildFailsForALoss), and in strict mode for  *)
(* every loss of a summary that a complete read shows (StrictCatchesLoss). *)
(*                                                                         *)
(* A page is a stretch of the rows in the order in which the store answers *)
(* that request.  The number of rows a store shows before one of them      *)
(* never shrinks, so as long as the order stays the same a row it showed   *)
(* at the beginning of a read is either in hand or at or beyond the place  *)
(* where the next page starts: that is what ReadKept says, and why rows    *)
(* that arrive between two pages push others back but never out.  Whatever *)
(* the orders, the pages so far have as many rows as the offset says.      *)
(*                                                                         *)
(* A MAC names the record it authenticates and the MAC before it, so two   *)
(* neighbours in a chain that verifies are neighbours in one batch, and    *)
(* its first record is the first of a batch.  The least place where a read *)
(* departs from that batch cannot exist.                                   *)
(*                                                                         *)
(* The rows of a session are records of its one batch, none of them twice  *)
(* (BatchKept): a store that showed as many of them as there are records   *)
(* showed them all.  A verdict is what evaluate_prefix says of the last    *)
(* read, and stays so until the next reader comes (SettledKept).           *)
(***************************************************************************)
EXTENDS Clients, Induction

-----------------------------------------------------------------------------
(* Order.                                                                  *)

\* What precedes i in the order R.
Before(S, R, i) == {j \in S : <<j, i>> \in R}

StrictOrder(S, R) ==
  /\ \A i \in S : <<i, i>> \notin R
  /\ \A i, j, k \in S : <<i, j>> \in R /\ <<j, k>> \in R => <<i, k>> \in R
  /\ \A i, j \in S : i # j => <<i, j>> \in R \/ <<j, i>> \in R

\* Two members of a finite ordered set have different numbers of members before them.
LEMMA PlacesDiffer ==
  ASSUME NEW S, IsFiniteSet(S), NEW R, StrictOrder(S, R),
         NEW i \in S, NEW j \in S, <<i, j>> \in R
  PROVE  /\ Cardinality(Before(S, R, i)) \in Nat
         /\ Cardinality(Before(S, R, j)) \in Nat
         /\ Cardinality(Before(S, R, i)) < Cardinality(Before(S, R, j))
         /\ Cardinality(Before(S, R, j)) < Cardinality(S)
<1> DEFINE A == Before(S, R, i)
           B == Before(S, R, j)
<1>1. A \subseteq B /\ B \subseteq S /\ i \in B /\ i \notin A /\ j \notin B
  BY DEF Before, StrictOrder
<1> HIDE DEF A, B
<1>2. /\ IsFiniteSet(B) /\ Cardinality(B) <= Cardinality(S)
      /\ Cardinality(S) = Cardinality(B) => S = B
  BY <1>1, FS_Subset
<1>3. /\ IsFiniteSet(A) /\ Cardinality(A) <= Cardinality(B)
      /\ Cardinality(B) = Cardinality(A) => A = B
  BY <1>1, <1>2, FS_Subset
<1>4. Cardinality(A) \in Nat /\ Cardinality(B) \in Nat /\ Cardinality(S) \in Nat
  BY <1>2, <1>3, FS_CardinalityType
<1> QED
  BY <1>1, <1>2, <1>3, <1>4 DEF A, B

\* A finite set in order: every member stands at its place, and every place is taken.
LEMMA OrderedIsInOrder ==
  ASSUME NEW S, IsFiniteSet(S), NEW R, StrictOrder(S, R)
  PROVE  /\ Cardinality(S) \in Nat
         /\ Ordered(S, R) \in [1 .. Cardinality(S) -> S]
         /\ \A i \in S : /\ Cardinality(Before(S, R, i)) \in 0 .. Cardinality(S) - 1
                         /\ Ordered(S, R)[Cardinality(Before(S, R, i)) + 1] = i
         /\ \A k \in 1 .. Cardinality(S) :
              Cardinality(Before(S, R, Ordered(S, R)[k])) = k - 1
<1> DEFINE n == Cardinality(S)
           C(i) == Cardinality(Before(S, R, i))
<1>0. n \in Nat
  BY FS_CardinalityType
<1>1. ASSUME NEW i \in S PROVE C(i) \in 0 .. n - 1
  <2>1. Before(S, R, i) \subseteq S /\ i \notin Before(S, R, i)
    BY DEF Before, StrictOrder
  <2>2. IsFiniteSet(Before(S, R, i)) /\ C(i) <= n /\ (n = C(i) => S = Before(S, R, i))
    BY <2>1, FS_Subset
  <2>3. C(i) \in Nat
    BY <2>2, FS_CardinalityType
  <2> HIDE DEF C, n
  <2> QED BY <1>0, <2>1, <2>2, <2>3
<1>2. ASSUME NEW i \in S, NEW j \in S, C(i) = C(j) PROVE i = j
  <2>1. CASE <<i, j>> \in R
    <3>1. C(i) \in Nat /\ C(i) < C(j)
      BY <2>1, PlacesDiffer
    <3> QED BY <1>2, <3>1
  <2>2. CASE <<j, i>> \in R
    <3>1. C(i) \in Nat /\ C(j) < C(i)
      BY <2>2, PlacesDiffer
    <3> QED BY <1>2, <3>1
  <2> QED BY <2>1, <2>2 DEF StrictOrder
<1>3. ASSUME NEW m \in 0 .. n - 1 PROVE \E i \in S : C(i) = m
  <2>1. PICK a \in S : C(a) >= m
    <3> SUFFICES ASSUME \A a \in S : C(a) < m PROVE FALSE
      <4> HIDE DEF C
      <4> QED BY <1>1, <1>0 DEF C
    <3> DEFINE f == [a \in S |-> C(a) + 1]
    <3>1. f \in [S -> 1 .. m]
      BY <1>1, <1>0
    <3>2. IsFiniteSet(1 .. m) /\ Cardinality(1 .. m) < n
      <4>1. 1 \in Int /\ m \in Int /\ m < n /\ 0 <= m
        BY <1>0
      <4>2. IsFiniteSet(1 .. m) /\ Cardinality(1 .. m) = IF 1 > m THEN 0 ELSE m - 1 + 1
        BY <4>1, FS_Interval
      <4> QED BY <1>0, <4>1, <4>2
    <3>3. PICK a, b \in S : a # b /\ f[a] = f[b]
      <4> HIDE DEF f
      <4> QED BY <3>1, <3>2, FS_PigeonHole
    <3>4. C(a) = C(b)
      <4>1. C(a) \in Int /\ C(b) \in Int /\ f[a] = C(a) + 1 /\ f[b] = C(b) + 1
        BY <1>1, <1>0
      <4> QED BY <3>3, <4>1
    <3> QED BY <1>2, <3>3, <3>4
  <2> DEFINE T == {C(b) : b \in {c \in S : C(c) >= m}}
  <2>2. T \in SUBSET Nat /\ T # {}
    BY <1>0, <1>1, <2>1
  <2>3. PICK x \in T : \A y \in T : x <= y
    BY <2>2, LeastNatural
  <2>4. PICK b \in S : C(b) = x /\ C(b) >= m /\ \A c \in S : C(c) >= m => C(b) <= C(c)
    BY <2>3
  <2>5. ASSUME NEW c \in Before(S, R, b) PROVE C(c) < m
    <3>1. c \in S /\ <<c, b>> \in R
      BY DEF Before
    <3>2. C(c) \in Nat /\ C(c) < C(b)
      BY <3>1, PlacesDiffer
    <3>3. C(b) \in Nat
      BY <1>1, <1>0
    <3> HIDE DEF C
    <3> QED BY <2>4, <3>1, <3>2, <3>3
  <2> DEFINE B == Before(S, R, b)
             f == [c \in B |-> C(c) + 1]
  <2>6. B \subseteq S
    BY DEF Before
  <2>7. f \in [B -> 1 .. m]
    BY <1>0, <1>1, <2>5, <2>6
  <2>8. IsFiniteSet(B) /\ IsFiniteSet(1 .. m) /\ Cardinality(1 .. m) = m
    <3>1. 1 \in Int /\ m \in Int /\ 0 <= m
      BY <1>0
    <3>2. IsFiniteSet(1 .. m) /\ Cardinality(1 .. m) = IF 1 > m THEN 0 ELSE m - 1 + 1
      BY <3>1, FS_Interval
    <3>3. IsFiniteSet(B)
      BY <2>6, FS_Subset
    <3> QED BY <3>1, <3>2, <3>3
  <2>9. ~ (m < Cardinality(B))
    <3> SUFFICES ASSUME m < Cardinality(B) PROVE FALSE
      OBVIOUS
    <3>1. PICK c, d \in B : c # d /\ f[c] = f[d]
      <4> HIDE DEF f, B
      <4> QED BY <2>7, <2>8, FS_PigeonHole
    <3>2. C(c) = C(d)
      <4>1. c \in S /\ d \in S /\ f[c] = C(c) + 1 /\ f[d] = C(d) + 1
        BY <2>6
      <4>2. C(c) \in Int /\ C(d) \in Int
        BY <4>1, <1>0, <1>1
      <4> QED BY <3>1, <4>1, <4>2
    <3> QED BY <1>2, <2>6, <3>1, <3>2
  <2>10. C(b) = m
    <3>1. C(b) \in Nat /\ C(b) = Cardinality(B)
      BY <1>0, <1>1
    <3> HIDE DEF C, B
    <3> QED BY <1>0, <2>4, <2>9, <3>1
  <2> QED BY <2>10
<1>4. ASSUME NEW k \in 1 .. n
      PROVE  /\ Ordered(S, R)[k] \in S
             /\ C(Ordered(S, R)[k]) = k - 1
  <2>1. Ordered(S, R)[k] = CHOOSE i \in S : C(i) = k - 1
    BY DEF Ordered, Before
  <2>2. k - 1 \in 0 .. n - 1
    BY <1>0
  <2>3. \E i \in S : C(i) = k - 1
    BY <1>3, <2>2
  <2> HIDE DEF C
  <2> QED BY <2>1, <2>3
<1>5. Ordered(S, R) \in [1 .. n -> S]
  BY <1>4 DEF Ordered
<1>6. ASSUME NEW i \in S PROVE Ordered(S, R)[C(i) + 1] = i
  <2>1. C(i) + 1 \in 1 .. n
    BY <1>0, <1>1
  <2>2. /\ Ordered(S, R)[C(i) + 1] \in S
        /\ C(Ordered(S, R)[C(i) + 1]) = C(i)
    <3>1. (C(i) + 1) - 1 = C(i)
      BY <1>0, <1>1
    <3> HIDE DEF C
    <3> QED BY <1>4, <2>1, <3>1
  <2> QED BY <1>2, <2>2
<1> QED
  BY <1>0, <1>1, <1>4, <1>5, <1>6

\* Distinct places hold distinct members.
LEMMA OrderedIsInjective ==
  ASSUME NEW S, IsFiniteSet(S), NEW R, StrictOrder(S, R),
         NEW k \in 1 .. Cardinality(S), NEW l \in 1 .. Cardinality(S),
         Ordered(S, R)[k] = Ordered(S, R)[l]
  PROVE  k = l
<1>1. Cardinality(Before(S, R, Ordered(S, R)[k])) = k - 1
  BY OrderedIsInOrder
<1>2. Cardinality(Before(S, R, Ordered(S, R)[l])) = l - 1
  BY OrderedIsInOrder
<1>3. Cardinality(S) \in Nat
  BY FS_CardinalityType
<1> QED BY <1>1, <1>2, <1>3

\* The rows a store shows that come before row i in its answer.
Prior(S, order, i) == {j \in S : IF order = "newest" THEN j > i ELSE j < i}

LEMMA AscendingInOrder ==
  ASSUME NEW S \in SUBSET Nat, IsFiniteSet(S)
  PROVE  /\ Cardinality(S) \in Nat
         /\ Ascending(S) \in [1 .. Cardinality(S) -> S]
         /\ \A i \in S : /\ Cardinality(Prior(S, "oldest", i)) \in 0 .. Cardinality(S) - 1
                         /\ Ascending(S)[Cardinality(Prior(S, "oldest", i)) + 1] = i
         /\ \A k, l \in 1 .. Cardinality(S) : Ascending(S)[k] = Ascending(S)[l] => k = l
<1> DEFINE R == {p \in S \X S : p[1] < p[2]}
<1>1. StrictOrder(S, R)
  BY DEF StrictOrder
<1>2. \A i \in S : Before(S, R, i) = Prior(S, "oldest", i)
  BY DEF Before, Prior
<1>3. Ascending(S) = Ordered(S, R)
  BY DEF Ascending
<1> HIDE DEF R
<1>4. \A k, l \in 1 .. Cardinality(S) : Ordered(S, R)[k] = Ordered(S, R)[l] => k = l
  BY <1>1, OrderedIsInjective
<1>5. /\ Cardinality(S) \in Nat
      /\ Ordered(S, R) \in [1 .. Cardinality(S) -> S]
      /\ \A i \in S : /\ Cardinality(Before(S, R, i)) \in 0 .. Cardinality(S) - 1
                      /\ Ordered(S, R)[Cardinality(Before(S, R, i)) + 1] = i
  BY <1>1, OrderedIsInOrder
<1> QED BY <1>2, <1>3, <1>4, <1>5

LEMMA DescendingInOrder ==
  ASSUME NEW S \in SUBSET Nat, IsFiniteSet(S)
  PROVE  /\ Cardinality(S) \in Nat
         /\ Descending(S) \in [1 .. Cardinality(S) -> S]
         /\ \A i \in S : /\ Cardinality(Prior(S, "newest", i)) \in 0 .. Cardinality(S) - 1
                         /\ Descending(S)[Cardinality(Prior(S, "newest", i)) + 1] = i
         /\ \A k, l \in 1 .. Cardinality(S) : Descending(S)[k] = Descending(S)[l] => k = l
<1> DEFINE R == {p \in S \X S : p[1] > p[2]}
<1>1. StrictOrder(S, R)
  BY DEF StrictOrder
<1>2. \A i \in S : Before(S, R, i) = Prior(S, "newest", i)
  BY DEF Before, Prior
<1>3. Descending(S) = Ordered(S, R)
  BY DEF Descending
<1> HIDE DEF R
<1>4. \A k, l \in 1 .. Cardinality(S) : Ordered(S, R)[k] = Ordered(S, R)[l] => k = l
  BY <1>1, OrderedIsInjective
<1>5. /\ Cardinality(S) \in Nat
      /\ Ordered(S, R) \in [1 .. Cardinality(S) -> S]
      /\ \A i \in S : /\ Cardinality(Before(S, R, i)) \in 0 .. Cardinality(S) - 1
                      /\ Ordered(S, R)[Cardinality(Before(S, R, i)) + 1] = i
  BY <1>1, OrderedIsInOrder
<1> QED BY <1>2, <1>3, <1>4, <1>5

\* A set of places of a sequence is a finite set of naturals.
LEMMA PlacesAreFinite ==
  ASSUME NEW n \in Nat, NEW S \in SUBSET (1 .. n)
  PROVE  S \in SUBSET Nat /\ IsFiniteSet(S) /\ Cardinality(S) \in Nat
<1>1. 1 \in Int /\ n \in Int
  OBVIOUS
<1>2. IsFiniteSet(1 .. n)
  BY <1>1, FS_Interval
<1>3. IsFiniteSet(S)
  BY <1>2, FS_Subset
<1> QED BY <1>3, FS_CardinalityType

\* The whole answer of a store: every row it shows, once, at its place.
LEMMA RowsInOrder ==
  ASSUME NEW n \in Nat, shown \subseteq 1 .. n, read.order \in {"oldest", "newest"}
  PROVE  /\ Rows \in Seq(shown)
         /\ Cardinality(shown) \in Nat
         /\ Len(Rows) = Cardinality(shown)
         /\ \A i \in shown :
              /\ Cardinality(Prior(shown, read.order, i)) \in 0 .. Cardinality(shown) - 1
              /\ Rows[Cardinality(Prior(shown, read.order, i)) + 1] = i
         /\ \A k, l \in 1 .. Cardinality(shown) : Rows[k] = Rows[l] => k = l
<1>1. shown \in SUBSET Nat /\ IsFiniteSet(shown)
  BY PlacesAreFinite
<1>2. CASE read.order = "newest"
  <2>1. Rows = Descending(shown)
    BY <1>2 DEF Rows
  <2>2. /\ Cardinality(shown) \in Nat
        /\ Rows \in [1 .. Cardinality(shown) -> shown]
        /\ \A i \in shown :
             /\ Cardinality(Prior(shown, "newest", i)) \in 0 .. Cardinality(shown) - 1
             /\ Rows[Cardinality(Prior(shown, "newest", i)) + 1] = i
        /\ \A k, l \in 1 .. Cardinality(shown) : Rows[k] = Rows[l] => k = l
    BY <1>1, <2>1, DescendingInOrder
  <2>3. Rows \in Seq(shown) /\ Len(Rows) = Cardinality(shown)
    BY <2>2
  <2> QED BY <1>2, <2>2, <2>3
<1>3. CASE read.order = "oldest"
  <2>1. Rows = Ascending(shown)
    BY <1>3 DEF Rows
  <2>2. /\ Cardinality(shown) \in Nat
        /\ Rows \in [1 .. Cardinality(shown) -> shown]
        /\ \A i \in shown :
             /\ Cardinality(Prior(shown, "oldest", i)) \in 0 .. Cardinality(shown) - 1
             /\ Rows[Cardinality(Prior(shown, "oldest", i)) + 1] = i
        /\ \A k, l \in 1 .. Cardinality(shown) : Rows[k] = Rows[l] => k = l
    BY <1>1, <2>1, AscendingInOrder
  <2>3. Rows \in Seq(shown) /\ Len(Rows) = Cardinality(shown)
    BY <2>2
  <2> QED BY <1>3, <2>2, <2>3
<1> QED BY <1>2, <1>3

\* A page: the rows after the offset, as many as there are up to its size.
LEMMA TakeIsAPage ==
  ASSUME NEW T, NEW rows \in Seq(T), NEW offset \in 0 .. Len(rows), NEW size \in Nat
  PROVE  /\ Take(rows, offset, size) \in Seq(T)
         /\ Len(Take(rows, offset, size)) =
              IF offset + size <= Len(rows) THEN size ELSE Len(rows) - offset
         /\ \A k \in 1 .. Len(Take(rows, offset, size)) :
              /\ offset + k \in 1 .. Len(rows)
              /\ Take(rows, offset, size)[k] = rows[offset + k]
<1> DEFINE n == IF offset + size <= Len(rows) THEN size ELSE Len(rows) - offset
           page == SubSeq(rows, offset + 1, offset + n)
<1>1. Len(rows) \in Nat /\ offset \in Nat /\ offset <= Len(rows)
  OBVIOUS
<1>2. n \in Nat /\ offset + n <= Len(rows)
  BY <1>1
<1>3. Take(rows, offset, size) = page
  <2>1. CASE offset + size <= Len(rows)
    BY <1>1, <2>1 DEF Take
  <2>2. CASE ~ (offset + size <= Len(rows))
    <3>1. offset + n = Len(rows)
      BY <1>1, <2>2
    <3> HIDE DEF n
    <3> QED BY <2>2, <3>1 DEF Take
  <2> QED BY <2>1, <2>2
<1> HIDE DEF n
<1>4. page \in Seq(T)
  BY <1>1, <1>2
<1>5. Len(page) = n
  <2>1. offset + n - (offset + 1) + 1 = n
    BY <1>1, <1>2
  <2> QED BY <1>1, <1>2, <2>1
<1>6. ASSUME NEW k \in 1 .. n
      PROVE  offset + k \in 1 .. Len(rows) /\ page[k] = rows[offset + k]
  <2>1. offset + k \in 1 .. Len(rows)
    BY <1>1, <1>2
  <2>2. offset + 1 + k - 1 = offset + k
    BY <1>1
  <2>3. page[k] = rows[offset + 1 + k - 1]
    BY <1>1, <1>2
  <2> QED BY <2>1, <2>2, <2>3
<1> HIDE DEF page
<1> QED BY <1>3, <1>4, <1>5, <1>6 DEF n

\* The stable sort: the same events, each as often, in another order.
LEMMA StreamOrderPermutes ==
  ASSUME NEW T, NEW events \in Seq(T), \A n \in DOMAIN events : log[events[n]].ship \in Int
  PROVE  \E f \in [DOMAIN events -> DOMAIN events] :
           /\ \A k, l \in DOMAIN events : f[k] = f[l] => k = l
           /\ \A n \in DOMAIN events : \E k \in DOMAIN events : f[k] = n
           /\ StreamOrder(events) = [k \in DOMAIN events |-> events[f[k]]]
<1> DEFINE S == DOMAIN events
           R == {p \in S \X S : \/ log[events[p[1]]].ship < log[events[p[2]]].ship
                               \/ /\ log[events[p[1]]].ship = log[events[p[2]]].ship
                                  /\ p[1] < p[2]}
           f == Ordered(S, R)
<1>1. S = 1 .. Len(events) /\ Len(events) \in Nat
  OBVIOUS
<1>2. IsFiniteSet(S) /\ Cardinality(S) = Len(events)
  <2>1. 1 \in Int /\ Len(events) \in Int /\ 0 <= Len(events)
    BY <1>1
  <2>2. IsFiniteSet(1 .. Len(events)) /\ Cardinality(1 .. Len(events)) =
          IF 1 > Len(events) THEN 0 ELSE Len(events) - 1 + 1
    BY <2>1, FS_Interval
  <2> QED BY <1>1, <2>1, <2>2
<1>3. StrictOrder(S, R)
  <2> DEFINE at(n) == log[events[n]].ship
  <2>1. \A n \in S : at(n) \in Int /\ n \in Int
    BY <1>1
  <2>2. \A i, j \in S : <<i, j>> \in R <=> at(i) < at(j) \/ (at(i) = at(j) /\ i < j)
    OBVIOUS
  <2> HIDE DEF S, R, at
  <2>3. \A i \in S : <<i, i>> \notin R
    BY <2>1, <2>2
  <2>4. \A i, j \in S : i # j => <<i, j>> \in R \/ <<j, i>> \in R
    BY <2>1, <2>2
  <2>5. ASSUME NEW i \in S, NEW j \in S, NEW k \in S, <<i, j>> \in R, <<j, k>> \in R
        PROVE  <<i, k>> \in R
    <3>1. /\ at(i) \in Int /\ at(j) \in Int /\ at(k) \in Int
          /\ i \in Int /\ j \in Int /\ k \in Int
      BY <2>1
    <3>2. /\ at(i) < at(j) \/ (at(i) = at(j) /\ i < j)
          /\ at(j) < at(k) \/ (at(j) = at(k) /\ j < k)
      BY <2>2, <2>5
    <3>3. at(i) < at(k) \/ (at(i) = at(k) /\ i < k)
      BY <3>1, <3>2
    <3> QED BY <2>2, <3>3
  <2> QED BY <2>3, <2>4, <2>5 DEF StrictOrder
<1>4. StreamOrder(events) = [k \in S |-> events[f[k]]]
  BY DEF StreamOrder
<1> HIDE DEF R
<1>5. /\ f \in [1 .. Len(events) -> S]
      /\ \A i \in S : /\ Cardinality(Before(S, R, i)) \in 0 .. Len(events) - 1
                      /\ f[Cardinality(Before(S, R, i)) + 1] = i
  BY <1>2, <1>3, OrderedIsInOrder
<1>6. \A k, l \in 1 .. Len(events) : f[k] = f[l] => k = l
  BY <1>2, <1>3, OrderedIsInjective
<1> HIDE DEF f
<1>7. ASSUME NEW n \in S PROVE \E k \in S : f[k] = n
  <2>1. Cardinality(Before(S, R, n)) + 1 \in S /\ f[Cardinality(Before(S, R, n)) + 1] = n
    BY <1>1, <1>5
  <2> QED BY <2>1
<1>8. f \in [S -> S] /\ \A k, l \in S : f[k] = f[l] => k = l
  BY <1>1, <1>5, <1>6
<1> HIDE DEF S
<1> QED BY <1>4, <1>7, <1>8 DEF S

-----------------------------------------------------------------------------
(* The inductive invariant.                                                *)

BrokenKind == {"torn", "malformed"}

\* A row of the log, of a store behind driver d.
RowKept(row, d) ==
  /\ row.ship \in Nat
  /\ row.kind \in BrokenKind => d = "jsonl"

StoreKept ==
  /\ driver \in Drivers
  /\ log \in Seq(Elements(log))
  /\ \A i \in DOMAIN log : RowKept(log[i], driver)
  /\ shown \subseteq DOMAIN log
  /\ driver \in Local => shown = DOMAIN log

Cap(paged) == IF paged THEN WalkRows ELSE MaxRows

ReadsOf(rows) ==
  [paged : BOOLEAN, offset : Nat, events : Seq(rows), before : SUBSET rows,
   order : {"oldest", "newest"}, mixed : BOOLEAN]

\* A read under way: the next page starts where the rows in hand end, and, as long as the
\* pages come in one order, a row that was shown from the beginning is among them or still
\* ahead.
ReadKept ==
  read # None =>
    /\ answer = None
    /\ read \in ReadsOf(shown)
    /\ read.order \in Orders
    /\ read.offset = Len(read.events)
    /\ read.offset <= Cardinality(shown)
    /\ read.offset < Cap(read.paged)
    /\ ~ read.mixed =>
         \A i \in read.before :
           \/ i \in Elements(read.events)
           \/ read.offset <= Cardinality(Prior(shown, read.order, i))

\* An answer: no row it returns is broken, and what is told of it is so.
AnswerKept ==
  /\ answer # None =>
       /\ read = None
       /\ answer.events \in Seq(shown)
       /\ answer.before \subseteq shown
       /\ \A n \in DOMAIN answer.events : log[answer.events[n]].kind \notin BrokenKind
  /\ CompleteIsExact

\* A pytest session ships before its first read.
SessionKept ==
  /\ SessionOK
  /\ client \in {"pytest", "chain"}
  /\ suite \in Seq(Elements(suite)) /\ reports \in Seq(Elements(reports))
  /\ client = "pytest" =>
       /\ pc # "polling" => read = None
       /\ pc \in {"collecting", "running", "killed"} => answer = None
       /\ authentic = None /\ evolve = FALSE /\ shipped = 0 /\ anchored = FALSE

\* A record of some batch, whatever its stamp.
Signed(r) ==
  \E b \in DOMAIN Batches : \E n \in 1 .. Batches[b] :
    /\ r.body = SignChain(b)[n].body
    /\ r.prev = SignChain(b)[n].prev
    /\ r.mac = SignChain(b)[n].mac

\* Every whole row of a chain's store is a signed record.
ChainKept ==
  /\ ChainOK
  /\ client = "chain" =>
       /\ \A i \in DOMAIN log : log[i].kind \notin BrokenKind => Signed(log[i])
       /\ authentic # None => answer # None
  /\ ChainIsExact

IInv == StoreKept /\ ReadKept /\ AnswerKept /\ SessionKept /\ ChainKept

-----------------------------------------------------------------------------
(* ship                                                                    *)

LEMMA Concatenation ==
  ASSUME NEW S, NEW s \in Seq(S), NEW T, NEW t \in Seq(T)
  PROVE  /\ s \o t \in Seq(Elements(s \o t))
         /\ Len(s \o t) = Len(s) + Len(t)
         /\ DOMAIN (s \o t) = 1 .. Len(s) + Len(t)
         /\ \A i \in 1 .. Len(s) : (s \o t)[i] = s[i]
         /\ \A i \in DOMAIN (s \o t) :
              i > Len(s) => i - Len(s) \in 1 .. Len(t) /\ (s \o t)[i] = t[i - Len(s)]
         /\ \A i \in 1 .. Len(t) : (s \o t)[Len(s) + i] = t[i]
<1>1. s \in Seq(S \cup T) /\ t \in Seq(S \cup T)
  OBVIOUS
<1>2. s \o t \in Seq(S \cup T)
  BY <1>1
<1>3. DOMAIN (s \o t) = 1 .. Len(s) + Len(t) /\ Len(s \o t) = Len(s) + Len(t)
  BY <1>1
<1>4. s \o t \in Seq(Elements(s \o t))
  <2> DEFINE u == s \o t
  <2>1. u \in [1 .. Len(u) -> Elements(u)] /\ Len(u) \in Nat
    <3>0. u \in Seq(S \cup T)
      BY <1>2
    <3> HIDE DEF u
    <3>1. u = [k \in 1 .. Len(u) |-> u[k]] /\ Len(u) \in Nat /\ DOMAIN u = 1 .. Len(u)
      BY <3>0
    <3> QED BY <3>1 DEF Elements
  <2> HIDE DEF u
  <2>2. u \in Seq(Elements(u))
    BY <2>1
  <2> QED BY <2>2 DEF u
<1>5. \A i \in 1 .. Len(s) : (s \o t)[i] = s[i]
  BY <1>1
<1>6. \A i \in 1 .. Len(t) : (s \o t)[Len(s) + i] = t[i]
  BY <1>1
<1>7. ASSUME NEW i \in DOMAIN (s \o t), i > Len(s)
      PROVE  i - Len(s) \in 1 .. Len(t) /\ (s \o t)[i] = t[i - Len(s)]
  <2>1. i \in Int /\ i <= Len(s) + Len(t) /\ Len(s) \in Nat /\ Len(t) \in Nat
    BY <1>3
  <2>2. i - Len(s) \in 1 .. Len(t) /\ Len(s) + (i - Len(s)) = i
    BY <1>7, <2>1
  <2> QED BY <1>6, <2>2
<1> QED BY <1>3, <1>4, <1>5, <1>6, <1>7

Whole(lines) == {k \in DOMAIN lines : lines[k].kind \notin BrokenKind}

Batched(batch, B) ==
  /\ batch \in Seq(B)
  /\ \A n \in DOMAIN batch : /\ {"kind", "ship"} \subseteq DOMAIN batch[n]
                            /\ batch[n].kind \notin BrokenKind

\* Whole lines are records of the batch, none of them twice; the others are torn.
Carries(lines, batch) ==
  /\ lines \in Seq(Elements(lines))
  /\ \A k \in DOMAIN lines \ Whole(lines) : lines[k] = Torn
  /\ \E h \in [Whole(lines) -> DOMAIN batch] :
       /\ \A k, l \in Whole(lines) : h[k] = h[l] => k = l
       /\ \A k \in Whole(lines) : lines[k] = Stamped(batch)[h[k]]

LEMMA StampedRows ==
  ASSUME NEW B, NEW batch, Batched(batch, B), Len(log) \in Nat
  PROVE  /\ DOMAIN Stamped(batch) = DOMAIN batch
         /\ Stamped(batch) \in Seq(Elements(Stamped(batch)))
         /\ Len(Stamped(batch)) = Len(batch)
         /\ \A n \in DOMAIN batch :
              /\ Stamped(batch)[n] = [batch[n] EXCEPT !.ship = Len(log) + 1]
              /\ Stamped(batch)[n].kind = batch[n].kind
              /\ Stamped(batch)[n].ship = Len(log) + 1
<1> DEFINE st == Stamped(batch)
<1>1. DOMAIN batch = 1 .. Len(batch) /\ Len(batch) \in Nat
  BY DEF Batched
<1>2. st = [n \in 1 .. Len(batch) |-> [batch[n] EXCEPT !.ship = Len(log) + 1]]
  BY <1>1 DEF Stamped
<1>3. \A n \in DOMAIN batch :
        /\ st[n] = [batch[n] EXCEPT !.ship = Len(log) + 1]
        /\ st[n].kind = batch[n].kind
        /\ st[n].ship = Len(log) + 1
  BY <1>1, <1>2 DEF Batched
<1>4. st \in [1 .. Len(batch) -> Elements(st)]
  <2>1. DOMAIN st = 1 .. Len(batch) /\ st = [n \in 1 .. Len(batch) |-> st[n]]
    BY <1>2
  <2> HIDE DEF st
  <2> QED BY <2>1 DEF Elements
<1>5. st \in Seq(Elements(st)) /\ Len(st) = Len(batch)
  <2> HIDE DEF st
  <2> QED BY <1>1, <1>4
<1> QED BY <1>1, <1>2, <1>3, <1>5

LEMMA WholeBatchCarries ==
  ASSUME NEW B, NEW batch, Batched(batch, B), Len(log) \in Nat
  PROVE  Carries(Stamped(batch), batch)
<1> DEFINE st == Stamped(batch)
           h == [n \in DOMAIN batch |-> n]
<1>1. DOMAIN st = DOMAIN batch /\ st \in Seq(Elements(st)) /\ Whole(st) = DOMAIN batch
  BY StampedRows DEF Whole, Batched
<1>2. /\ h \in [Whole(st) -> DOMAIN batch]
      /\ \A k, l \in Whole(st) : h[k] = h[l] => k = l
      /\ \A k \in Whole(st) : st[k] = st[h[k]]
  BY <1>1
<1> HIDE DEF h
<1> QED BY <1>1, <1>2 DEF Carries

LEMMA NothingCarries ==
  ASSUME NEW batch
  PROVE  Carries(<<>>, batch)
<1> DEFINE h == [n \in {} |-> n]
<1>1. DOMAIN << >> = {} /\ << >> \in Seq(Elements(<< >>)) /\ Whole(<< >>) = {}
  BY DEF Whole
<1>2. h \in [{} -> DOMAIN batch]
  OBVIOUS
<1> QED BY <1>1, <1>2 DEF Carries

\* A file on a full disk: some records of the batch, and perhaps half of the next.
LEMMA PartCarries ==
  ASSUME NEW B, NEW batch, Batched(batch, B), Len(log) \in Nat,
         NEW n \in 0 .. Len(batch) - 1, NEW torn \in {<<>>, <<Torn>>}
  PROVE  Carries(SubSeq(Stamped(batch), 1, n) \o torn, batch)
<1> DEFINE st == Stamped(batch)
           part == SubSeq(st, 1, n)
           lines == part \o torn
           h == [k \in 1 .. n |-> k]
<1>1. /\ DOMAIN batch = 1 .. Len(batch) /\ Len(batch) \in Nat
      /\ st \in Seq(Elements(st)) /\ Len(st) = Len(batch)
      /\ \A k \in DOMAIN batch : st[k].kind \notin BrokenKind
  <2>1. /\ DOMAIN batch = 1 .. Len(batch) /\ Len(batch) \in Nat
        /\ \A k \in DOMAIN batch : batch[k].kind \notin BrokenKind
    BY DEF Batched
  <2>2. st \in Seq(Elements(st)) /\ Len(st) = Len(batch)
    BY StampedRows
  <2>3. \A k \in DOMAIN batch : st[k].kind = batch[k].kind
    BY StampedRows DEF Batched
  <2> HIDE DEF st
  <2> QED BY <2>1, <2>2, <2>3
<1>2. n \in Nat /\ n <= Len(batch)
  BY <1>1
<1>3. part \in Seq(Elements(st)) /\ Len(part) = n /\ \A k \in 1 .. n : part[k] = st[k]
  <2> HIDE DEF st
  <2> QED BY <1>1, <1>2
<1>4. torn \in Seq({Torn}) /\ Len(torn) \in Nat /\ \A k \in 1 .. Len(torn) : torn[k] = Torn
  <2> HIDE DEF Torn
  <2>1. CASE torn = <<>>
    BY <2>1
  <2>2. CASE torn = <<Torn>>
    BY <2>2
  <2> QED BY <2>1, <2>2
<1> HIDE DEF part
<1>5. /\ lines \in Seq(Elements(lines))
      /\ DOMAIN lines = 1 .. n + Len(torn)
      /\ \A i \in 1 .. n : lines[i] = part[i]
      /\ \A i \in DOMAIN lines :
           i > n => i - n \in 1 .. Len(torn) /\ lines[i] = torn[i - n]
  BY <1>3, <1>4, Concatenation
<1> HIDE DEF lines, st
<1>6. \A i \in 1 .. n : i \in DOMAIN lines /\ i \in DOMAIN batch /\ lines[i] = st[i]
  BY <1>1, <1>2, <1>3, <1>4, <1>5
<1>7. \A i \in DOMAIN lines : i \notin 1 .. n => lines[i] = Torn
  <2> SUFFICES ASSUME NEW i \in DOMAIN lines, i \notin 1 .. n PROVE lines[i] = Torn
    OBVIOUS
  <2>1. i > n
    BY <1>2, <1>4, <1>5
  <2>2. i - n \in 1 .. Len(torn) /\ lines[i] = torn[i - n]
    BY <1>5, <2>1
  <2> QED BY <1>4, <2>2
<1>8. Whole(lines) = 1 .. n
  BY <1>1, <1>6, <1>7 DEF Whole, Torn, BrokenKind
<1>9. /\ h \in [Whole(lines) -> DOMAIN batch]
      /\ \A k, l \in Whole(lines) : h[k] = h[l] => k = l
      /\ \A k \in Whole(lines) : lines[k] = st[h[k]]
  BY <1>6, <1>8
<1>10. \A k \in DOMAIN lines \ Whole(lines) : lines[k] = Torn
  BY <1>7, <1>8
<1> HIDE DEF h
<1> QED BY <1>5, <1>9, <1>10 DEF Carries, lines, part, st

LEMMA SomeCarry ==
  ASSUME NEW B, NEW batch, Batched(batch, B), Len(log) \in Nat,
         NEW kept \in SUBSET DOMAIN batch, NEW order, order = Ascending(kept),
         NEW lines, lines = [n \in DOMAIN order |-> Stamped(batch)[order[n]]]
  PROVE  Carries(lines, batch) /\ Whole(lines) = DOMAIN lines
<1>1. DOMAIN batch = 1 .. Len(batch) /\ Len(batch) \in Nat
  BY DEF Batched
<1>2. kept \in SUBSET Nat /\ IsFiniteSet(kept)
  BY <1>1, PlacesAreFinite
<1> DEFINE m == Cardinality(kept)
<1>3. /\ m \in Nat /\ order \in [1 .. m -> kept]
      /\ \A k, l \in 1 .. m : order[k] = order[l] => k = l
  BY <1>2, AscendingInOrder
<1> HIDE DEF m
<1>4. /\ DOMAIN lines = 1 .. m
      /\ \A k \in 1 .. m : lines[k] = Stamped(batch)[order[k]] /\ order[k] \in DOMAIN batch
  BY <1>3
<1>5. \A k \in 1 .. m : lines[k].kind \notin BrokenKind
  <2>1. \A n \in DOMAIN batch : Stamped(batch)[n].kind = batch[n].kind
    BY StampedRows DEF Batched
  <2> QED BY <1>4, <2>1 DEF Batched
<1>6. Whole(lines) = DOMAIN lines
  BY <1>4, <1>5 DEF Whole
<1>7. lines \in Seq(Elements(lines))
  <2>1. lines \in [1 .. m -> Elements(lines)]
    <3>1. lines = [k \in 1 .. m |-> lines[k]]
      BY <1>3
    <3> QED BY <1>4, <3>1 DEF Elements
  <2> QED BY <1>3, <2>1
<1>8. order \in [Whole(lines) -> DOMAIN batch]
  BY <1>3, <1>4, <1>6
<1>9. /\ \A k, l \in Whole(lines) : order[k] = order[l] => k = l
      /\ \A k \in Whole(lines) : lines[k] = Stamped(batch)[order[k]]
  <2>1. Whole(lines) = 1 .. m
    BY <1>4, <1>6
  <2>2. \A k, l \in Whole(lines) : order[k] = order[l] => k = l
    BY <1>3, <2>1, Zenon
  <2>3. \A k \in Whole(lines) : lines[k] = Stamped(batch)[order[k]]
    BY <1>4, <2>1, Zenon
  <2> QED BY <2>2, <2>3
<1> QED
  BY <1>6, <1>7, <1>8, <1>9 DEF Carries

\* What a ship does to the log of a store behind driver d: records of the batch are put
\* behind it, none twice; a torn line at its end may be glued to.
Grown(old, new, batch, d) ==
  /\ new \in Seq(Elements(new))
  /\ Len(old) <= Len(new)
  /\ \A i \in DOMAIN old :
       \/ new[i] = old[i]
       \/ d = "jsonl" /\ old[i].kind = "torn" /\ new[i] = Malformed
  /\ \A i \in DOMAIN new : i > Len(old) /\ i \notin Whole(new) => d = "jsonl" /\ new[i] = Torn
  /\ LET added == {i \in Whole(new) : i > Len(old)}
     IN \E f \in [added -> DOMAIN batch] :
          /\ \A i, j \in added : f[i] = f[j] => i = j
          /\ \A i \in added : new[i] = [batch[f[i]] EXCEPT !.ship = Len(old) + 1]

LEMMA AppendingGrows ==
  ASSUME NEW B, NEW batch, Batched(batch, B), log \in Seq(Elements(log)),
         NEW lines, Carries(lines, batch), NEW d, d = "jsonl" \/ Whole(lines) = DOMAIN lines
  PROVE  Grown(log, log \o lines, batch, d)
<1> DEFINE new == log \o lines
           L == Len(log)
           added == {i \in Whole(new) : i > L}
<1>1. PICK h \in [Whole(lines) -> DOMAIN batch] :
        /\ \A k, l \in Whole(lines) : h[k] = h[l] => k = l
        /\ \A k \in Whole(lines) : lines[k] = Stamped(batch)[h[k]]
  BY DEF Carries
<1> DEFINE f == [i \in added |-> h[i - L]]
<1>2. lines \in Seq(Elements(lines)) /\ L \in Nat /\ Len(lines) \in Nat
  BY DEF Carries
<1>3. /\ new \in Seq(Elements(new))
      /\ Len(new) = L + Len(lines)
      /\ DOMAIN new = 1 .. L + Len(lines)
      /\ \A i \in 1 .. L : new[i] = log[i]
      /\ \A i \in DOMAIN new : i > L => i - L \in 1 .. Len(lines) /\ new[i] = lines[i - L]
  BY <1>2, Concatenation
<1>4. DOMAIN lines = 1 .. Len(lines) /\ DOMAIN log = 1 .. L
  BY <1>2
<1> HIDE DEF new
<1>5. \A i \in DOMAIN new : i > L => (i \in Whole(new) <=> i - L \in Whole(lines))
  BY <1>3, <1>4 DEF Whole
<1>6. \A i \in DOMAIN new : i > L /\ i \notin Whole(new) => d = "jsonl" /\ new[i] = Torn
  BY <1>3, <1>4, <1>5 DEF Carries
<1>7. added \subseteq DOMAIN new /\ \A i \in added : i - L \in Whole(lines) /\ i \in Int
  BY <1>3, <1>5 DEF Whole
<1>8. f \in [added -> DOMAIN batch]
  BY <1>7
<1>9. \A i, j \in added : f[i] = f[j] => i = j
  <2> SUFFICES ASSUME NEW i \in added, NEW j \in added, f[i] = f[j] PROVE i = j
    OBVIOUS
  <2>1. h[i - L] = h[j - L]
    OBVIOUS
  <2>2. i - L = j - L
    BY <1>1, <1>7, <2>1
  <2> QED BY <1>2, <1>7, <2>2
<1>10. \A i \in added : new[i] = [batch[f[i]] EXCEPT !.ship = L + 1]
  <2> SUFFICES ASSUME NEW i \in added PROVE new[i] = [batch[f[i]] EXCEPT !.ship = L + 1]
    OBVIOUS
  <2>1. new[i] = Stamped(batch)[f[i]] /\ f[i] \in DOMAIN batch
    <3>1. new[i] = lines[i - L]
      BY <1>3, <1>7
    <3> QED BY <1>1, <1>7, <1>8, <3>1
  <2> HIDE DEF f
  <2> QED BY <2>1, StampedRows
<1> HIDE DEF f
<1>11. L <= Len(new)
  BY <1>2, <1>3
<1>12. \A i \in DOMAIN log : new[i] = log[i]
  BY <1>3, <1>4
<1> QED
  BY <1>3, <1>6, <1>8, <1>9, <1>10, <1>11, <1>12 DEF Grown, new

\* The first record shipped into a file that ends in a torn line is lost with it.
LEMMA GluingGrows ==
  ASSUME NEW B, NEW batch, Batched(batch, B), log \in Seq(Elements(log)),
         log # <<>>, log[Len(log)].kind = "torn",
         NEW lines, Carries(lines, batch), lines # <<>>
  PROVE  Grown(log, [log EXCEPT ![Len(log)] = Malformed] \o Tail(lines), batch, "jsonl")
<1> DEFINE L == Len(log)
           glued == [log EXCEPT ![L] = Malformed]
           rest == Tail(lines)
           new == glued \o rest
           added == {i \in Whole(new) : i > L}
<1>1. PICK h \in [Whole(lines) -> DOMAIN batch] :
        /\ \A k, l \in Whole(lines) : h[k] = h[l] => k = l
        /\ \A k \in Whole(lines) : lines[k] = Stamped(batch)[h[k]]
  BY DEF Carries
<1> DEFINE f == [i \in added |-> h[i - L + 1]]
<1>2. lines \in Seq(Elements(lines)) /\ L \in Nat \ {0} /\ Len(lines) \in Nat \ {0}
  BY DEF Carries
<1>3. DOMAIN lines = 1 .. Len(lines) /\ DOMAIN log = 1 .. L
  BY <1>2
<1>4. /\ rest \in Seq(Elements(lines)) /\ Len(rest) = Len(lines) - 1
      /\ \A k \in 1 .. Len(rest) : rest[k] = lines[k + 1]
  BY <1>2
<1>5. /\ glued \in Seq(Elements(log) \cup {Malformed}) /\ Len(glued) = L
      /\ \A i \in 1 .. L : glued[i] = IF i = L THEN Malformed ELSE log[i]
  <2> HIDE DEF Malformed
  <2> QED BY <1>2, <1>3
<1> HIDE DEF glued, rest
<1>6. /\ new \in Seq(Elements(new))
      /\ Len(new) = L + Len(rest)
      /\ DOMAIN new = 1 .. L + Len(rest)
      /\ \A i \in 1 .. L : new[i] = glued[i]
      /\ \A i \in DOMAIN new : i > L => i - L \in 1 .. Len(rest) /\ new[i] = rest[i - L]
  <2>1. /\ new \in Seq(Elements(new))
        /\ Len(new) = Len(glued) + Len(rest)
        /\ DOMAIN new = 1 .. Len(glued) + Len(rest)
        /\ \A i \in 1 .. Len(glued) : new[i] = glued[i]
        /\ \A i \in DOMAIN new :
             i > Len(glued) => i - Len(glued) \in 1 .. Len(rest) /\ new[i] = rest[i - Len(glued)]
    <3> DEFINE S == Elements(log) \cup {Malformed}
               T == Elements(lines)
    <3>1. glued \in Seq(S) /\ rest \in Seq(T)
      BY <1>4, <1>5
    <3> HIDE DEF S, T
    <3> QED BY <3>1, Concatenation
  <2> HIDE DEF new
  <2> QED BY <1>5, <2>1
<1> HIDE DEF new
<1>7. \A i \in DOMAIN new : i > L => i - L + 1 \in DOMAIN lines /\ new[i] = lines[i - L + 1]
  <2> SUFFICES ASSUME NEW i \in DOMAIN new, i > L
               PROVE  i - L + 1 \in DOMAIN lines /\ new[i] = lines[i - L + 1]
    OBVIOUS
  <2>1. i - L \in 1 .. Len(rest) /\ new[i] = rest[i - L]
    BY <1>6
  <2>2. new[i] = lines[i - L + 1]
    BY <1>4, <2>1
  <2>3. i - L + 1 \in 1 .. Len(lines)
    BY <1>2, <1>4, <2>1
  <2> QED BY <1>3, <2>2, <2>3
<1>8. \A i \in DOMAIN new : i > L => (i \in Whole(new) <=> i - L + 1 \in Whole(lines))
  BY <1>7 DEF Whole
<1>9. \A i \in DOMAIN new : i > L /\ i \notin Whole(new) => new[i] = Torn
  BY <1>7, <1>8 DEF Carries
<1>10. added \subseteq DOMAIN new /\ \A i \in added : i - L + 1 \in Whole(lines) /\ i \in Int
  BY <1>6, <1>8 DEF Whole
<1>11. f \in [added -> DOMAIN batch]
  BY <1>10
<1>12. \A i, j \in added : f[i] = f[j] => i = j
  <2> SUFFICES ASSUME NEW i \in added, NEW j \in added, f[i] = f[j] PROVE i = j
    OBVIOUS
  <2>1. h[i - L + 1] = h[j - L + 1]
    OBVIOUS
  <2>2. i - L + 1 = j - L + 1
    BY <1>1, <1>10, <2>1
  <2> QED BY <1>2, <1>10, <2>2
<1>13. \A i \in added : new[i] = [batch[f[i]] EXCEPT !.ship = L + 1]
  <2> SUFFICES ASSUME NEW i \in added PROVE new[i] = [batch[f[i]] EXCEPT !.ship = L + 1]
    OBVIOUS
  <2>1. new[i] = Stamped(batch)[f[i]] /\ f[i] \in DOMAIN batch
    <3>1. new[i] = lines[i - L + 1]
      BY <1>7, <1>10
    <3> QED BY <1>1, <1>10, <1>11, <3>1
  <2> HIDE DEF f
  <2> QED BY <1>2, <2>1, StampedRows
<1> HIDE DEF f
<1>14. \A i \in DOMAIN log : new[i] = log[i] \/ (log[i].kind = "torn" /\ new[i] = Malformed)
  BY <1>3, <1>5, <1>6
<1>15. L <= Len(new)
  BY <1>2, <1>4, <1>6
<1> QED
  BY <1>6, <1>9, <1>11, <1>12, <1>13, <1>14, <1>15 DEF Grown, new, glued, rest

LEMMA NothingGrows ==
  ASSUME NEW batch, log \in Seq(Elements(log)), NEW d
  PROVE  Grown(log, log, batch, d)
<1> DEFINE added == {i \in Whole(log) : i > Len(log)}
           f == [i \in {} |-> i]
<1>1. DOMAIN log = 1 .. Len(log) /\ Len(log) \in Nat
  OBVIOUS
<1>2. added = {}
  BY <1>1 DEF Whole
<1>3. f \in [added -> DOMAIN batch]
  BY <1>2
<1> HIDE DEF f
<1>4. \E g \in [added -> DOMAIN batch] :
        /\ \A i, j \in added : g[i] = g[j] => i = j
        /\ \A i \in added : log[i] = [batch[g[i]] EXCEPT !.ship = Len(log) + 1]
  BY <1>2, <1>3
<1>5. \A i \in DOMAIN log : ~ (i > Len(log))
  BY <1>1
<1>6. Len(log) <= Len(log)
  BY <1>1
<1> QED BY <1>4, <1>5, <1>6, Zenon DEF Grown

\* Appending to a file, glued to a torn line or not.
LEMMA AppendedGrows ==
  ASSUME NEW B, NEW batch, Batched(batch, B), log \in Seq(Elements(log)),
         NEW lines, Carries(lines, batch)
  PROVE  Grown(log, Appended(lines), batch, "jsonl")
<1>1. CASE log # <<>> /\ log[Len(log)].kind = "torn" /\ lines # <<>>
  <2>1. Appended(lines) = [log EXCEPT ![Len(log)] = Malformed] \o Tail(lines)
    BY <1>1 DEF Appended
  <2> QED BY <1>1, <2>1, GluingGrows
<1>2. CASE ~ (log # <<>> /\ log[Len(log)].kind = "torn" /\ lines # <<>>)
  <2>1. Appended(lines) = log \o lines
    BY <1>2 DEF Appended
  <2> QED BY <2>1, AppendingGrows
<1> QED BY <1>1, <1>2

LEMMA ShipGrows ==
  ASSUME NEW B, NEW batch, Batched(batch, B), NEW raised,
         log \in Seq(Elements(log)), Ship(batch, raised)
  PROVE  /\ Grown(log, log', batch, driver)
         /\ shown' = IF driver \in Local THEN DOMAIN log' ELSE shown
         /\ UNCHANGED <<driver, read, answer>>
<1> SUFFICES Grown(log, log', batch, driver)
  BY DEF Ship, readVars
<1>1. Len(log) \in Nat
  OBVIOUS
<1>2. /\ Carries(Stamped(batch), batch)
      /\ Whole(Stamped(batch)) = DOMAIN Stamped(batch)
  <2>1. \A n \in DOMAIN batch : Stamped(batch)[n].kind = batch[n].kind
    BY <1>1, StampedRows DEF Batched
  <2>2. DOMAIN Stamped(batch) = DOMAIN batch
    BY DEF Stamped
  <2>3. Whole(Stamped(batch)) = DOMAIN Stamped(batch)
    BY <2>1, <2>2 DEF Whole, Batched
  <2> QED BY <1>1, <2>3, WholeBatchCarries
<1>3. \A d : Grown(log, log \o Stamped(batch), batch, d) /\ Grown(log, log, batch, d)
  BY <1>2, AppendingGrows, NothingGrows
<1>4. CASE ShipMemory(batch, raised)
  BY <1>3, <1>4 DEF ShipMemory
<1>5. CASE ShipJsonl(batch, raised)
  <2>1. CASE log' = Appended(Stamped(batch))
    BY <1>2, <1>5, <2>1, AppendedGrows DEF ShipJsonl
  <2>2. CASE \E n \in 0 .. Len(batch) - 1, torn \in {<<>>, <<Torn>>} :
                log' = Appended(SubSeq(Stamped(batch), 1, n) \o torn)
    <3>1. PICK n \in 0 .. Len(batch) - 1, torn \in {<<>>, <<Torn>>} :
                log' = Appended(SubSeq(Stamped(batch), 1, n) \o torn)
      BY <2>2
    <3>2. Carries(SubSeq(Stamped(batch), 1, n) \o torn, batch)
      BY <1>1, PartCarries
    <3> QED BY <1>5, <3>1, <3>2, AppendedGrows DEF ShipJsonl
  <2> QED BY <1>5, <2>1, <2>2 DEF ShipJsonl
<1>6. CASE ShipNetwork(batch, raised)
  <2>1. PICK kept \in SUBSET DOMAIN batch :
          LET order == Ascending(kept)
          IN  log' = log \o [n \in DOMAIN order |-> Stamped(batch)[order[n]]]
    BY <1>6 DEF ShipNetwork
  <2> DEFINE order == Ascending(kept)
             lines == [n \in DOMAIN order |-> Stamped(batch)[order[n]]]
  <2>2. log' = log \o lines
    BY <2>1
  <2>3. Carries(lines, batch) /\ Whole(lines) = DOMAIN lines
    BY <1>1, SomeCarry
  <2> HIDE DEF lines
  <2>4. Grown(log, log \o lines, batch, driver)
    BY <2>3, AppendingGrows
  <2> QED BY <2>2, <2>4
<1>7. CASE ShipOtel(batch, raised)
  BY <1>3, <1>7 DEF ShipOtel
<1> QED BY <1>4, <1>5, <1>6, <1>7 DEF Ship

-----------------------------------------------------------------------------
(* The store and its reader.                                               *)

LEMMA ShownAreRows ==
  ASSUME StoreKept
  PROVE  /\ Len(log) \in Nat /\ DOMAIN log = 1 .. Len(log)
         /\ shown \subseteq 1 .. Len(log)
         /\ shown \in SUBSET Nat /\ IsFiniteSet(shown) /\ Cardinality(shown) \in Nat
         /\ \A i \in DOMAIN log : driver # "jsonl" => log[i].kind \notin BrokenKind
<1>1. Len(log) \in Nat /\ DOMAIN log = 1 .. Len(log) /\ shown \subseteq 1 .. Len(log)
  BY DEF StoreKept
<1>2. shown \in SUBSET Nat /\ IsFiniteSet(shown) /\ Cardinality(shown) \in Nat
  BY <1>1, PlacesAreFinite
<1> QED BY <1>1, <1>2 DEF StoreKept, RowKept

LEMMA ShipKeepsStore ==
  ASSUME NEW B, NEW batch, Batched(batch, B), NEW raised, StoreKept, Ship(batch, raised)
  PROVE  StoreKept'
<1>1. /\ Grown(log, log', batch, driver)
      /\ shown' = IF driver \in Local THEN DOMAIN log' ELSE shown
      /\ driver' = driver
  BY ShipGrows DEF StoreKept
<1>2. /\ log' \in Seq(Elements(log)') /\ Len(log) <= Len(log')
  BY <1>1 DEF Grown, Elements
<1>3. /\ Len(log) \in Nat /\ DOMAIN log = 1 .. Len(log)
      /\ Len(log') \in Nat /\ DOMAIN log' = 1 .. Len(log')
  BY <1>2 DEF StoreKept
<1>4. ASSUME NEW i \in DOMAIN log' PROVE RowKept(log'[i], driver)
  <2>1. CASE i \in DOMAIN log
    <3>1. CASE log'[i] = log[i]
      BY <2>1, <3>1 DEF StoreKept
    <3>2. CASE driver = "jsonl" /\ log'[i] = Malformed
      BY <3>2 DEF RowKept, Malformed
    <3> QED BY <1>1, <2>1, <3>1, <3>2 DEF Grown
  <2>2. CASE i \notin DOMAIN log
    <3>0. i > Len(log)
      BY <1>3, <2>2
    <3>1. CASE i \notin Whole(log')
      BY <1>1, <3>0, <3>1 DEF Grown, RowKept, Torn
    <3>2. CASE i \in Whole(log')
      <4>1. PICK n \in DOMAIN batch : log'[i] = [batch[n] EXCEPT !.ship = Len(log) + 1]
        BY <1>1, <3>0, <3>2 DEF Grown
      <4>2. log'[i].ship = Len(log) + 1 /\ log'[i].kind = batch[n].kind
        BY <4>1 DEF Batched
      <4> QED BY <1>3, <4>2 DEF RowKept, Batched
    <3> QED BY <3>1, <3>2
  <2> QED BY <2>1, <2>2
<1>5. shown' \subseteq DOMAIN log'
  BY <1>1, <1>2, <1>3 DEF StoreKept
<1> QED BY <1>1, <1>2, <1>4, <1>5 DEF StoreKept

LEMMA IndexKeepsStore ==
  ASSUME StoreKept, Index
  PROVE  StoreKept' /\ shown \subseteq shown'
<1>1. PICK i \in DOMAIN log \ shown : shown' = shown \cup {i}
  BY DEF Index
<1>2. driver \in Network /\ UNCHANGED <<driver, log>>
  BY DEF Index, store
<1>3. driver \notin Local
  BY <1>2 DEF Network, Local
<1>4. shown' \subseteq DOMAIN log'
  BY <1>1, <1>2 DEF StoreKept
<1>5. Elements(log)' = Elements(log)
  BY <1>2 DEF Elements
<1> QED BY <1>1, <1>2, <1>3, <1>4, <1>5 DEF StoreKept

\* More rows shown: none stands before fewer rows than it did.
LEMMA MoreShown ==
  ASSUME StoreKept, NEW more, shown \subseteq more, more \subseteq DOMAIN log
  PROVE  /\ Cardinality(shown) <= Cardinality(more) /\ Cardinality(more) \in Nat
         /\ \A order, i :
              /\ Cardinality(Prior(shown, order, i)) <= Cardinality(Prior(more, order, i))
              /\ Cardinality(Prior(shown, order, i)) \in Nat
              /\ Cardinality(Prior(more, order, i)) \in Nat
<1>1. Len(log) \in Nat /\ more \subseteq 1 .. Len(log)
  BY ShownAreRows
<1>2. IsFiniteSet(more) /\ Cardinality(more) \in Nat
  BY <1>1, PlacesAreFinite
<1>3. Cardinality(shown) <= Cardinality(more)
  BY <1>2, FS_Subset
<1>4. ASSUME NEW order, NEW i
      PROVE  /\ Cardinality(Prior(shown, order, i)) <= Cardinality(Prior(more, order, i))
             /\ Cardinality(Prior(shown, order, i)) \in Nat
             /\ Cardinality(Prior(more, order, i)) \in Nat
  <2>1. /\ Prior(shown, order, i) \subseteq Prior(more, order, i)
        /\ Prior(more, order, i) \subseteq more
    BY DEF Prior
  <2>2. IsFiniteSet(Prior(more, order, i))
    BY <1>2, <2>1, FS_Subset
  <2>3. /\ IsFiniteSet(Prior(shown, order, i))
        /\ Cardinality(Prior(shown, order, i)) <= Cardinality(Prior(more, order, i))
    BY <2>1, <2>2, FS_Subset
  <2> QED BY <2>2, <2>3, FS_CardinalityType
<1> QED BY <1>2, <1>3, <1>4

LEMMA IndexKeepsReader ==
  ASSUME StoreKept, ReadKept, AnswerKept, Index
  PROVE  ReadKept' /\ AnswerKept'
<1>1. /\ UNCHANGED <<driver, log, read, answer>>
      /\ shown \subseteq shown' /\ shown' \subseteq DOMAIN log
  BY IndexKeepsStore DEF Index, store, readVars, StoreKept
<1>2. /\ Cardinality(shown) <= Cardinality(shown') /\ Cardinality(shown') \in Nat
      /\ Cardinality(shown) \in Nat
      /\ \A order, i :
           /\ Cardinality(Prior(shown, order, i)) <= Cardinality(Prior(shown', order, i))
           /\ Cardinality(Prior(shown, order, i)) \in Nat
           /\ Cardinality(Prior(shown', order, i)) \in Nat
  BY <1>1, MoreShown, ShownAreRows
<1>3. ReadKept'
  <2> SUFFICES ASSUME read # None PROVE ReadKept'
    BY <1>1 DEF ReadKept
  <2>1. read \in ReadsOf(shown')
    <3>1. read.events \in Seq(shown') /\ read.before \in SUBSET shown'
      BY <1>1 DEF ReadKept, ReadsOf
    <3> QED BY <3>1 DEF ReadKept, ReadsOf
  <2>2. ~ read.mixed =>
          \A i \in read.before :
            \/ i \in Elements(read.events)
            \/ read.offset <= Cardinality(Prior(shown', read.order, i))
    <3> SUFFICES ASSUME ~ read.mixed, NEW i \in read.before, i \notin Elements(read.events)
                 PROVE  read.offset <= Cardinality(Prior(shown', read.order, i))
      OBVIOUS
    <3>1. read.offset <= Cardinality(Prior(shown, read.order, i)) /\ read.offset \in Nat
      BY DEF ReadKept, ReadsOf
    <3> QED BY <1>2, <3>1
  <2>3. read.offset <= Cardinality(shown')
    <3>1. read.offset <= Cardinality(shown) /\ read.offset \in Nat
      BY DEF ReadKept, ReadsOf
    <3> QED BY <1>2, <3>1
  <2> QED BY <1>1, <2>1, <2>2, <2>3 DEF ReadKept, Elements, Orders
<1>4. ASSUME answer # None
      PROVE  answer.events \in Seq(shown') /\ answer.before \subseteq shown'
  BY <1>1, <1>4 DEF AnswerKept
<1>5. CompleteMissesNothing'
  BY <1>1 DEF AnswerKept, CompleteIsExact, CompleteMissesNothing, Elements
<1>6. FullReadIsComplete'
  <2>1. Broken' = Broken /\ Queryable' = Queryable
    BY <1>1 DEF Broken, Queryable
  <2>2. WalkRows \in Nat /\ MaxRows \in Nat
    BY PageAssumption
  <2>3. \A c \in Nat : Cardinality(shown') < c => Cardinality(shown) < c
    BY <1>2
  <2> QED BY <1>1, <2>1, <2>2, <2>3 DEF AnswerKept, CompleteIsExact, FullReadIsComplete
<1> QED BY <1>1, <1>3, <1>4, <1>5, <1>6 DEF AnswerKept, CompleteIsExact

\* With no read under way and no answer there is nothing to keep.
LEMMA NoReader ==
  ASSUME read' = None, answer' = None
  PROVE  ReadKept' /\ AnswerKept'
BY DEF ReadKept, AnswerKept, CompleteIsExact, CompleteMissesNothing, FullReadIsComplete

LEMMA FlushedIsShown ==
  ASSUME StoreKept, NEW flushed \in Flushed \cup {shown}
  PROVE  /\ shown \subseteq flushed /\ flushed \subseteq DOMAIN log
         /\ driver \in Local => flushed = shown
BY DEF StoreKept, Flushed, Local

LEMMA BeginKeeps ==
  ASSUME StoreKept, NEW paged \in BOOLEAN, NEW flushed \in Flushed \cup {shown},
         BeginRead(paged, flushed)
  PROVE  StoreKept' /\ ReadKept' /\ AnswerKept'
<1>1. /\ shown \subseteq flushed /\ flushed \subseteq DOMAIN log
      /\ driver \in Local => flushed = shown
  BY FlushedIsShown
<1>2. PICK order \in Orders :
        /\ shown' = flushed /\ UNCHANGED <<driver, log>> /\ answer' = None
        /\ read' = [paged |-> paged, offset |-> 0, events |-> <<>>, before |-> flushed,
                    order |-> order, mixed |-> FALSE]
  BY DEF BeginRead, store
<1>3. StoreKept'
  BY <1>1, <1>2 DEF StoreKept, Elements
<1>4. AnswerKept'
  BY <1>2 DEF AnswerKept, CompleteIsExact, CompleteMissesNothing, FullReadIsComplete
<1>5. /\ Cardinality(flushed) \in Nat
      /\ \A i : Cardinality(Prior(flushed, order, i)) \in Nat
  BY <1>1, MoreShown
<1>6. ReadKept'
  <2>1. read' \in ReadsOf(flushed)
    BY <1>2 DEF Orders, ReadsOf
  <2>2. 0 < Cap(paged)
    BY PageAssumption DEF Cap
  <2>3. Len(<<>>) = 0
    OBVIOUS
  <2>4. /\ read'.offset = 0 /\ read'.events = <<>> /\ read'.paged = paged
        /\ read'.before = flushed /\ read'.order = order
    BY <1>2
  <2>5. 0 <= Cardinality(flushed) /\ \A i : 0 <= Cardinality(Prior(flushed, order, i))
    BY <1>5
  <2>6. order \in Orders'
    BY <1>2 DEF Orders
  <2> QED BY <1>2, <2>1, <2>2, <2>3, <2>4, <2>5, <2>6 DEF ReadKept, Cap
<1> QED BY <1>3, <1>4, <1>6

-----------------------------------------------------------------------------
(* Answers.                                                                *)

\* What an answer must be for the invariant to hold of it.
Sound(clean, reachable, complete, events) ==
  /\ events \in Seq(shown)
  /\ \A n \in DOMAIN events : log[events[n]].kind \notin BrokenKind
  /\ complete /\ reachable =>
       /\ Len(events) >= Cardinality(read.before)
       /\ ~ read.mixed => read.before \subseteq Elements(events)
  /\ /\ clean /\ Queryable /\ Broken = {}
     /\ ~ (read.paged /\ driver = "victorialogs")
     /\ Cardinality(shown) < Cap(read.paged)
     => reachable /\ complete

\* A read under way began with no more rows than the store shows now.
LEMMA NoFewerShown ==
  ASSUME StoreKept, ReadKept, read # None
  PROVE  /\ read.before \subseteq shown /\ read.order \in {"oldest", "newest"}
         /\ Cardinality(read.before) \in Nat /\ Cardinality(shown) \in Nat
         /\ Cardinality(read.before) <= Cardinality(shown)
<1>1. read.before \subseteq shown /\ read.order \in {"oldest", "newest"}
  BY DEF ReadKept, ReadsOf
<1>2. IsFiniteSet(shown) /\ Cardinality(shown) \in Nat
  BY ShownAreRows
<1>3. IsFiniteSet(read.before) /\ Cardinality(read.before) <= Cardinality(shown)
  BY <1>1, <1>2, FS_Subset
<1> QED BY <1>1, <1>2, <1>3, FS_CardinalityType

LEMMA ReturnKeeps ==
  ASSUME StoreKept, ReadKept, read # None, UNCHANGED <<store, shown>>,
         NEW clean, NEW reachable, NEW complete, NEW events,
         Returns(clean, reachable, complete, events),
         Sound(clean, reachable, complete, events)
  PROVE  ReadKept' /\ AnswerKept'
<1>1. /\ read' = None
      /\ answer' = [raised |-> FALSE, clean |-> clean, reachable |-> reachable,
                    complete |-> complete, events |-> events,
                    paged |-> read.paged, before |-> read.before, mixed |-> read.mixed]
      /\ UNCHANGED <<driver, log, shown>>
  BY DEF Returns, store
<1>2. /\ answer'.clean = clean /\ answer'.reachable = reachable /\ answer'.complete = complete
      /\ answer'.events = events /\ answer'.paged = read.paged /\ answer'.before = read.before
      /\ answer'.mixed = read.mixed
  BY <1>1
<1>3. read.before \subseteq shown
  BY DEF ReadKept, ReadsOf
<1>4. CompleteMissesNothing'
  BY <1>2 DEF CompleteMissesNothing, Sound, Elements
<1>5. FullReadIsComplete'
  BY <1>1, <1>2 DEF FullReadIsComplete, Sound, Cap, Broken, Queryable
<1> QED BY <1>1, <1>2, <1>3, <1>4, <1>5 DEF ReadKept, AnswerKept, CompleteIsExact, Sound

LEMMA RaiseKeeps ==
  ASSUME StoreKept, ReadKept, read # None, UNCHANGED <<store, shown>>, Raise
  PROVE  ReadKept' /\ AnswerKept'
<1>1. /\ read' = None
      /\ answer' = [raised |-> TRUE, clean |-> FALSE, reachable |-> FALSE,
                    complete |-> FALSE, events |-> <<>>,
                    paged |-> read.paged, before |-> read.before, mixed |-> read.mixed]
      /\ UNCHANGED <<driver, log, shown>>
  BY DEF Raise, store
<1>2. /\ answer'.clean = FALSE /\ answer'.reachable = FALSE /\ answer'.complete = FALSE
      /\ answer'.events = <<>> /\ answer'.before = read.before
  BY <1>1
<1>3. read.before \subseteq shown /\ <<>> \in Seq(shown) /\ DOMAIN <<>> = {}
  BY DEF ReadKept, ReadsOf
<1> QED
  BY <1>1, <1>2, <1>3
  DEF ReadKept, AnswerKept, CompleteIsExact, CompleteMissesNothing, FullReadIsComplete

\* One page more: while the pages come in one order, a row that was shown from the
\* beginning is in hand, or still ahead.
LEMMA PageFollows ==
  ASSUME StoreKept, ReadKept, read # None, NEW size \in Nat,
         NEW hits, hits = Take(Rows, read.offset, size)
  PROVE  /\ hits \in Seq(shown) /\ Len(hits) \in 0 .. size
         /\ read.offset \in Nat /\ Cardinality(shown) \in Nat
         /\ read.offset + Len(hits) <= Cardinality(shown)
         /\ Len(hits) < size => read.offset + Len(hits) = Cardinality(shown)
         /\ read.events \o hits \in Seq(shown)
         /\ Len(read.events \o hits) = read.offset + Len(hits)
         /\ ~ read.mixed =>
              \A i \in read.before :
                \/ i \in Elements(read.events \o hits)
                \/ read.offset + Len(hits) <= Cardinality(Prior(shown, read.order, i))
         /\ Len(hits) < size =>
              /\ Len(read.events \o hits) >= Cardinality(read.before)
              /\ ~ read.mixed => read.before \subseteq Elements(read.events \o hits)
<1> DEFINE o == read.offset
           n == Cardinality(shown)
           C(i) == Cardinality(Prior(shown, read.order, i))
           events == read.events \o hits
<1>1. /\ Rows \in Seq(shown) /\ n \in Nat /\ Len(Rows) = n
      /\ \A i \in shown : C(i) \in 0 .. n - 1 /\ Rows[C(i) + 1] = i
  BY ShownAreRows, RowsInOrder, NoFewerShown
<1>2. /\ o \in Nat /\ o <= n /\ read.events \in Seq(shown) /\ Len(read.events) = o
      /\ read.before \subseteq shown
      /\ ~ read.mixed => \A i \in read.before : i \in Elements(read.events) \/ o <= C(i)
  BY DEF ReadKept, ReadsOf
<1> HIDE DEF C
<1>3. /\ hits \in Seq(shown)
      /\ Len(hits) = IF o + size <= n THEN size ELSE n - o
      /\ \A k \in 1 .. Len(hits) : hits[k] = Rows[o + k]
  <2>1. o \in 0 .. Len(Rows)
    BY <1>1, <1>2
  <2>2. /\ hits \in Seq(shown)
        /\ Len(hits) = IF o + size <= Len(Rows) THEN size ELSE Len(Rows) - o
        /\ \A k \in 1 .. Len(hits) : hits[k] = Rows[o + k]
    <3>1. hits = Take(Rows, o, size)
      OBVIOUS
    <3>2. Rows \in Seq(shown)
      BY <1>1
    <3> HIDE DEF o
    <3>3. /\ Take(Rows, o, size) \in Seq(shown)
          /\ Len(Take(Rows, o, size)) = IF o + size <= Len(Rows) THEN size ELSE Len(Rows) - o
          /\ \A k \in 1 .. Len(Take(Rows, o, size)) : Take(Rows, o, size)[k] = Rows[o + k]
      BY <2>1, <3>2, TakeIsAPage
    <3> QED BY <3>1, <3>3
  <2> QED BY <1>1, <2>2
<1>4. /\ Len(hits) \in 0 .. size /\ o + Len(hits) <= n
      /\ Len(hits) < size => o + Len(hits) = n
  BY <1>1, <1>2, <1>3
<1>5. /\ events \in Seq(shown) /\ Len(events) = o + Len(hits)
      /\ DOMAIN events = 1 .. o + Len(hits)
      /\ \A k \in 1 .. o : events[k] = read.events[k]
      /\ \A k \in 1 .. Len(hits) : events[o + k] = hits[k]
  <2>1. events \in Seq(shown)
    BY <1>2, <1>3
  <2>2. /\ Len(events) = Len(read.events) + Len(hits)
        /\ DOMAIN events = 1 .. Len(read.events) + Len(hits)
        /\ \A k \in 1 .. Len(read.events) : events[k] = read.events[k]
        /\ \A k \in 1 .. Len(hits) : events[Len(read.events) + k] = hits[k]
    <3> DEFINE a == read.events
               S == shown
    <3>1. a \in Seq(S) /\ hits \in Seq(S)
      BY <1>2, <1>3
    <3> HIDE DEF a, S
    <3>2. /\ Len(a \o hits) = Len(a) + Len(hits)
          /\ DOMAIN (a \o hits) = 1 .. Len(a) + Len(hits)
          /\ \A k \in 1 .. Len(a) : (a \o hits)[k] = a[k]
          /\ \A k \in 1 .. Len(hits) : (a \o hits)[Len(a) + k] = hits[k]
      BY <3>1, Concatenation
    <3> QED BY <3>2 DEF a
  <2> HIDE DEF events
  <2> QED BY <1>2, <2>1, <2>2
<1> HIDE DEF events
<1>6. ASSUME ~ read.mixed, NEW i \in read.before
      PROVE  i \in Elements(events) \/ o + Len(hits) <= C(i)
  <2>1. CASE i \in Elements(read.events)
    <3>1. PICK k \in 1 .. o : read.events[k] = i
      BY <1>2, <2>1 DEF Elements
    <3>2. k \in DOMAIN events /\ events[k] = i
      BY <1>2, <1>4, <1>5, <3>1
    <3> QED BY <3>2 DEF Elements
  <2>2. CASE o <= C(i) /\ C(i) < o + Len(hits)
    <3>1. i \in shown /\ C(i) \in 0 .. n - 1 /\ Rows[C(i) + 1] = i
      BY <1>1, <1>2
    <3>0. o \in Nat /\ n \in Nat /\ C(i) \in Nat /\ Len(hits) \in Nat
      BY <1>1, <1>2, <1>4, <3>1
    <3>2. C(i) + 1 - o \in 1 .. Len(hits) /\ o + (C(i) + 1 - o) = C(i) + 1
      BY <2>2, <3>0
    <3>3. events[C(i) + 1] = i
      BY <1>3, <1>5, <3>1, <3>2
    <3>4. C(i) + 1 \in DOMAIN events
      BY <1>5, <2>2, <3>0
    <3> QED BY <3>3, <3>4 DEF Elements
  <2>3. C(i) \in Int /\ o + Len(hits) \in Int
    BY <1>1, <1>2, <1>4
  <2> QED BY <1>2, <1>6, <2>1, <2>2, <2>3
<1>7. ASSUME ~ read.mixed, Len(hits) < size, NEW i \in read.before
      PROVE  i \in Elements(events)
  <2>1. o + Len(hits) = n
    BY <1>4, <1>7
  <2>2. C(i) \in 0 .. n - 1
    BY <1>1, <1>2
  <2>3. ~ (n <= C(i))
    BY <1>1, <2>2
  <2> QED BY <1>6, <1>7, <2>1, <2>3
<1>8. Len(hits) < size => Len(events) >= Cardinality(read.before)
  <2>1. Cardinality(read.before) \in Nat /\ Cardinality(read.before) <= n
    BY NoFewerShown
  <2> QED BY <1>4, <1>5, <2>1
<1> QED BY <1>1, <1>2, <1>3, <1>4, <1>5, <1>6, <1>7, <1>8 DEF C, events

\* The whole answer holds every row shown.
LEMMA RowsAreShown ==
  ASSUME StoreKept, ReadKept, read # None
  PROVE  Rows \in Seq(shown) /\ Len(Rows) = Cardinality(shown) /\ Elements(Rows) = shown
<1>1. /\ Rows \in Seq(shown) /\ Cardinality(shown) \in Nat /\ Len(Rows) = Cardinality(shown)
      /\ \A i \in shown :
           /\ Cardinality(Prior(shown, read.order, i)) \in 0 .. Cardinality(shown) - 1
           /\ Rows[Cardinality(Prior(shown, read.order, i)) + 1] = i
  BY ShownAreRows, RowsInOrder, NoFewerShown
<1>2. ASSUME NEW i \in shown PROVE i \in Elements(Rows)
  <2>1. Cardinality(Prior(shown, read.order, i)) + 1 \in 1 .. Len(Rows)
    BY <1>1
  <2>2. Cardinality(Prior(shown, read.order, i)) + 1 \in DOMAIN Rows
    BY <1>1, <2>1
  <2> QED BY <1>1, <2>2 DEF Elements
<1>3. \A i \in Elements(Rows) : i \in shown
  BY <1>1 DEF Elements
<1> QED BY <1>1, <1>2, <1>3

\* Of rows none of which is broken, no page is.
LEMMA NotBroken ==
  ASSUME StoreKept, driver # "jsonl" \/ Broken = {}, NEW events \in Seq(shown)
  PROVE  \A n \in DOMAIN events : log[events[n]].kind \notin BrokenKind
BY ShownAreRows DEF Broken, BrokenKind

\* A file is read in the order of its lines.
LEMMA FileInOrder ==
  ASSUME StoreKept, ReadKept, read # None, driver = "jsonl"
  PROVE  Len(Rows) = Len(log) /\ \A k \in 1 .. Len(log) : Rows[k] = k
<1>1. /\ shown = 1 .. Len(log) /\ read.order = "oldest" /\ Len(log) \in Nat
  BY ShownAreRows DEF StoreKept, ReadKept, Orders, Local, Network
<1>2. /\ \A i \in shown : Rows[Cardinality(Prior(shown, read.order, i)) + 1] = i
      /\ Len(Rows) = Cardinality(shown)
  BY <1>1, RowsInOrder
<1>3. ASSUME NEW k \in 1 .. Len(log) PROVE Rows[k] = k
  <2>1. Prior(shown, read.order, k) = 1 .. k - 1
    BY <1>1 DEF Prior
  <2>2. 1 \in Int /\ k - 1 \in Int /\ k >= 1
    BY <1>1
  <2>3. Cardinality(1 .. k - 1) = IF 1 > k - 1 THEN 0 ELSE k - 1 - 1 + 1
    BY <2>2, FS_Interval
  <2>4. Cardinality(Prior(shown, read.order, k)) + 1 = k
    BY <2>1, <2>2, <2>3
  <2> QED BY <1>1, <1>2, <2>4
<1>4. Len(Rows) = Len(log)
  <2>1. 1 \in Int /\ Len(log) \in Int
    BY <1>1
  <2>2. Cardinality(1 .. Len(log)) = IF 1 > Len(log) THEN 0 ELSE Len(log) - 1 + 1
    BY <2>1, FS_Interval
  <2> QED BY <1>1, <1>2, <2>2
<1> QED BY <1>3, <1>4

LEMMA MemoryKeeps ==
  ASSUME StoreKept, ReadKept, read # None, UNCHANGED <<store, shown>>, QueryMemory
  PROVE  ReadKept' /\ AnswerKept'
<1>1. driver # "jsonl" /\ Returns(TRUE, TRUE, TRUE, Rows)
  BY DEF QueryMemory, Result
<1>2. Sound(TRUE, TRUE, TRUE, Rows)
  <2>1. Rows \in Seq(shown) /\ Len(Rows) = Cardinality(shown) /\ Elements(Rows) = shown
    BY RowsAreShown
  <2> QED BY <1>1, <2>1, NoFewerShown, NotBroken DEF Sound
<1> QED BY <1>1, <1>2, ReturnKeeps

LEMMA JsonlKeeps ==
  ASSUME StoreKept, ReadKept, read # None, UNCHANGED <<store, shown>>, QueryJsonl \/ FileFails
  PROVE  ReadKept' /\ AnswerKept'
<1>0. /\ Cardinality(read.before) <= Cardinality(shown) /\ read.before \subseteq shown
      /\ Cardinality(read.before) \in Nat /\ Cardinality(shown) \in Nat
  BY NoFewerShown
<1>1. CASE Broken = {} /\ Returns(TRUE, TRUE, TRUE, Rows)
  <2>1. Sound(TRUE, TRUE, TRUE, Rows)
    BY <1>0, <1>1, RowsAreShown, NotBroken DEF Sound
  <2> QED BY <1>1, <2>1, ReturnKeeps
<1>2. CASE driver = "jsonl" /\ \E first \in Broken :
              /\ \A i \in Broken : first <= i
              /\ Returns(TRUE, TRUE, FALSE, Take(Rows, 0, first - 1))
  <2>1. PICK first \in Broken :
              /\ \A i \in Broken : first <= i
              /\ Returns(TRUE, TRUE, FALSE, Take(Rows, 0, first - 1))
    BY <1>2
  <2> DEFINE events == Take(Rows, 0, first - 1)
  <2>2. first \in 1 .. Len(log) /\ Len(log) \in Nat
    BY ShownAreRows DEF Broken
  <2>3. Rows \in Seq(shown) /\ Len(Rows) = Len(log) /\ \A k \in 1 .. Len(log) : Rows[k] = k
    BY <1>2, RowsAreShown, FileInOrder
  <2>4. 0 \in 0 .. Len(Rows) /\ first - 1 \in Nat /\ Rows \in Seq(shown)
    BY <2>2, <2>3
  <2>5. /\ events \in Seq(shown)
        /\ Len(events) = IF 0 + (first - 1) <= Len(Rows) THEN first - 1 ELSE Len(Rows) - 0
        /\ \A k \in 1 .. Len(events) : events[k] = Rows[0 + k]
    BY <2>4, TakeIsAPage
  <2> HIDE DEF events
  <2>6. DOMAIN events = 1 .. first - 1
    BY <2>2, <2>3, <2>5
  <2>7. ASSUME NEW n \in DOMAIN events PROVE log[events[n]].kind \notin BrokenKind
    <3>1. n \in 1 .. first - 1 /\ n \in 1 .. Len(log) /\ n \in 1 .. Len(events)
      BY <2>2, <2>3, <2>5, <2>6
    <3>2. events[n] = n
      BY <2>3, <2>5, <3>1
    <3>3. n \notin Broken
      BY <2>1, <2>2, <3>1
    <3> QED BY <3>1, <3>2, <3>3, ShownAreRows DEF Broken, BrokenKind
  <2>8. Sound(TRUE, TRUE, FALSE, events)
    BY <2>1, <2>5, <2>7 DEF Sound
  <2> QED BY <2>1, <2>8, ReturnKeeps DEF events
<1>3. CASE Broken # {} /\ Returns(TRUE, TRUE, FALSE, <<>>)
  <2>1. Sound(TRUE, TRUE, FALSE, <<>>)
    BY <1>3 DEF Sound
  <2> QED BY <1>3, <2>1, ReturnKeeps
<1>4. CASE Returns(FALSE, FALSE, FALSE, <<>>)
  <2>1. Sound(FALSE, FALSE, FALSE, <<>>)
    BY DEF Sound
  <2> QED BY <1>4, <2>1, ReturnKeeps
<1> QED BY <1>1, <1>2, <1>3, <1>4 DEF QueryJsonl, FileFails, Result, Faulty

LEMMA OtelKeeps ==
  ASSUME StoreKept, ReadKept, read # None, UNCHANGED <<store, shown>>, QueryOtel
  PROVE  ReadKept' /\ AnswerKept'
<1>1. Returns(TRUE, FALSE, TRUE, <<>>) /\ ~ Queryable
  BY DEF QueryOtel, Result, Queryable
<1>2. Sound(TRUE, FALSE, TRUE, <<>>)
  BY <1>1 DEF Sound
<1> QED BY <1>1, <1>2, ReturnKeeps

\* The first rows of an answer, and the first of these.
LEMMA FirstRows ==
  ASSUME StoreKept, ReadKept, read # None, NEW size \in Nat, NEW rows, rows = Take(Rows, 0, size)
  PROVE  /\ rows \in Seq(shown) /\ Len(rows) \in Nat
         /\ Cardinality(shown) \in Nat
         /\ Len(rows) = IF size <= Cardinality(shown) THEN size ELSE Cardinality(shown)
         /\ Len(rows) = Cardinality(shown) => Elements(rows) = shown
<1>1. Rows \in Seq(shown)
  BY RowsAreShown
<1>2. Len(Rows) = Cardinality(shown) /\ Cardinality(shown) \in Nat /\ Elements(Rows) = shown
  BY RowsAreShown, ShownAreRows
<1>3. 0 \in 0 .. Len(Rows)
  BY <1>2
<1>4. /\ Take(Rows, 0, size) \in Seq(shown)
      /\ Len(Take(Rows, 0, size)) = IF 0 + size <= Len(Rows) THEN size ELSE Len(Rows) - 0
      /\ \A k \in 1 .. Len(Take(Rows, 0, size)) : Take(Rows, 0, size)[k] = Rows[0 + k]
  BY <1>1, <1>3, TakeIsAPage
<1>5. ASSUME Len(rows) = Cardinality(shown) PROVE Elements(rows) = shown
  <2>1. /\ DOMAIN rows = DOMAIN Rows
        /\ \A k \in DOMAIN Rows : rows[k] = Rows[k]
    BY <1>1, <1>2, <1>4, <1>5
  <2> QED BY <1>2, <2>1 DEF Elements
<1> QED BY <1>2, <1>4, <1>5

\* A page cut once more.
LEMMA CutAgain ==
  ASSUME StoreKept, NEW S, NEW rows \in Seq(S), NEW size \in Nat, NEW cut, cut = Take(rows, 0, size)
  PROVE  /\ cut \in Seq(S)
         /\ Len(cut) = IF size <= Len(rows) THEN size ELSE Len(rows)
         /\ Len(rows) <= size => cut = rows
<1>1. Len(rows) \in Nat /\ 0 \in 0 .. Len(rows)
  OBVIOUS
<1>2. /\ Take(rows, 0, size) \in Seq(S)
      /\ Len(Take(rows, 0, size)) = IF 0 + size <= Len(rows) THEN size ELSE Len(rows) - 0
      /\ \A k \in 1 .. Len(Take(rows, 0, size)) : Take(rows, 0, size)[k] = rows[0 + k]
  BY <1>1, TakeIsAPage
<1>3. Len(cut) = IF size <= Len(rows) THEN size ELSE Len(rows)
  BY <1>1, <1>2
<1>4. ASSUME Len(rows) <= size PROVE cut = rows
  <2>1. Len(cut) = Len(rows)
    BY <1>1, <1>3, <1>4
  <2>2. \A k \in 1 .. Len(rows) : cut[k] = rows[k]
    BY <1>1, <1>2, <2>1
  <2>3. cut \in Seq(S)
    BY <1>2
  <2> QED BY <2>1, <2>2, <2>3
<1> QED BY <1>2, <1>3, <1>4

LEMMA ClickHouseKeeps ==
  ASSUME StoreKept, ReadKept, read # None, UNCHANGED <<store, shown>>, QueryClickHouse
  PROVE  ReadKept' /\ AnswerKept'
<1> DEFINE data == Take(Rows, 0, Limit)
           events == Take(data, 0, MaxRows)
           n == Cardinality(shown)
<1>1. /\ driver # "jsonl" /\ read.paged = FALSE
      /\ Returns(TRUE, TRUE, Len(data) <= MaxRows, events)
  BY DEF QueryClickHouse, Result, ReadKept, ReadsOf
<1>2. MaxRows \in Nat /\ Limit \in Nat /\ Limit = MaxRows + 1
  BY PageAssumption DEF Limit
<1>3. /\ data \in Seq(shown) /\ Len(data) \in Nat /\ n \in Nat
      /\ Len(data) = IF Limit <= n THEN Limit ELSE n
      /\ Len(data) = n => Elements(data) = shown
  BY <1>2, FirstRows
<1> HIDE DEF data
<1>4. events \in Seq(shown) /\ (Len(data) <= MaxRows => events = data)
  BY <1>2, <1>3, CutAgain
<1>5. Len(data) <= MaxRows => Len(data) = n
  BY <1>2, <1>3
<1>6. n < MaxRows => Len(data) <= MaxRows
  BY <1>2, <1>3
<1>7. read.before \subseteq shown /\ Cardinality(read.before) <= n
  BY NoFewerShown
<1> HIDE DEF events
<1>8. Sound(TRUE, TRUE, Len(data) <= MaxRows, events)
  BY <1>1, <1>3, <1>4, <1>5, <1>6, <1>7, NotBroken DEF Sound, Cap
<1> QED BY <1>1, <1>8, ReturnKeeps

LEMMA VictoriaLogsKeeps ==
  ASSUME StoreKept, ReadKept, read # None, UNCHANGED <<store, shown>>, QueryVictoriaLogs
  PROVE  ReadKept' /\ AnswerKept'
<1> DEFINE limited == IF read.paged THEN Take(Rows, 0, PageSize) ELSE Rows
           rows == Take(limited, 0, MaxRows)
           whole == Len(limited) < MaxRows /\ (read.paged => Len(rows) < PageSize)
           n == Cardinality(shown)
<1>1. driver = "victorialogs" /\ driver # "jsonl" /\ Returns(TRUE, TRUE, whole, rows)
  BY DEF QueryVictoriaLogs, Result
<1>2. MaxRows \in Nat /\ PageSize \in Nat /\ read.paged \in BOOLEAN /\ read.before \subseteq shown
      /\ Cardinality(read.before) \in Nat /\ Cardinality(read.before) <= n /\ n \in Nat
  BY PageAssumption, NoFewerShown DEF ReadKept, ReadsOf
<1>3. /\ limited \in Seq(shown) /\ Len(limited) \in Nat
      /\ (read.paged => Len(limited) < PageSize) =>
           Elements(limited) = shown /\ Len(limited) = n
      /\ ~ read.paged => Len(limited) = n
  <2>1. CASE read.paged
    <3>1. /\ Take(Rows, 0, PageSize) \in Seq(shown)
          /\ Len(Take(Rows, 0, PageSize)) \in Nat /\ n \in Nat
          /\ Len(Take(Rows, 0, PageSize)) = IF PageSize <= n THEN PageSize ELSE n
          /\ Len(Take(Rows, 0, PageSize)) = n => Elements(Take(Rows, 0, PageSize)) = shown
      BY <1>2, FirstRows
    <3> QED BY <1>2, <2>1, <3>1
  <2>2. CASE ~ read.paged
    BY <2>2, RowsAreShown, ShownAreRows
  <2> QED BY <2>1, <2>2
<1> HIDE DEF limited
<1>4. rows \in Seq(shown) /\ (Len(limited) <= MaxRows => rows = limited)
  BY <1>2, <1>3, CutAgain
<1>5. whole => rows = limited /\ Elements(rows) = shown /\ Len(rows) = n
  <2>1. Len(limited) < MaxRows => Len(limited) <= MaxRows
    BY <1>2, <1>3
  <2> QED BY <1>3, <1>4, <2>1
<1>6. ~ read.paged /\ n < MaxRows => whole
  BY <1>3
<1> HIDE DEF rows, whole
<1>7. Sound(TRUE, TRUE, whole, rows)
  BY <1>1, <1>2, <1>4, <1>5, <1>6, NotBroken DEF Sound, Cap
<1> QED BY <1>1, <1>7, ReturnKeeps

\* The next page starts below the cap, with the rows so far in hand.
LEMMA PageTurned ==
  ASSUME StoreKept, ReadKept, AnswerKept, read # None, UNCHANGED <<store, shown>>,
         NEW hits, TurnPage(hits),
         read.events \o hits \in Seq(shown),
         Len(read.events \o hits) = read.offset + Len(hits),
         read.offset + Len(hits) \in Nat,
         read.offset + Len(hits) <= Cardinality(shown),
         read.offset + Len(hits) < Cap(read.paged),
         ~ read.mixed =>
           \A i \in read.before :
             \/ i \in Elements(read.events \o hits)
             \/ read.offset + Len(hits) <= Cardinality(Prior(shown, read.order, i))
  PROVE  ReadKept' /\ AnswerKept'
<1> DEFINE events == read.events \o hits
           offset == read.offset + Len(hits)
<1>1. PICK order \in Orders :
        read' = [read EXCEPT !.offset = offset, !.events = events, !.order = order,
                             !.mixed = @ \/ order # read.order]
  BY DEF TurnPage
<1>2. answer = None /\ answer' = None
  BY DEF ReadKept, TurnPage
<1>3. AnswerKept'
  BY <1>2 DEF AnswerKept, CompleteIsExact, CompleteMissesNothing, FullReadIsComplete
<1>4. read \in ReadsOf(shown)
  BY DEF ReadKept
<1>5. events \in Seq(shown) /\ offset \in Nat /\ order \in {"oldest", "newest"}
  BY DEF Orders
<1>6. Len(events) = offset
  OBVIOUS
<1>7. /\ offset <= Cardinality(shown) /\ offset < Cap(read.paged)
      /\ ~ read.mixed =>
           \A i \in read.before :
             i \in Elements(events) \/ offset <= Cardinality(Prior(shown, read.order, i))
  OBVIOUS
<1> HIDE DEF events, offset
<1>8. /\ read' \in ReadsOf(shown)
      /\ read'.offset = offset /\ read'.events = events /\ read'.order = order
      /\ read'.paged = read.paged /\ read'.before = read.before
      /\ read'.mixed = (read.mixed \/ order # read.order)
  BY <1>1, <1>4, <1>5 DEF ReadsOf
<1>9. UNCHANGED <<shown, driver>> /\ order \in Orders'
  BY DEF store, Orders
<1>10. ReadKept'
  BY <1>2, <1>6, <1>7, <1>8, <1>9 DEF ReadKept, Cap, Elements
<1> QED BY <1>3, <1>10

LEMMA OpenObserveKeeps ==
  ASSUME StoreKept, ReadKept, AnswerKept, read # None, UNCHANGED <<store, shown>>, QueryOpenObserve
  PROVE  ReadKept' /\ AnswerKept'
<1> DEFINE hits == Take(Rows, read.offset, PageSize)
           events == read.events \o hits
           offset == read.offset + Len(hits)
           n == Cardinality(shown)
<1>1. driver # "jsonl" /\ read.paged = FALSE
  BY DEF QueryOpenObserve, ReadKept, ReadsOf
<1>2. MaxRows \in Nat /\ PageSize \in Nat
  BY PageAssumption
<1>3. /\ Len(hits) \in 0 .. PageSize /\ read.offset \in Nat /\ n \in Nat /\ offset <= n
      /\ events \in Seq(shown) /\ Len(events) = offset
      /\ ~ read.mixed =>
           \A i \in read.before :
             i \in Elements(events) \/ offset <= Cardinality(Prior(shown, read.order, i))
      /\ Len(hits) < PageSize =>
           /\ Len(events) >= Cardinality(read.before)
           /\ ~ read.mixed => read.before \subseteq Elements(events)
  BY <1>2, PageFollows
<1>4. \A m \in DOMAIN events : log[events[m]].kind \notin BrokenKind
  BY <1>1, <1>3, NotBroken
<1>5. \/ Len(hits) < PageSize /\ Returns(TRUE, TRUE, TRUE, events)
      \/ ~ (Len(hits) < PageSize) /\ Capped(offset) /\ Returns(TRUE, TRUE, FALSE, events)
      \/ ~ Capped(offset) /\ TurnPage(hits)
  BY DEF QueryOpenObserve, Result
<1>6. offset \in Nat
  BY <1>2, <1>3
<1> HIDE DEF events, offset, hits
<1>7. CASE Len(hits) < PageSize /\ Returns(TRUE, TRUE, TRUE, events)
  <2>1. Sound(TRUE, TRUE, TRUE, events)
    BY <1>3, <1>4, <1>7 DEF Sound
  <2> QED BY <1>7, <2>1, ReturnKeeps
<1>8. CASE Capped(offset) /\ Returns(TRUE, TRUE, FALSE, events)
  <2>1. ~ (n < MaxRows)
    BY <1>2, <1>3, <1>6, <1>8 DEF Capped
  <2>2. Sound(TRUE, TRUE, FALSE, events)
    BY <1>1, <1>3, <1>4, <2>1 DEF Sound, Cap
  <2> QED BY <1>8, <2>2, ReturnKeeps
<1>9. CASE ~ Capped(offset) /\ TurnPage(hits)
  <2>1. offset < Cap(read.paged)
    BY <1>1, <1>2, <1>3, <1>6, <1>9 DEF Cap, Capped
  <2> QED BY <1>3, <1>9, <2>1, PageTurned DEF events, offset
<1> QED BY <1>5, <1>7, <1>8, <1>9

LEMMA WalkKeeps ==
  ASSUME StoreKept, ReadKept, AnswerKept, read # None, UNCHANGED <<store, shown>>, WalkPage
  PROVE  ReadKept' /\ AnswerKept'
<1> DEFINE hits == Take(Rows, read.offset, PageSize)
           events == read.events \o hits
           offset == read.offset + Len(hits)
           first == Take(events, 0, WalkRows)
           n == Cardinality(shown)
<1>1. driver # "jsonl" /\ read.paged = TRUE
  BY DEF WalkPage, ReadKept, ReadsOf
<1>2. WalkRows \in Nat /\ PageSize \in Nat
  BY PageAssumption
<1>3. /\ Len(hits) \in 0 .. PageSize /\ read.offset \in Nat /\ n \in Nat /\ offset <= n
      /\ events \in Seq(shown) /\ Len(events) = offset
      /\ ~ read.mixed =>
           \A i \in read.before :
             i \in Elements(events) \/ offset <= Cardinality(Prior(shown, read.order, i))
      /\ Len(hits) < PageSize =>
           /\ Len(events) >= Cardinality(read.before)
           /\ ~ read.mixed => read.before \subseteq Elements(events)
  BY <1>2, PageFollows
<1>4. \A m \in DOMAIN events : log[events[m]].kind \notin BrokenKind
  BY <1>1, <1>3, NotBroken
<1>5. \/ Len(hits) < PageSize /\ Returns(TRUE, TRUE, TRUE, events)
      \/ Len(events) >= WalkRows /\ Returns(TRUE, TRUE, FALSE, first)
      \/ ~ (Len(events) >= WalkRows) /\ TurnPage(hits)
  BY DEF WalkPage, Result
<1>6. offset \in Nat
  BY <1>2, <1>3
<1> HIDE DEF events, hits
<1>7. CASE Len(hits) < PageSize /\ Returns(TRUE, TRUE, TRUE, events)
  <2>1. Sound(TRUE, TRUE, TRUE, events)
    BY <1>3, <1>4, <1>7 DEF Sound
  <2> QED BY <1>7, <2>1, ReturnKeeps
<1>8. CASE Len(events) >= WalkRows /\ Returns(TRUE, TRUE, FALSE, first)
  <2>1. ~ (n < WalkRows)
    BY <1>2, <1>3, <1>6, <1>8
  <2>2. first \in Seq(shown)
    BY <1>2, <1>3, CutAgain
  <2> HIDE DEF first
  <2>3. \A m \in DOMAIN first : log[first[m]].kind \notin BrokenKind
    BY <1>1, <2>2, NotBroken
  <2>4. Sound(TRUE, TRUE, FALSE, first)
    BY <1>1, <2>1, <2>2, <2>3 DEF Sound, Cap
  <2> QED BY <1>8, <2>4, ReturnKeeps
<1>9. CASE ~ (Len(events) >= WalkRows) /\ TurnPage(hits)
  <2>1. offset < Cap(read.paged)
    BY <1>1, <1>2, <1>3, <1>6, <1>9 DEF Cap
  <2> QED BY <1>3, <1>9, <2>1, PageTurned DEF events, offset
<1> QED BY <1>5, <1>7, <1>8, <1>9

\* A request that fails is not evidence of anything.
LEMMA FailureKeeps ==
  ASSUME StoreKept, ReadKept, read # None, UNCHANGED <<store, shown>>,
         \/ \E failure \in Failure, header \in Header : RequestFails(failure, header)
         \/ BodyGarbled
         \/ WalkUnpaged
  PROVE  ReadKept' /\ AnswerKept'
<1>1. CASE Raise
  BY <1>1, RaiseKeeps
<1>2. read.events \in Seq(shown)
  BY DEF ReadKept, ReadsOf
<1>3. ASSUME driver \in Network, NEW r \in BOOLEAN, Returns(FALSE, r, FALSE, read.events)
      PROVE  ReadKept' /\ AnswerKept'
  <2>1. driver # "jsonl"
    BY <1>3 DEF Network
  <2>2. Sound(FALSE, r, FALSE, read.events)
    BY <1>2, <2>1, NotBroken DEF Sound
  <2> QED BY <1>3, <2>2, ReturnKeeps
<1>4. CASE Returns(FALSE, FALSE, TRUE, <<>>)
  <2>1. Sound(FALSE, FALSE, TRUE, <<>>)
    BY DEF Sound
  <2> QED BY <1>4, <2>1, ReturnKeeps
<1>5. ASSUME NEW failure, NEW header, RequestFails(failure, header)
      PROVE  ReadKept' /\ AnswerKept'
  BY <1>1, <1>3, <1>4, <1>5 DEF RequestFails, Faulty
<1>6. CASE driver \in {"clickhouse", "victorialogs"} /\ \E n \in 0 .. PageSize :
             Returns(FALSE, TRUE, FALSE,
                     read.events \o Take(Take(Rows, read.offset, PageSize), 0, n))
  <2>1. PICK n \in 0 .. PageSize :
             Returns(FALSE, TRUE, FALSE,
                     read.events \o Take(Take(Rows, read.offset, PageSize), 0, n))
    BY <1>6
  <2> DEFINE hits == Take(Rows, read.offset, PageSize)
             some == Take(hits, 0, n)
             events == read.events \o some
  <2>2. PageSize \in Nat /\ n \in Nat
    BY PageAssumption
  <2>3. hits \in Seq(shown)
    BY <2>2, PageFollows
  <2> HIDE DEF hits
  <2>4. some \in Seq(shown)
    BY <2>2, <2>3, CutAgain
  <2> HIDE DEF some
  <2>5. events \in Seq(shown)
    BY <1>2, <2>4
  <2> HIDE DEF events
  <2>6. driver # "jsonl"
    BY <1>6
  <2>7. Sound(FALSE, TRUE, FALSE, events)
    BY <2>5, <2>6, NotBroken DEF Sound
  <2> QED BY <2>1, <2>7, ReturnKeeps DEF events, some, hits
<1> QED BY <1>1, <1>5, <1>6 DEF BodyGarbled, WalkUnpaged, Faulty

LEMMA AnswerKeeps ==
  ASSUME StoreKept, ReadKept, AnswerKept, Answer
  PROVE  StoreKept' /\ ReadKept' /\ AnswerKept' /\ UNCHANGED <<store, shown>>
<1>1. read # None /\ UNCHANGED <<store, shown>>
  BY DEF Answer
<1>2. StoreKept'
  BY <1>1 DEF StoreKept, store, Elements
<1>3. ReadKept' /\ AnswerKept'
  BY <1>1, MemoryKeeps, JsonlKeeps, OtelKeeps, ClickHouseKeeps, VictoriaLogsKeeps,
     OpenObserveKeeps, WalkKeeps, FailureKeeps DEF Answer
<1> QED BY <1>1, <1>2, <1>3

-----------------------------------------------------------------------------
(* Signed chains.                                                          *)

\* The n-th MAC of a chain of batch b, given the one before it.
Link(b, n, before) == <<KeyOf(n), <<b, n>>, before>>

\* There is a sequence of MACs of any length in which each authenticates the one before.
LEMMA MacsExist ==
  ASSUME NEW b, NEW N \in Nat
  PROVE  \E f : f = [n \in 1 .. N |-> Link(b, n, IF n = 1 THEN Genesis ELSE f[n - 1])]
<1> DEFINE G(n, f) == Link(b, n, IF n = 1 THEN Genesis ELSE f[n - 1])
           T == {m \in Nat : ~ \E f : f = [n \in 1 .. m |-> G(n, f)]}
<1>1. SUFFICES ASSUME T # {} PROVE FALSE
  OBVIOUS
<1>2. PICK m \in T : \A k \in T : m <= k
  BY <1>1, LeastNatural
<1>3. CASE m = 0
  <2> DEFINE f == [n \in {} |-> n]
  <2>1. f = [n \in 1 .. 0 |-> G(n, f)]
    <3>1. 1 .. 0 = {}
      OBVIOUS
    <3> QED BY <3>1
  <2> QED BY <1>2, <1>3, <2>1
<1>4. CASE m # 0
  <2>1. m \in Nat /\ m - 1 \in Nat /\ m - 1 \notin T
    BY <1>2, <1>4
  <2>2. PICK g : g = [n \in 1 .. m - 1 |-> G(n, g)]
    BY <2>1
  <2> DEFINE f == [n \in 1 .. m |-> IF n < m THEN g[n] ELSE G(m, g)]
  <2>3. ASSUME NEW n \in 1 .. m PROVE f[n] = G(n, f)
    <3>1. n = 1 \/ (n - 1 \in 1 .. m - 1 /\ n - 1 \in 1 .. m /\ n - 1 < m)
      BY <2>1
    <3>2. n # 1 => f[n - 1] = g[n - 1]
      BY <3>1
    <3>3. G(n, f) = G(n, g)
      BY <3>2
    <3>4. CASE n < m
      <4>1. n \in 1 .. m - 1
        BY <2>1, <3>4
      <4>2. g[n] = G(n, g)
        <5> HIDE DEF G
        <5> QED BY <2>2, <4>1
      <4>3. f[n] = g[n]
        BY <3>4
      <4> QED BY <3>3, <4>2, <4>3
    <3>5. CASE n = m
      BY <3>3, <3>5
    <3> QED BY <2>1, <3>4, <3>5
  <2>4. f = [n \in 1 .. m |-> f[n]]
    OBVIOUS
  <2>5. f = [n \in 1 .. m |-> G(n, f)]
    <3> HIDE DEF f, G
    <3> QED BY <2>3, <2>4
  <2> QED BY <1>2, <2>5
<1> QED BY <1>3, <1>4

\* sign_chain, record by record.
LEMMA SignedRecords ==
  ASSUME NEW b \in DOMAIN Batches
  PROVE  LET chain == SignChain(b)
         IN  /\ Batches[b] \in Nat \ {0}
             /\ DOMAIN chain = 1 .. Batches[b]
             /\ chain \in Seq(Elements(chain)) /\ Len(chain) = Batches[b]
             /\ \A n \in 1 .. Batches[b] :
                  /\ chain[n].kind = "chained"
                  /\ DOMAIN chain[n] = {"kind", "ship", "body", "prev", "mac"}
                  /\ chain[n].body = <<b, n>>
                  /\ chain[n].prev = IF n = 1 THEN Genesis ELSE chain[n - 1].mac
                  /\ chain[n].mac = Link(b, n, chain[n].prev)
<1> DEFINE N == Batches[b]
           mac == CHOOSE f : f =
                    [n \in 1 .. N |-> <<KeyOf(n), <<b, n>>, IF n = 1 THEN Genesis ELSE f[n - 1]>>]
           chain == SignChain(b)
<1>1. N \in Nat \ {0}
  BY ChainAssumption
<1>2. mac = [n \in 1 .. N |-> <<KeyOf(n), <<b, n>>, IF n = 1 THEN Genesis ELSE mac[n - 1]>>]
  <2> DEFINE Is(f) ==
           f = [n \in 1 .. N |-> <<KeyOf(n), <<b, n>>, IF n = 1 THEN Genesis ELSE f[n - 1]>>]
  <2>1. \E f : Is(f)
    <3>1. PICK f : f = [n \in 1 .. N |-> Link(b, n, IF n = 1 THEN Genesis ELSE f[n - 1])]
      <4>1. N \in Nat
        BY <1>1
      <4> HIDE DEF N
      <4>2. \E f : f = [n \in 1 .. N |-> Link(b, n, IF n = 1 THEN Genesis ELSE f[n - 1])]
        BY <4>1, MacsExist
      <4> QED BY <4>2
    <3>2. Is(f)
      BY <3>1 DEF Link
    <3> HIDE DEF Is
    <3> QED BY <3>2
  <2>2. mac = CHOOSE f : Is(f)
    OBVIOUS
  <2> HIDE DEF mac
  <2>3. Is(mac)
    <3> HIDE DEF Is
    <3> QED BY <2>1, <2>2
  <2> QED BY <2>3
<1>3. chain = [n \in 1 .. N |-> [kind |-> "chained", ship |-> 0, body |-> <<b, n>>,
                                 prev |-> mac[n][3], mac |-> mac[n]]]
  BY DEF SignChain
<1> HIDE DEF mac
<1>4. ASSUME NEW n \in 1 .. N
      PROVE  mac[n] = <<KeyOf(n), <<b, n>>, IF n = 1 THEN Genesis ELSE mac[n - 1]>>
  BY <1>2
<1>5. ASSUME NEW n \in 1 .. N
      PROVE  /\ chain[n].kind = "chained"
             /\ DOMAIN chain[n] = {"kind", "ship", "body", "prev", "mac"}
             /\ chain[n].body = <<b, n>> /\ chain[n].prev = mac[n][3] /\ chain[n].mac = mac[n]
  BY <1>3
<1>6. chain \in [1 .. N -> Elements(chain)]
  <2>1. DOMAIN chain = 1 .. N /\ chain = [n \in 1 .. N |-> chain[n]]
    BY <1>3
  <2> HIDE DEF chain
  <2> QED BY <2>1 DEF Elements
<1>7. DOMAIN chain = 1 .. N /\ chain \in Seq(Elements(chain)) /\ Len(chain) = N
  <2> HIDE DEF chain
  <2> QED BY <1>1, <1>6
<1> HIDE DEF chain
<1>8. ASSUME NEW n \in 1 .. N
      PROVE  /\ chain[n].prev = IF n = 1 THEN Genesis ELSE chain[n - 1].mac
             /\ chain[n].mac = Link(b, n, chain[n].prev)
  <2>1. mac[n][3] = IF n = 1 THEN Genesis ELSE mac[n - 1]
    BY <1>4
  <2>2. n # 1 => n - 1 \in 1 .. N
    BY <1>1
  <2>3. mac[n] = <<KeyOf(n), <<b, n>>, mac[n][3]>>
    BY <1>4, <2>1
  <2> QED BY <1>5, <2>1, <2>2, <2>3 DEF Link
<1> QED BY <1>1, <1>5, <1>7, <1>8 DEF chain

LEMMA SignedHas ==
  ASSUME NEW r, Signed(r)
  PROVE  \E b \in DOMAIN Batches : \E n \in 1 .. Batches[b] :
           /\ r.body = <<b, n>>
           /\ r.prev = IF n = 1 THEN Genesis ELSE SignChain(b)[n - 1].mac
           /\ r.mac = SignChain(b)[n].mac /\ r.mac = Link(b, n, r.prev)
           /\ n \in Nat \ {0} /\ Batches[b] \in Nat
BY SignedRecords DEF Signed

LEMMA LinksDiffer ==
  ASSUME NEW b, NEW n, NEW p, NEW c, NEW m, NEW q
  PROVE  /\ Link(b, n, p) # Genesis
         /\ Link(b, n, p) = Link(c, m, q) => b = c /\ n = m
<1>1. Link(b, n, p) # Genesis
  BY DEF Link, Genesis
<1>2. ASSUME Link(b, n, p) = Link(c, m, q) PROVE b = c /\ n = m
  <2>1. Link(b, n, p)[2] = <<b, n>> /\ Link(c, m, q)[2] = <<c, m>>
    BY DEF Link
  <2>2. <<b, n>> = <<c, m>>
    BY <1>2, <2>1
  <2> QED BY <2>2
<1> QED BY <1>1, <1>2

\* What verifies is the beginning of one batch, in the order in which it was signed.
LEMMA VerifiedIsPrefix ==
  ASSUME NEW E, NEW records \in Seq(E), \A n \in DOMAIN records : Signed(records[n]),
         NEW lengths, NEW heads, VerifyChain(records, lengths, heads)
  PROVE  \E b \in DOMAIN Batches :
           /\ Len(records) <= Batches[b]
           /\ \A n \in DOMAIN records :
                records[n].body = <<b, n>> /\ \E p : records[n].mac = Link(b, n, p)
<1>1. DOMAIN records = 1 .. Len(records) /\ Len(records) \in Nat
  OBVIOUS
<1>2. \A n \in DOMAIN records :
        records[n].prev = IF n = 1 THEN Genesis ELSE records[n - 1].mac
  BY DEF VerifyChain
<1>3. CASE Len(records) = 0
  <2>1. 1 \in DOMAIN Batches /\ Batches[1] \in Nat
    BY ChainAssumption
  <2> QED BY <1>1, <1>3, <2>1
<1>4. CASE Len(records) # 0
  <2>1. 1 \in DOMAIN records
    BY <1>1, <1>4
  <2>2. PICK b \in DOMAIN Batches : \E n \in 1 .. Batches[b] :
           /\ records[1].body = <<b, n>>
           /\ records[1].prev = IF n = 1 THEN Genesis ELSE SignChain(b)[n - 1].mac
           /\ records[1].mac = SignChain(b)[n].mac /\ n \in Nat \ {0}
    BY <2>1, SignedHas
  <2> DEFINE Is(n) == records[n].body = <<b, n>> /\ records[n].mac = SignChain(b)[n].mac
                                                /\ n <= Batches[b]
             T == {n \in Nat : n \in DOMAIN records /\ ~ Is(n)}
  <2>3. Is(1)
    <3>1. PICK n \in 1 .. Batches[b] :
           /\ records[1].body = <<b, n>>
           /\ records[1].prev = IF n = 1 THEN Genesis ELSE SignChain(b)[n - 1].mac
           /\ records[1].mac = SignChain(b)[n].mac /\ n \in Nat \ {0}
      BY <2>2
    <3>2. records[1].prev = Genesis
      BY <1>2, <2>1
    <3>3. n # 1 => \E p : SignChain(b)[n - 1].mac = Link(b, n - 1, p)
      <4>1. n # 1 => n - 1 \in 1 .. Batches[b]
        BY <3>1, SignedRecords
      <4> QED BY <4>1, SignedRecords
    <3>4. n = 1
      BY <3>1, <3>2, <3>3, LinksDiffer
    <3>5. Batches[b] \in Nat
      BY SignedRecords
    <3> QED BY <3>1, <3>4, <3>5
  <2>4. T = {}
    <3> SUFFICES ASSUME T # {} PROVE FALSE
      OBVIOUS
    <3>1. PICK n \in T : \A k \in T : n <= k
      BY LeastNatural
    <3>2. n \in 1 .. Len(records) /\ ~ Is(n) /\ n # 1
      BY <1>1, <2>3, <3>1
    <3>3. n - 1 \in DOMAIN records /\ Is(n - 1)
      <4>1. n - 1 \in DOMAIN records /\ n - 1 \in Nat /\ ~ (n <= n - 1)
        BY <1>1, <3>2
      <4> HIDE DEF Is
      <4> QED BY <3>1, <4>1
    <3> DEFINE Of(c, m) ==
           /\ records[n].body = <<c, m>>
           /\ records[n].prev = IF m = 1 THEN Genesis ELSE SignChain(c)[m - 1].mac
           /\ records[n].mac = SignChain(c)[m].mac
           /\ m \in Nat \ {0} /\ Batches[c] \in Nat
    <3>c. PICK c \in DOMAIN Batches : \E m \in 1 .. Batches[c] : Of(c, m)
      BY <1>1, <3>2, SignedHas
    <3>4. PICK m \in 1 .. Batches[c] : Of(c, m)
      BY <3>c
    <3>5. records[n].prev = SignChain(b)[n - 1].mac
      BY <1>1, <1>2, <3>2, <3>3
    <3>6. PICK p : SignChain(b)[n - 1].mac = Link(b, n - 1, p)
      <4>1. n - 1 \in 1 .. Batches[b]
        BY <1>1, <3>2, <3>3, SignedRecords
      <4> QED BY <4>1, SignedRecords
    <3>7. m # 1
      BY <3>4, <3>5, <3>6, LinksDiffer
    <3>8. PICK q : SignChain(c)[m - 1].mac = Link(c, m - 1, q)
      <4>1. m - 1 \in 1 .. Batches[c]
        BY <3>4, <3>7
      <4> QED BY <4>1, SignedRecords
    <3>9. b = c /\ n - 1 = m - 1
      BY <3>4, <3>5, <3>6, <3>7, <3>8, LinksDiffer
    <3>10. n = m
      BY <3>2, <3>4, <3>9
    <3> QED BY <3>2, <3>4, <3>9, <3>10
  <2>5. \A n \in DOMAIN records : Is(n)
    BY <1>1, <2>4
  <2>6. Len(records) <= Batches[b]
    BY <1>1, <1>4, <2>5
  <2>7. \A n \in DOMAIN records : \E p : records[n].mac = Link(b, n, p)
    <3>1. \A n \in DOMAIN records : n \in 1 .. Batches[b]
      BY <1>1, <2>5, SignedRecords
    <3> QED BY <2>5, <3>1, SignedRecords
  <2> QED BY <2>5, <2>6, <2>7
<1> QED BY <1>3, <1>4

\* The whole of a batch, in order, verifies.
LEMMA WholeVerifies ==
  ASSUME NEW E, NEW records \in Seq(E), \A n \in DOMAIN records : Signed(records[n]),
         NEW b \in DOMAIN Batches, Len(records) = Batches[b],
         \A n \in DOMAIN records : records[n].body = <<b, n>>
  PROVE  /\ VerifyChain(records, {}, {})
         /\ VerifyChain(records, {Batches[b]}, {SignChain(b)[Batches[b]].mac})
<1>1. DOMAIN records = 1 .. Len(records) /\ Len(records) \in Nat \ {0}
  BY SignedRecords
<1>2. ASSUME NEW n \in DOMAIN records
      PROVE  /\ records[n].prev = IF n = 1 THEN Genesis ELSE SignChain(b)[n - 1].mac
             /\ records[n].mac = SignChain(b)[n].mac
             /\ records[n].mac = <<KeyOf(n), records[n].body, records[n].prev>>
  <2> DEFINE Of(c, m) ==
           /\ records[n].body = <<c, m>>
           /\ records[n].prev = IF m = 1 THEN Genesis ELSE SignChain(c)[m - 1].mac
           /\ records[n].mac = SignChain(c)[m].mac
           /\ records[n].mac = Link(c, m, records[n].prev)
  <2>c. PICK c \in DOMAIN Batches : \E m \in 1 .. Batches[c] : Of(c, m)
    BY SignedHas
  <2>1. PICK m \in 1 .. Batches[c] : Of(c, m)
    BY <2>c
  <2>2. c = b /\ m = n
    <3>1. <<c, m>> = <<b, n>>
      BY <2>1
    <3> QED BY <3>1
  <2> QED BY <2>1, <2>2 DEF Link
<1>3. ASSUME NEW n \in DOMAIN records
      PROVE  records[n].prev = IF n = 1 THEN Genesis ELSE records[n - 1].mac
  <2>1. n # 1 => n - 1 \in DOMAIN records
    BY <1>1
  <2> QED BY <1>2, <2>1
<1>4. records # <<>> /\ records[Len(records)].mac = SignChain(b)[Batches[b]].mac
  BY <1>1, <1>2
<1>5. Len(records) >= Batches[b]
  BY <1>1
<1> QED BY <1>2, <1>3, <1>4, <1>5 DEF VerifyChain

\* What a chain signs does not depend on the store.
LEMMA SameSignatures ==
  ASSUME evolve' = evolve
  PROVE  /\ \A b : SignChain(b)' = SignChain(b)
         /\ \A r : Signed(r)' <=> Signed(r)
<1>1. \A b : SignChain(b)' = SignChain(b)
  BY DEF SignChain, KeyOf
<1> QED BY <1>1 DEF Signed

\* A batch put into the store leaves only signed records there.
LEMMA ShipKeepsSigned ==
  ASSUME StoreKept, NEW b \in DOMAIN Batches, NEW raised, Ship(SignChain(b), raised),
         evolve' = evolve,
         \A i \in DOMAIN log : log[i].kind \notin BrokenKind => Signed(log[i])
  PROVE  /\ StoreKept'
         /\ \A i \in DOMAIN log' : log'[i].kind \notin BrokenKind => Signed(log'[i])
<1> DEFINE chain == SignChain(b)
<1>1. /\ DOMAIN chain = 1 .. Batches[b]
      /\ chain \in Seq(Elements(chain))
      /\ \A n \in 1 .. Batches[b] :
           chain[n].kind = "chained" /\ DOMAIN chain[n] = {"kind", "ship", "body", "prev", "mac"}
  BY SignedRecords
<1> HIDE DEF chain
<1>2. Batched(chain, Elements(chain))
  BY <1>1 DEF Batched, BrokenKind
<1>3. Grown(log, log', chain, driver)
  BY <1>2, ShipGrows DEF chain, StoreKept
<1>4. StoreKept'
  BY <1>2, ShipKeepsStore DEF chain
<1>5. DOMAIN log = 1 .. Len(log) /\ DOMAIN log' = 1 .. Len(log') /\ Len(log) \in Nat
  BY <1>4 DEF StoreKept
<1>6. ASSUME NEW i \in DOMAIN log', log'[i].kind \notin BrokenKind PROVE Signed(log'[i])
  <2>1. CASE i \in DOMAIN log
    <3>1. log'[i] = log[i] \/ log'[i] = Malformed
      BY <1>3, <2>1 DEF Grown
    <3>2. log'[i] = log[i]
      BY <1>6, <3>1 DEF Malformed, BrokenKind
    <3> QED BY <1>6, <2>1, <3>2
  <2>2. CASE i \notin DOMAIN log
    <3>1. i > Len(log) /\ i \in Whole(log')
      BY <1>5, <1>6, <2>2 DEF Whole
    <3>2. PICK n \in DOMAIN chain : log'[i] = [chain[n] EXCEPT !.ship = Len(log) + 1]
      BY <1>3, <3>1 DEF Grown
    <3>3. /\ log'[i].body = chain[n].body /\ log'[i].prev = chain[n].prev
          /\ log'[i].mac = chain[n].mac
      BY <1>1, <3>2
    <3> QED BY <1>1, <3>3 DEF Signed, chain
  <2> QED BY <2>1, <2>2
<1> QED BY <1>4, <1>6

\* The records a verifier looks at are the rows of the answer, in the order of stream_key.
LEMMA RecordsAreSigned ==
  ASSUME StoreKept, AnswerKept, answer # None,
         \A i \in DOMAIN log : log[i].kind \notin BrokenKind => Signed(log[i])
  PROVE  /\ Records \in Seq(Elements(Records))
         /\ DOMAIN Records = 1 .. Len(Records) /\ Len(Records) \in Nat
         /\ \A n \in DOMAIN Records : Signed(Records[n])
<1> DEFINE a == answer.events
<1>1. /\ a \in Seq(shown)
      /\ \A n \in DOMAIN a : a[n] \in DOMAIN log /\ log[a[n]].kind \notin BrokenKind
  BY DEF AnswerKept, StoreKept
<1>2. \A n \in DOMAIN a : log[a[n]].ship \in Int
  BY <1>1 DEF StoreKept, RowKept
<1> HIDE DEF a
<1>p. \E f \in [DOMAIN a -> DOMAIN a] :
        /\ \A k, l \in DOMAIN a : f[k] = f[l] => k = l
        /\ \A n \in DOMAIN a : \E k \in DOMAIN a : f[k] = n
        /\ StreamOrder(a) = [k \in DOMAIN a |-> a[f[k]]]
  BY <1>1, <1>2, StreamOrderPermutes
<1>3. PICK f \in [DOMAIN a -> DOMAIN a] : StreamOrder(a) = [k \in DOMAIN a |-> a[f[k]]]
  BY <1>p
<1>4. Records = [n \in DOMAIN a |-> log[a[f[n]]]]
  BY <1>3 DEF Records, a
<1>5. DOMAIN a = 1 .. Len(a) /\ Len(a) \in Nat
  BY <1>1
<1>6. \A n \in DOMAIN Records : Signed(Records[n])
  BY <1>1, <1>3, <1>4
<1> DEFINE r == Records
<1>7. DOMAIN r = 1 .. Len(a) /\ r = [n \in 1 .. Len(a) |-> r[n]]
  BY <1>4, <1>5
<1> HIDE DEF r
<1>8. r \in [1 .. Len(a) -> Elements(r)]
  BY <1>7 DEF Elements
<1>9. r \in Seq(Elements(r)) /\ Len(r) = Len(a)
  BY <1>5, <1>7, <1>8
<1> QED BY <1>5, <1>6, <1>7, <1>9 DEF r

\* verify_chain says of the records read back what is so.
LEMMA CheckIsExact ==
  ASSUME StoreKept, AnswerKept, ChainOK,
         \A i \in DOMAIN log : log[i].kind \notin BrokenKind => Signed(log[i]),
         CheckChain
  PROVE  ChainIsExact' /\ authentic' \in BOOLEAN
<1> DEFINE r == Records
           whole == {Batches[1]}
           head == {SignChain(1)[Batches[1]].mac}
<1>1. /\ r \in Seq(Elements(r)) /\ DOMAIN r = 1 .. Len(r) /\ Len(r) \in Nat
      /\ \A n \in DOMAIN r : Signed(r[n])
  BY RecordsAreSigned DEF CheckChain
<1>2. /\ authentic' = IF anchored THEN VerifyChain(r, whole, head) ELSE VerifyChain(r, {}, {})
      /\ UNCHANGED <<readback, evolve, anchored>>
  BY DEF CheckChain
<1>3. r' = r
  BY <1>2 DEF readback, store, readVars, Records, StreamOrder
<1>4. 1 \in DOMAIN Batches /\ Batches[1] \in Nat \ {0}
  BY ChainAssumption
<1>t. TRUE # FALSE /\ authentic' \in BOOLEAN
  BY <1>2 DEF VerifyChain
<1> HIDE DEF r
<1>5. ASSUME authentic' = TRUE PROVE AuthenticIsPrefix'
  <2>1. IF anchored THEN VerifyChain(r, whole, head) ELSE VerifyChain(r, {}, {})
    BY <1>2, <1>5
  <2>2. PICK b \in DOMAIN Batches :
          /\ Len(r) <= Batches[b]
          /\ \A n \in DOMAIN r : r[n].body = <<b, n>> /\ \E p : r[n].mac = Link(b, n, p)
    <3>1. CASE anchored
      BY <1>1, <2>1, <3>1, VerifiedIsPrefix
    <3>2. CASE ~ anchored
      BY <1>1, <2>1, <3>2, VerifiedIsPrefix
    <3> QED BY <3>1, <3>2
  <2>3. ASSUME anchored PROVE Len(r) = Batches[1] /\ r[1].body = <<1, 1>> /\ 1 \in DOMAIN r
    <3>1. Len(r) >= Batches[1] /\ r # <<>> /\ r[Len(r)].mac = SignChain(1)[Batches[1]].mac
      BY <2>1, <2>3 DEF VerifyChain
    <3>2. Len(r) \in DOMAIN r /\ 1 \in DOMAIN r
      BY <1>1, <1>4, <3>1
    <3>3. PICK p : r[Len(r)].mac = Link(b, Len(r), p)
      BY <2>2, <3>2
    <3>4. Batches[1] \in 1 .. Batches[1]
      BY <1>4
    <3>5. PICK q : SignChain(1)[Batches[1]].mac = Link(1, Batches[1], q)
      BY <1>4, <3>4, SignedRecords
    <3>6. b = 1 /\ Len(r) = Batches[1]
      BY <3>1, <3>3, <3>5, LinksDiffer
    <3> QED BY <2>2, <3>2, <3>6
  <2> DEFINE bodies == [n \in DOMAIN r |-> r[n].body]
  <2>4. DOMAIN bodies = DOMAIN r /\ Len(bodies) = Len(r)
    BY <1>1
  <2>5. \A n \in DOMAIN bodies : bodies[n] = <<b, n>>
    BY <2>2
  <2>6. anchored => Len(bodies) = Batches[1] /\ bodies[1] = <<1, 1>>
    BY <2>3, <2>4
  <2> QED BY <1>2, <1>3, <2>2, <2>4, <2>5, <2>6 DEF AuthenticIsPrefix, r
<1>6. ASSUME authentic' = FALSE, Len(r) = Batches[1], \A n \in DOMAIN r : r[n].body = <<1, n>>
      PROVE  FALSE
  <2>1. VerifyChain(r, {}, {}) /\ VerifyChain(r, whole, head)
    BY <1>1, <1>4, <1>6, WholeVerifies
  <2> QED BY <1>2, <1>6, <2>1
<1>7. AuthenticIsPrefix'
  <2>1. authentic' # TRUE => AuthenticIsPrefix'
    BY DEF AuthenticIsPrefix
  <2> QED BY <1>5, <2>1
<1>8. WholeChainIsAuthentic'
  BY <1>3, <1>6 DEF WholeChainIsAuthentic, r
<1> QED BY <1>7, <1>8, <1>t DEF ChainIsExact

-----------------------------------------------------------------------------
(* The invariant is kept.                                                  *)

LEMMA OwnElements ==
  ASSUME NEW S, NEW s \in Seq(S)
  PROVE  s \in Seq(Elements(s))
<1>1. s = [k \in 1 .. Len(s) |-> s[k]] /\ Len(s) \in Nat /\ DOMAIN s = 1 .. Len(s)
  OBVIOUS
<1>2. s \in [1 .. Len(s) -> Elements(s)]
  BY <1>1 DEF Elements
<1> QED BY <1>1, <1>2

\* What a session ships, at its beginning and at its end.
LEMMA SessionBatches ==
  ASSUME NEW T, NEW rs \in Seq(T), NEW key
  PROVE  /\ Batched(<<Start>>, {Start})
         /\ \E B : Batched(BuildOutcomeRecords(rs, key), B)
<1>1. Batched(<<Start>>, {Start})
  BY DEF Batched, Start, BrokenKind
<1> DEFINE outcomes == [n \in DOMAIN rs |-> OutcomeRecord(rs[n])]
           summary == SummaryRecord(rs, key, "this")
           O == {OutcomeRecord(rs[n]) : n \in DOMAIN rs}
<1>2. outcomes \in Seq(O) /\ DOMAIN outcomes = DOMAIN rs
  BY DEF Elements
<1>3. \A o \in O : {"kind", "ship"} \subseteq DOMAIN o /\ o.kind \notin BrokenKind
  BY DEF OutcomeRecord, BrokenKind
<1>4. {"kind", "ship"} \subseteq DOMAIN summary /\ summary.kind \notin BrokenKind
  BY DEF SummaryRecord, BrokenKind
<1> HIDE DEF outcomes, summary, O
<1> DEFINE batch == Append(outcomes, summary)
           B == O \cup {summary}
<1>5. batch \in Seq(B)
  BY <1>2
<1>6. \A n \in DOMAIN batch : batch[n] \in B
  BY <1>5
<1>7. Batched(batch, B)
  BY <1>3, <1>4, <1>5, <1>6 DEF Batched
<1>8. BuildOutcomeRecords(rs, key) = batch
  BY DEF BuildOutcomeRecords, outcomes, summary
<1> QED BY <1>1, <1>7, <1>8

LEMMA OpenedKeeps ==
  ASSUME NEW held, held \in Seq(Elements(held)), Opened(held),
         \A n \in DOMAIN held : held[n].kind = "summary" /\ held[n].ship \in Nat
  PROVE  StoreKept /\ ReadKept /\ AnswerKept
<1>1. StoreKept
  BY DEF Opened, StoreKept, RowKept, BrokenKind, Elements
<1>2. ReadKept /\ AnswerKept
  BY DEF Opened, ReadKept, AnswerKept, CompleteIsExact, CompleteMissesNothing, FullReadIsComplete
<1> QED BY <1>1, <1>2

LEMMA UncheckedChain ==
  ASSUME authentic = None
  PROVE  ChainIsExact
BY NoneAssumption DEF ChainIsExact, AuthenticIsPrefix, WholeChainIsAuthentic

LEMMA SomeBatches == 0 \in 0 .. Len(Batches) /\ Len(Batches) \in Nat
<1>1. Len(Batches) \in Nat
  BY ChainAssumption
<1> QED BY <1>1

LEMMA InitKeeps ==
  ASSUME Init
  PROVE  IInv
<1>1. CASE /\ client = "pytest" /\ SessionInit
           /\ evolve = FALSE /\ shipped = 0 /\ anchored = FALSE /\ authentic = None
  <2>1. PICK s \in Scenarios : policy = s.policy /\ suite = s.suite /\ Opened(s.held)
    BY <1>1 DEF SessionInit
  <2>2. StoreKept /\ ReadKept /\ AnswerKept
    BY <2>1, SessionAssumption, OpenedKeeps
  <2>3. reports \in Seq(Elements(reports)) /\ suite \in Seq(Elements(suite))
    BY <1>1, <2>1, SessionAssumption DEF SessionInit
  <2>4. SessionOK
    BY <1>1, <2>1, SessionAssumption DEF SessionOK, SessionInit
  <2>5. read = None /\ answer = None
    BY <2>1 DEF Opened
  <2>6. SessionKept
    BY <1>1, <2>3, <2>4, <2>5 DEF SessionKept
  <2>7. ChainKept
    <3>1. ChainOK
      BY <1>1, SomeBatches DEF ChainOK
    <3> QED BY <1>1, <3>1, UncheckedChain DEF ChainKept
  <2> QED BY <2>2, <2>6, <2>7 DEF IInv
<1>2. CASE /\ client = "chain"
           /\ Opened(<<>>)
           /\ ChainInit
           /\ policy = (CHOOSE s \in Scenarios : TRUE).policy
           /\ suite = <<>> /\ reports = <<>>
           /\ pc = "done" /\ reader = "cli"
           /\ attempt = 1 /\ extended = FALSE /\ queried = FALSE /\ sawStart = FALSE
           /\ verdict = None /\ exitstatus = 0 /\ failBuild = FALSE
  <2>1. <<>> \in Seq(Elements(<<>>)) /\ DOMAIN <<>> = {}
    OBVIOUS
  <2>2. StoreKept /\ ReadKept /\ AnswerKept
    BY <1>2, <2>1, OpenedKeeps
  <2>3. SessionOK
    <3>1. 1 \in 1 .. Retries
      BY SessionAssumption
    <3> DEFINE some == CHOOSE s \in Scenarios : TRUE
    <3>2. some \in Scenarios
      BY SessionAssumption
    <3>3. policy = some.policy
      BY <1>2
    <3> HIDE DEF some
    <3>4. \E s \in Scenarios : policy = s.policy
      BY <3>2, <3>3
    <3>5. /\ pc = "done" /\ reader = "cli" /\ attempt = 1 /\ verdict = None
          /\ exitstatus = 0 /\ failBuild = FALSE
      BY <1>2
    <3> QED BY <3>1, <3>4, <3>5 DEF SessionOK
  <2>4. SessionKept
    BY <1>2, <2>1, <2>3 DEF SessionKept
  <2>5. log = <<>> /\ authentic = None
    BY <1>2 DEF Opened, ChainInit
  <2>6. ChainKept
    BY <1>2, <2>5, ChainAssumption, UncheckedChain DEF ChainKept, ChainOK, ChainInit
  <2> QED BY <2>2, <2>4, <2>6 DEF IInv
<1> QED BY <1>1, <1>2 DEF Init

\* A pytest session leaves the chain's state alone.
LEMMA PytestKeepsChain ==
  ASSUME IInv, PytestStep
  PROVE  /\ client = "pytest" /\ client' = "pytest"
         /\ authentic' = None /\ evolve' = FALSE /\ shipped' = 0 /\ anchored' = FALSE
         /\ ChainKept'
<1>1. /\ client = "pytest" /\ client' = "pytest"
      /\ authentic' = None /\ evolve' = FALSE /\ shipped' = 0 /\ anchored' = FALSE
  BY DEF PytestStep, chainVars, IInv, SessionKept
<1>2. ChainIsExact'
  BY <1>1, NoneAssumption DEF ChainIsExact, AuthenticIsPrefix, WholeChainIsAuthentic
<1>3. ChainOK'
  BY <1>1, SomeBatches DEF ChainOK
<1> QED BY <1>1, <1>2, <1>3 DEF ChainKept

\* While the session ships nobody reads.
LEMMA HookKeeps ==
  ASSUME IInv, client = "pytest", pc \in {"collecting", "running"},
         NEW B, NEW batch, Batched(batch, B), NEW raised, Ship(batch, raised)
  PROVE  StoreKept' /\ ReadKept' /\ AnswerKept' /\ read' = None /\ answer' = None
<1>1. read = None /\ answer = None
  BY DEF IInv, SessionKept
<1>2. read' = None /\ answer' = None
  BY <1>1 DEF Ship, readVars
<1> QED BY <1>2, NoReader, ShipKeepsStore DEF IInv

LEMMA SameStore ==
  ASSUME UNCHANGED readback
  PROVE  /\ StoreKept => StoreKept'
         /\ ReadKept => ReadKept'
         /\ AnswerKept => AnswerKept'
<1>1. UNCHANGED <<driver, log, shown, read, answer>>
  BY DEF readback, store, readVars
<1> QED
  BY <1>1
  DEF StoreKept, ReadKept, AnswerKept, CompleteIsExact, CompleteMissesNothing,
      FullReadIsComplete, Elements, Prior, Orders, Broken, Queryable

LEMMA VerdictsAreReasoned ==
  ASSUME NEW result, NEW started, NEW ok, NEW expected, NEW key, NEW required, NEW final,
         NEW body, body = EvaluatePrefix(result, started, ok, expected, key, required, final),
         body # None
  PROVE  body.reasons \subseteq Reason
BY DEF EvaluatePrefix, Reason

LEMMA HooksKeep ==
  ASSUME IInv, PytestStep, Hooks
  PROVE  StoreKept' /\ ReadKept' /\ AnswerKept' /\ SessionKept'
<1>1. client = "pytest" /\ client' = "pytest"
  BY DEF PytestStep
<1>2. /\ pc \in {"collecting", "running"}
      /\ UNCHANGED <<policy, reader, attempt, verdict>>
      /\ ~ failBuild /\ read = None /\ answer = None
  BY <1>1
  DEF Hooks, CollectionFinish, LogReport, FinishUnshipped, FinishShipped, suiteVars, pollVars,
      exitVars, IInv, SessionKept, SessionOK
<1>3. /\ evolve' = FALSE /\ shipped' = 0 /\ anchored' = FALSE /\ authentic' = None
  BY PytestKeepsChain
<1>4. /\ \A batch, B, raised : Batched(batch, B) /\ Ship(batch, raised) =>
           StoreKept' /\ ReadKept' /\ AnswerKept' /\ read' = None /\ answer' = None
      /\ UNCHANGED readback =>
           StoreKept' /\ ReadKept' /\ AnswerKept' /\ read' = None /\ answer' = None
  <2>1. ASSUME NEW batch, NEW B, NEW raised, Batched(batch, B), Ship(batch, raised)
        PROVE  StoreKept' /\ ReadKept' /\ AnswerKept' /\ read' = None /\ answer' = None
    BY <1>1, <1>2, <2>1, HookKeeps
  <2>2. ASSUME UNCHANGED readback
        PROVE  StoreKept' /\ ReadKept' /\ AnswerKept' /\ read' = None /\ answer' = None
    BY <1>2, <2>2, SameStore DEF IInv, readback, readVars
  <2> QED BY <2>1, <2>2
<1>5. reports \in Seq(Elements(reports)) /\ suite \in Seq(Elements(suite))
      /\ exitstatus \in 0 .. 2 /\ attempt \in 1 .. Retries
      /\ \E s \in Scenarios : policy = s.policy
      /\ reader \in {"plugin", "cli"}
      /\ (verdict # None => verdict.reasons \subseteq Reason)
  BY DEF IInv, SessionKept, SessionOK
<1>6. \A key : \E B : Batched(BuildOutcomeRecords(reports, key), B)
  BY <1>5, SessionBatches
<1>7. Batched(<<Start>>, {Start})
  BY <1>5, SessionBatches
<1>8. Interrupted \in 0 .. 2
  BY <1>5 DEF Interrupted
<1>9. StoreKept' /\ ReadKept' /\ AnswerKept' /\ read' = None /\ answer' = None
  <2>1. CASE CollectionFinish
    BY <1>4, <1>7, <2>1 DEF CollectionFinish
  <2>2. CASE LogReport
    BY <1>4, <2>2 DEF LogReport
  <2>3. CASE FinishUnshipped
    BY <1>4, <1>6, <2>3 DEF FinishUnshipped
  <2>4. CASE FinishShipped
    BY <1>4, <1>6, <2>4 DEF FinishShipped
  <2> QED BY <2>1, <2>2, <2>3, <2>4 DEF Hooks
<1>10. /\ suite' \in Seq(Elements(suite')) /\ reports' \in Seq(Elements(reports'))
       /\ exitstatus' \in 0 .. 2
       /\ pc' \in {"running", "polling", "done"}
       /\ failBuild' => pc' = "done" /\ exitstatus' = 0
  <2>1. CASE CollectionFinish
    BY <1>2, <1>5, <2>1 DEF CollectionFinish, suiteVars, exitVars
  <2>2. CASE LogReport
    <3>1. suite' = Tail(suite) /\ suite # <<>> /\ pc' = "running"
      BY <2>2 DEF LogReport
    <3>2. Tail(suite) \in Seq(Elements(suite)) /\ Head(suite) \in Elements(suite)
      BY <1>5, <3>1 DEF Elements
    <3>3. suite' \in Seq(Elements(suite'))
      BY <3>1, <3>2, OwnElements
    <3>4. reports' = reports \/ reports' = Append(reports, Head(suite))
      BY <2>2 DEF LogReport
    <3>5. reports' \in Seq(Elements(reports) \cup Elements(suite))
      BY <1>5, <3>2, <3>4
    <3>6. reports' \in Seq(Elements(reports'))
      BY <3>5, OwnElements
    <3>7. exitstatus' \in 0 .. 2 /\ ~ failBuild'
      BY <1>2, <1>5, <2>2 DEF LogReport
    <3> QED BY <3>1, <3>3, <3>6, <3>7
  <2>3. CASE FinishUnshipped
    BY <1>2, <1>5, <1>8, <2>3 DEF FinishUnshipped, suiteVars
  <2>4. CASE FinishShipped
    BY <1>2, <1>5, <1>8, <2>4 DEF FinishShipped, suiteVars, Fail
  <2> QED BY <2>1, <2>2, <2>3, <2>4 DEF Hooks
<1>11. SessionOK'
  BY <1>2, <1>5, <1>10 DEF SessionOK
<1>12. Elements(suite)' = Elements(suite') /\ Elements(reports)' = Elements(reports')
  BY DEF Elements
<1> QED
  BY <1>1, <1>3, <1>9, <1>10, <1>11, <1>12 DEF SessionKept

LEMMA PollingKeeps ==
  ASSUME IInv, PytestStep, Polling
  PROVE  StoreKept' /\ ReadKept' /\ AnswerKept' /\ SessionKept'
<1>1. client = "pytest" /\ client' = "pytest" /\ pc = "polling"
  BY DEF PytestStep, Polling, Poll, TryAgain, Conclude, VerifyError
<1>2. /\ evolve' = FALSE /\ shipped' = 0 /\ anchored' = FALSE /\ authentic' = None
  BY PytestKeepsChain
<1>3. /\ reports \in Seq(Elements(reports)) /\ suite \in Seq(Elements(suite))
      /\ exitstatus \in 0 .. 2 /\ attempt \in 1 .. Retries
      /\ \E s \in Scenarios : policy = s.policy
      /\ reader \in {"plugin", "cli"}
      /\ verdict # None => verdict.reasons \subseteq Reason
      /\ failBuild => exitstatus = 0
      /\ StoreKept /\ ReadKept /\ AnswerKept /\ SessionOK
      /\ answer # None => read = None
  BY DEF IInv, SessionKept, SessionOK, AnswerKept
<1>4. Retries \in Nat \ {0}
  BY SessionAssumption
<1>5. UNCHANGED suiteVars =>
        UNCHANGED <<policy, suite, reports, Elements(suite), Elements(reports)>>
  BY DEF suiteVars, Elements
<1>6. CASE Poll
  <2>1. PICK flushed \in IF attempt = 1 THEN Flushed ELSE {shown} : BeginRead(FALSE, flushed)
    BY <1>6 DEF Poll
  <2>2. StoreKept' /\ ReadKept' /\ AnswerKept'
    BY <1>3, <2>1, BeginKeeps
  <2>3. UNCHANGED <<suiteVars, pc, reader, attempt, verdict, exitstatus, failBuild>>
    BY <1>6 DEF Poll, sessionVars, pollVars, exitVars
  <2>4. SessionOK'
    BY <1>3, <1>5, <2>3 DEF SessionOK
  <2> QED BY <1>1, <1>2, <1>3, <1>5, <2>2, <2>3, <2>4 DEF SessionKept
<1>7. CASE TryAgain
  <2>1. /\ answer # None /\ answer' = None /\ UNCHANGED <<driver, log, shown, read>>
        /\ UNCHANGED <<suiteVars, pc, reader, verdict, exitstatus, failBuild>>
        /\ attempt' \in 1 .. Retries
    BY <1>3, <1>4, <1>7 DEF TryAgain, ReadAgain, store, exitVars
  <2>2. StoreKept' /\ ReadKept' /\ AnswerKept'
    <3>1. StoreKept'
      BY <1>3, <2>1 DEF StoreKept, Elements
    <3> QED BY <1>3, <2>1, <3>1, NoReader
  <2>3. SessionOK'
    BY <1>3, <1>5, <2>1 DEF SessionOK
  <2> QED BY <1>1, <1>2, <1>3, <1>5, <2>1, <2>2, <2>3 DEF SessionKept
<1>8. ASSUME NEW body, NEW fails, answer # None, Settle(body, fails),
             body # None => body.reasons \subseteq Reason
      PROVE  StoreKept' /\ ReadKept' /\ AnswerKept' /\ SessionKept'
  <2>1. /\ UNCHANGED readback /\ UNCHANGED <<suiteVars, reader, attempt, exitstatus>>
        /\ verdict' = body /\ pc' = "done"
        /\ failBuild' = IF Plugin THEN fails /\ exitstatus = 0 ELSE failBuild
    BY <1>8 DEF Settle
  <2>2. StoreKept' /\ ReadKept' /\ AnswerKept'
    BY <1>3, <2>1, SameStore
  <2>3. read' = None
    BY <1>3, <1>8, <2>1 DEF readback, readVars
  <2>4. failBuild' => exitstatus' = 0
    BY <1>3, <2>1
  <2>5. SessionOK'
    BY <1>3, <1>5, <1>8, <2>1, <2>4 DEF SessionOK
  <2> QED BY <1>1, <1>2, <1>3, <1>5, <2>1, <2>2, <2>3, <2>5 DEF SessionKept
<1>9. CASE Conclude
  <2> DEFINE body == IF Body(FALSE) # None THEN Body(FALSE) ELSE Body(TRUE)
  <2>1. answer # None /\ Settle(body, VerifyPolicy(body, policy.mode))
    BY <1>9 DEF Conclude
  <2>2. body # None => body.reasons \subseteq Reason
    BY VerdictsAreReasoned DEF Body
  <2> HIDE DEF body
  <2> QED BY <1>8, <2>1, <2>2
<1>10. CASE VerifyError
  <2> DEFINE body == [ok |-> FALSE, verdict |-> "error", sig |-> "none", reasons |-> {"error"}]
  <2>1. answer # None /\ Settle(body, policy.mode = "strict")
    BY <1>10 DEF VerifyError
  <2>2. body.reasons \subseteq Reason
    BY DEF Reason
  <2> HIDE DEF body
  <2> QED BY <1>8, <2>1, <2>2
<1> QED BY <1>6, <1>7, <1>9, <1>10 DEF Polling

LEMMA PytestKeeps ==
  ASSUME IInv, PytestStep
  PROVE  IInv'
<1>1. CASE Hooks
  BY <1>1, HooksKeep, PytestKeepsChain DEF IInv
<1>2. CASE Polling
  BY <1>2, PollingKeeps, PytestKeepsChain DEF IInv
<1>3. ASSUME Killed \/ Recheck
      PROVE  StoreKept' /\ ReadKept' /\ AnswerKept' /\ SessionKept'
  <2>1. client = "pytest" /\ client' = "pytest" /\ pc \in {"running", "done", "killed"}
    BY <1>3 DEF PytestStep, Killed, Recheck
  <2>2. read = None /\ evolve' = FALSE /\ shipped' = 0 /\ anchored' = FALSE /\ authentic' = None
    BY <2>1, PytestKeepsChain DEF IInv, SessionKept
  <2>3. /\ UNCHANGED <<driver, log, shown, read, suiteVars, exitstatus, failBuild>>
        /\ reader' \in {"plugin", "cli"} /\ attempt' \in 1 .. Retries
        /\ verdict' \in {verdict, None}
        /\ \/ pc = "running" /\ pc' = "killed" /\ UNCHANGED answer
           \/ pc \in {"done", "killed"} /\ pc' = "polling" /\ answer' = None
    BY <1>3, SessionAssumption
    DEF Killed, Recheck, readback, readVars, store, exitVars, pollVars, IInv, SessionKept, SessionOK
  <2>4. answer' = None
    BY <2>1, <2>3 DEF IInv, SessionKept
  <2>5. StoreKept' /\ ReadKept' /\ AnswerKept'
    <3>1. StoreKept'
      BY <2>3 DEF IInv, StoreKept, Elements
    <3> QED BY <2>2, <2>3, <2>4, <3>1, NoReader
  <2>6. UNCHANGED <<policy, suite, reports, Elements(suite), Elements(reports)>>
    BY <2>3 DEF suiteVars, Elements
  <2>7. SessionOK'
    BY <2>3, <2>6 DEF IInv, SessionKept, SessionOK
  <2> QED BY <2>1, <2>2, <2>3, <2>4, <2>5, <2>6, <2>7 DEF IInv, SessionKept
<1> QED BY <1>1, <1>2, <1>3, PytestKeepsChain DEF PytestStep, IInv

LEMMA ChainClientKeeps ==
  ASSUME IInv, ChainStep
  PROVE  IInv'
<1>1. client = "chain" /\ client' = "chain" /\ UNCHANGED sessionVars
  BY DEF ChainStep
<1>2. SessionKept'
  <2>1. /\ UNCHANGED <<policy, suite, reports, pc, reader, attempt, verdict, exitstatus, failBuild>>
        /\ UNCHANGED <<Elements(suite), Elements(reports)>>
    BY <1>1 DEF sessionVars, suiteVars, pollVars, exitVars, Elements
  <2>2. SessionOK'
    BY <2>1 DEF IInv, SessionKept, SessionOK
  <2> QED BY <1>1, <2>1, <2>2 DEF IInv, SessionKept
<1>3. /\ StoreKept /\ ReadKept /\ AnswerKept /\ ChainOK
      /\ \A i \in DOMAIN log : log[i].kind \notin BrokenKind => Signed(log[i])
      /\ authentic # None => answer # None
  BY <1>1 DEF IInv, ChainKept
<1>4. CASE ShipChain
  <2>1. shipped + 1 \in DOMAIN Batches /\ shipped' \in 0 .. Len(Batches)
    <3>1. shipped \in Nat /\ shipped < Len(Batches) /\ shipped' = shipped + 1
      BY <1>3, <1>4, SomeBatches DEF ShipChain, ChainOK
    <3>2. DOMAIN Batches = 1 .. Len(Batches)
      BY ChainAssumption
    <3> QED BY <3>1, <3>2, SomeBatches
  <2>2. PICK raised \in BOOLEAN : Ship(SignChain(shipped + 1), raised)
    BY <1>4 DEF ShipChain
  <2>3. UNCHANGED <<evolve, anchored, authentic>> /\ read = None /\ answer = None
    BY <1>4 DEF ShipChain
  <2>4. authentic' = None /\ read' = None /\ answer' = None
    BY <1>3, <2>2, <2>3 DEF Ship, readVars
  <2>5. /\ StoreKept'
        /\ \A i \in DOMAIN log' : log'[i].kind \notin BrokenKind => Signed(log'[i])
    BY <1>3, <2>1, <2>2, <2>3, ShipKeepsSigned
  <2>6. \A i \in DOMAIN log' : log'[i].kind \notin BrokenKind => Signed(log[i])'
    <3>1. \A r : Signed(r)' <=> Signed(r)
      BY <2>3, SameSignatures
    <3> SUFFICES ASSUME NEW i \in DOMAIN log', log'[i].kind \notin BrokenKind
                 PROVE  Signed(log[i])'
      OBVIOUS
    <3>2. Signed(log'[i])
      BY <2>5
    <3>3. \A b : SignChain(b)' = SignChain(b)
      BY <2>3, SameSignatures
    <3> QED BY <3>2, <3>3 DEF Signed
  <2>7. ChainIsExact'
    BY <2>4, NoneAssumption DEF ChainIsExact, AuthenticIsPrefix, WholeChainIsAuthentic
  <2>8. ChainOK'
    BY <1>3, <2>1, <2>3 DEF ChainOK
  <2> QED BY <1>2, <2>4, <2>5, <2>6, <2>7, <2>8, NoReader DEF IInv, ChainKept
<1>5. ASSUME ReadChain \/ CheckChain
      PROVE  StoreKept' /\ ReadKept' /\ AnswerKept' /\ ChainKept'
  <2>1. CASE ReadChain
    <3>1. PICK paged \in BOOLEAN : BeginRead(paged, shown)
      BY <2>1 DEF ReadChain
    <3>2. UNCHANGED <<log, evolve, shipped, anchored, authentic>> /\ authentic' = None
      BY <1>3, <2>1, <3>1 DEF ReadChain, BeginRead, store, chainVars
    <3>3. StoreKept' /\ ReadKept' /\ AnswerKept'
      BY <1>3, <3>1, BeginKeeps
    <3>4. \A i \in DOMAIN log' : log'[i].kind \notin BrokenKind => Signed(log[i])'
      BY <1>3, <3>2, SameSignatures DEF Signed
    <3>5. ChainIsExact'
      BY <3>2, NoneAssumption DEF ChainIsExact, AuthenticIsPrefix, WholeChainIsAuthentic
    <3>6. ChainOK'
      BY <1>3, <3>2 DEF ChainOK
    <3> QED BY <3>2, <3>3, <3>4, <3>5, <3>6 DEF ChainKept
  <2>2. CASE CheckChain
    <3>1. ChainIsExact' /\ authentic' \in BOOLEAN
      BY <1>3, <2>2, CheckIsExact
    <3>2. UNCHANGED readback /\ UNCHANGED <<evolve, shipped, anchored>> /\ answer # None
      BY <2>2 DEF CheckChain
    <3>3. UNCHANGED <<log, answer>>
      BY <3>2 DEF readback, store, readVars
    <3>4. StoreKept' /\ ReadKept' /\ AnswerKept'
      BY <1>3, <3>2, SameStore
    <3>5. \A i \in DOMAIN log' : log'[i].kind \notin BrokenKind => Signed(log[i])'
      BY <1>3, <3>2, <3>3, SameSignatures DEF Signed
    <3>6. ChainOK'
      BY <1>3, <3>1, <3>2 DEF ChainOK
    <3> QED BY <3>1, <3>2, <3>3, <3>4, <3>5, <3>6 DEF ChainKept
  <2> QED BY <1>5, <2>1, <2>2
<1> QED BY <1>2, <1>4, <1>5 DEF ChainStep, IInv

LEMMA SameChain ==
  ASSUME ChainIsExact, UNCHANGED <<log, answer, anchored, authentic>>
  PROVE  ChainIsExact'
<1>1. Records' = Records
  BY DEF Records, StreamOrder
<1>2. AuthenticIsPrefix'
  BY <1>1 DEF ChainIsExact, AuthenticIsPrefix
<1>3. WholeChainIsAuthentic'
  BY <1>1 DEF ChainIsExact, WholeChainIsAuthentic
<1> QED BY <1>2, <1>3 DEF ChainIsExact

LEMMA StoreStepKeeps ==
  ASSUME IInv, StoreStep
  PROVE  IInv'
<1>1. UNCHANGED <<client, sessionVars, chainVars>>
  BY DEF StoreStep
<1>2. /\ UNCHANGED <<policy, suite, reports, pc, reader, attempt, verdict, exitstatus, failBuild>>
      /\ UNCHANGED <<Elements(suite), Elements(reports)>>
      /\ UNCHANGED <<client, evolve, shipped, anchored, authentic>>
  BY <1>1 DEF sessionVars, suiteVars, pollVars, exitVars, chainVars, Elements
<1>3. SessionOK' /\ ChainOK'
  BY <1>2 DEF IInv, SessionKept, SessionOK, ChainKept, ChainOK
<1>4. (\A i \in DOMAIN log : log[i].kind \notin BrokenKind => Signed(log[i])) /\ log' = log =>
      \A i \in DOMAIN log' : log'[i].kind \notin BrokenKind => Signed(log[i])'
  BY <1>2, SameSignatures DEF Signed
<1>5. CASE Index
  <2>1. UNCHANGED <<driver, log, read, answer>>
    BY <1>5 DEF Index, store, readVars
  <2>2. StoreKept' /\ ReadKept' /\ AnswerKept'
    BY <1>5, IndexKeepsStore, IndexKeepsReader DEF IInv
  <2>3. SessionKept'
    BY <1>2, <1>3, <2>1 DEF IInv, SessionKept
  <2>4. ChainIsExact'
    BY <1>2, <2>1, SameChain DEF IInv, ChainKept
  <2>5. ChainKept'
    BY <1>2, <1>3, <1>4, <2>1, <2>4 DEF IInv, ChainKept
  <2> QED BY <2>2, <2>3, <2>5 DEF IInv
<1>6. CASE Answer
  <2>1. StoreKept' /\ ReadKept' /\ AnswerKept' /\ UNCHANGED <<store, shown>>
    BY <1>6, AnswerKeeps DEF IInv
  <2>2. read # None /\ answer = None /\ log' = log
    BY <1>6, <2>1 DEF Answer, IInv, ReadKept, store
  <2>3. SessionKept'
    BY <1>2, <1>3, <2>2 DEF IInv, SessionKept
  <2>4. authentic' = None
    BY <1>2, <2>2 DEF IInv, SessionKept, ChainKept
  <2>5. ChainIsExact'
    BY <2>4, NoneAssumption DEF ChainIsExact, AuthenticIsPrefix, WholeChainIsAuthentic
  <2>6. ChainKept'
    BY <1>2, <1>3, <1>4, <2>2, <2>4, <2>5 DEF IInv, ChainKept
  <2> QED BY <2>1, <2>3, <2>6 DEF IInv
<1> QED BY <1>5, <1>6 DEF StoreStep

LEMMA StutterKeeps ==
  ASSUME IInv, UNCHANGED vars
  PROVE  IInv'
<1>1. /\ UNCHANGED readback /\ UNCHANGED <<client, log, answer, read>>
      /\ UNCHANGED <<policy, suite, reports, pc, reader, attempt, verdict, exitstatus, failBuild>>
      /\ UNCHANGED <<Elements(suite), Elements(reports)>>
      /\ UNCHANGED <<evolve, shipped, anchored, authentic>>
  BY
  DEF vars, readback, store, readVars, sessionVars, suiteVars, pollVars, exitVars, chainVars,
      Elements
<1>2. StoreKept' /\ ReadKept' /\ AnswerKept'
  BY <1>1, SameStore DEF IInv
<1>3. SessionOK' /\ ChainOK'
  BY <1>1 DEF IInv, SessionKept, SessionOK, ChainKept, ChainOK
<1>4. ChainIsExact'
  BY <1>1, SameChain DEF IInv, ChainKept
<1>5. \A r : Signed(r)' <=> Signed(r)
  BY <1>1, SameSignatures
<1>6. client' = "chain" =>
        \A i \in DOMAIN log' : log'[i].kind \notin BrokenKind => Signed(log[i])'
  BY <1>1, SameSignatures DEF IInv, ChainKept, Signed
<1>7. SessionKept'
  BY <1>1, <1>3 DEF IInv, SessionKept
<1>8. ChainKept'
  BY <1>1, <1>3, <1>4, <1>6 DEF IInv, ChainKept
<1> QED BY <1>2, <1>7, <1>8 DEF IInv

\* The invariant holds of every store, of every session and of every chain.
THEOREM InvariantHolds == Spec => []IInv
<1>1. Init => IInv
  BY InitKeeps
<1>2. IInv /\ [Next]_vars => IInv'
  BY PytestKeeps, ChainClientKeeps, StoreStepKeeps, StutterKeeps DEF Next
<1> QED BY <1>1, <1>2, PTL DEF Spec

\* The state stays what its types say: in particular a read that goes on for another page
\* starts that page below its cap, and a green status is all that is ever turned red.
THEOREM StateIsTyped == Spec => []TypeOK
<1>1. IInv => TypeOK
  <2>1. StoreKept /\ ReadKept /\ AnswerKept => ReadbackOK
    <3> SUFFICES ASSUME StoreKept, ReadKept, AnswerKept PROVE ReadbackOK
      OBVIOUS
    <3>1. ASSUME read # None
          PROVE  /\ read.order \in Orders
                 /\ Elements(read.events) \subseteq shown
                 /\ read.offset < IF read.paged THEN WalkRows ELSE MaxRows
      <4>1. /\ read.events \in Seq(shown) /\ read.offset < Cap(read.paged)
            /\ read.order \in Orders
        BY <3>1 DEF ReadKept, ReadsOf
      <4> QED BY <4>1 DEF Elements, Cap
    <3>2. ASSUME answer # None PROVE Elements(answer.events) \subseteq shown
      <4>1. answer.events \in Seq(shown)
        BY <3>2 DEF AnswerKept
      <4> QED BY <4>1 DEF Elements
    <3> QED BY <3>1, <3>2 DEF StoreKept, ReadbackOK
  <2> QED BY <2>1 DEF IInv, TypeOK, SessionKept, ChainKept
<1> QED BY <1>1, InvariantHolds, PTL

\* query and fetch_all_pages: a read reported complete whose pages came in one order holds
\* every row the store showed when it began, however many rows arrive while it turns its
\* pages; one whose pages came in several orders has no fewer rows, of which some may be
\* the same.  A read below its cap that was answered throughout is reported complete.
THEOREM CompleteReadsAreExact == Spec => []CompleteIsExact
<1>1. IInv => CompleteIsExact
  BY DEF IInv, AnswerKept
<1> QED BY <1>1, InvariantHolds, PTL

\* verify_chain: the records of any batches, lost, repeated or reordered by any store, are
\* found authentic when they are the beginning of one batch in the order of signing, the
\* whole of the first one for a verifier with the anchor, and never otherwise.
THEOREM ChainsAreExact == Spec => []ChainIsExact
<1>1. IInv => ChainIsExact
  BY DEF IInv, ChainKept
<1> QED BY <1>1, InvariantHolds, PTL

-----------------------------------------------------------------------------
(* The summary.                                                            *)

Outcome == {"passed", "failed", "skipped"}

\* The outcome of a test is that of one of its reports, and no report of it is worse.
LEMMA OverallIsWorst ==
  ASSUME NEW S, NEW rs \in Seq(S), \A n \in DOMAIN rs : rs[n].outcome \in Outcome,
         NEW t \in NodeIds(rs)
  PROVE  /\ \E w \in DOMAIN rs : rs[w].test = t /\ Overall(rs, t) = rs[w].outcome
         /\ \A n \in DOMAIN rs : rs[n].test = t => Rank(rs[n].outcome) <= Rank(Overall(rs, t))
         /\ Overall(rs, t) \in Outcome
<1> DEFINE own == {n \in DOMAIN rs : rs[n].test = t}
           R(n) == Rank(rs[n].outcome)
           First(n) == \A m \in own : \/ R(m) < R(n)
                                      \/ R(m) = R(n) /\ n <= m
<1>1. own # {} /\ own \in SUBSET Nat /\ DOMAIN rs = 1 .. Len(rs)
  BY DEF NodeIds
<1>2. \A n \in DOMAIN rs : R(n) \in {0, 1, 2}
  BY DEF Rank, Outcome
<1>3. \E n \in own : First(n)
  <2> HIDE DEF R
  <2> DEFINE ranks == {2 - R(n) : n \in own}
  <2>1. ranks \in SUBSET Nat /\ ranks # {}
    BY <1>1, <1>2
  <2>2. PICK x \in ranks : \A y \in ranks : x <= y
    BY <2>1, LeastNatural
  <2> DEFINE top == {n \in own : 2 - R(n) = x}
  <2>3. top \in SUBSET Nat /\ top # {}
    BY <1>1, <2>2
  <2>4. PICK n \in top : \A m \in top : n <= m
    BY <2>3, LeastNatural
  <2>5. ASSUME NEW m \in own PROVE R(m) < R(n) \/ (R(m) = R(n) /\ n <= m)
    <3>1. R(m) \in {0, 1, 2} /\ R(n) \in {0, 1, 2} /\ 2 - R(n) = x
      BY <1>2, <2>4
    <3>2. x <= 2 - R(m)
      BY <2>2
    <3>3. R(m) = R(n) => m \in top
      BY <2>4
    <3>4. R(m) = R(n) => n <= m
      BY <2>4, <3>3
    <3>5. R(m) <= R(n)
      BY <3>1, <3>2
    <3>6. R(m) < R(n) \/ R(m) = R(n)
      BY <3>1, <3>5
    <3> QED BY <3>4, <3>6
  <2> QED BY <2>4, <2>5
<1> DEFINE w == CHOOSE n \in own : First(n)
<1>4. w \in own /\ First(w)
  <2> HIDE DEF own, First
  <2> QED BY <1>3
<1>5. Overall(rs, t) = rs[w].outcome
  BY Zenon DEF Overall
<1> HIDE DEF w
<1>6. \A n \in own : R(n) <= R(w)
  BY <1>1, <1>2, <1>4
<1> QED BY <1>4, <1>5, <1>6

\* The tests with each outcome are the tests.
LEMMA CountsAddUp ==
  ASSUME NEW S, NEW rs \in Seq(S), \A n \in DOMAIN rs : rs[n].outcome \in Outcome
  PROVE  /\ IsFiniteSet(NodeIds(rs))
         /\ Cardinality(NodeIds(rs)) \in Nat /\ Cardinality(NodeIds(rs)) <= Len(rs)
         /\ Count(rs, "passed") + Count(rs, "failed") + Count(rs, "skipped")
              = Cardinality(NodeIds(rs))
         /\ Count(rs, "failed") = Cardinality({rs[n].test : n \in
                                    {m \in DOMAIN rs : rs[m].outcome = "failed"}})
<1> DEFINE all == NodeIds(rs)
           With(o) == {t \in all : Overall(rs, t) = o}
<1>1. IsFiniteSet(all) /\ Cardinality(all) <= Len(rs)
  <2> DEFINE f == [n \in 1 .. Len(rs) |-> rs[n].test]
  <2>1. DOMAIN rs = 1 .. Len(rs) /\ Len(rs) \in Nat
    OBVIOUS
  <2>2. f \in Surjection(1 .. Len(rs), all)
    BY <2>1 DEF NodeIds, Surjection
  <2>3. IsFiniteSet(1 .. Len(rs)) /\ Cardinality(1 .. Len(rs)) = Len(rs)
    <3>1. 1 \in Int /\ Len(rs) \in Int
      BY <2>1
    <3>2. /\ IsFiniteSet(1 .. Len(rs))
          /\ Cardinality(1 .. Len(rs)) = IF 1 > Len(rs) THEN 0 ELSE Len(rs) - 1 + 1
      BY <3>1, FS_Interval
    <3> QED BY <2>1, <3>2
  <2> HIDE DEF f
  <2>4. IsFiniteSet(all) /\ Cardinality(all) <= Cardinality(1 .. Len(rs))
    BY <2>2, <2>3, FS_Surjection
  <2> QED BY <2>3, <2>4
<1>2. \A o : IsFiniteSet(With(o)) /\ Cardinality(With(o)) \in Nat
  BY <1>1, FS_Subset, FS_CardinalityType
<1>3. \A t \in all : Overall(rs, t) \in Outcome
  BY OverallIsWorst
<1>4. Cardinality(With("passed")) + Cardinality(With("failed")) + Cardinality(With("skipped"))
        = Cardinality(all)
  <2> DEFINE P == With("passed")
             F == With("failed")
             K == With("skipped")
  <2>1. all = (P \cup F) \cup K /\ P \cap F = {} /\ (P \cup F) \cap K = {}
    BY <1>3 DEF Outcome
  <2> HIDE DEF With
  <2>2. /\ IsFiniteSet(P \cup F)
        /\ Cardinality(P \cup F) = Cardinality(P) + Cardinality(F) - Cardinality(P \cap F)
    BY <1>2, FS_Union
  <2>3. Cardinality((P \cup F) \cup K)
          = Cardinality(P \cup F) + Cardinality(K) - Cardinality((P \cup F) \cap K)
    BY <1>2, <2>2, FS_Union
  <2>4. Cardinality({}) = 0
    BY FS_EmptySet
  <2>5. Cardinality(P \cap F) = 0 /\ Cardinality((P \cup F) \cap K) = 0
    BY <2>1, <2>4
  <2> HIDE DEF P, F, K
  <2>6. Cardinality(P) \in Nat /\ Cardinality(F) \in Nat /\ Cardinality(K) \in Nat
    BY <1>2 DEF P, F, K
  <2>7. Cardinality((P \cup F) \cup K) = Cardinality(P) + Cardinality(F) + Cardinality(K)
    BY <2>2, <2>3, <2>5, <2>6
  <2>8. Cardinality(all) = Cardinality(P) + Cardinality(F) + Cardinality(K)
    BY <2>1, <2>7
  <2> QED BY <2>8 DEF P, F, K
<1>5. With("failed") = {rs[n].test : n \in {m \in DOMAIN rs : rs[m].outcome = "failed"}}
  <2>1. ASSUME NEW t \in With("failed")
        PROVE  \E n \in DOMAIN rs : rs[n].outcome = "failed" /\ rs[n].test = t
    BY OverallIsWorst
  <2>2. ASSUME NEW n \in DOMAIN rs, rs[n].outcome = "failed" PROVE rs[n].test \in With("failed")
    <3> DEFINE t == rs[n].test
    <3>1. t \in all
      BY DEF NodeIds
    <3>2. Overall(rs, t) \in Outcome /\ Rank("failed") <= Rank(Overall(rs, t))
      BY <2>2, <3>1, OverallIsWorst
    <3>3. Overall(rs, t) = "failed"
      BY <3>2 DEF Rank, Outcome
    <3> QED BY <3>1, <3>3
  <2> QED BY <2>1, <2>2
<1>6. \A o : Count(rs, o) = Cardinality(With(o))
  BY DEF Count
<1>7. Cardinality(all) \in Nat
  BY <1>1, FS_CardinalityType
<1> QED BY <1>1, <1>4, <1>5, <1>6, <1>7

-----------------------------------------------------------------------------
(* The invariant.                                                          *)

Shipment == BuildOutcomeRecords(reports, policy.key)

ReportsKept ==
  /\ \A n \in DOMAIN suite : suite[n].outcome \in Outcome
  /\ \A n \in DOMAIN reports : reports[n].outcome \in Outcome

\* The rows are records of the batch, but for the stamp, and none twice.
RecordsOf(batch, rows, held) ==
  \E f \in [rows -> DOMAIN batch] :
    /\ \A i, j \in rows : f[i] = f[j] => i = j
    /\ \A i \in rows : /\ held[i] = [batch[f[i]] EXCEPT !.ship = held[i].ship]
                      /\ held[i].kind = batch[f[i]].kind

BatchKept ==
  /\ client = "chain" \/ pc \in {"collecting", "running", "killed"} => Batch = {}
  /\ RecordsOf(Shipment, Batch, log)

\* A store that was not reached brought no row of a read it calls complete.
AnswerTold ==
  answer # None =>
    /\ answer.raised => ~ answer.reachable
    /\ answer.complete /\ ~ answer.reachable => answer.events = << >>

Settled == client = "pytest" /\ pc = "done" /\ answer # None

Unread == [ok |-> FALSE, verdict |-> "error", sig |-> "none", reasons |-> {"error"}]

\* A verdict is what the last read said; the plugin's decides about the build.
SettledKept ==
  /\ client = "chain" => ~ Plugin
  /\ verdict # None => Settled
  /\ failBuild /\ Plugin /\ Queryable => Settled
  /\ Settled /\ answer.raised =>
       /\ verdict = Unread
       /\ Plugin => failBuild = (policy.mode = "strict" /\ exitstatus = 0)
  /\ Settled /\ ~ answer.raised =>
       /\ verdict = IF Body(FALSE) # None THEN Body(FALSE) ELSE Body(TRUE)
       /\ Plugin => failBuild = (VerifyPolicy(verdict, policy.mode) /\ exitstatus = 0)

SInv == ReportsKept /\ BatchKept /\ AnswerTold /\ SettledKept

-----------------------------------------------------------------------------
(* The rows of the session.                                                *)

LEMMA NoRecords ==
  ASSUME NEW batch, NEW held
  PROVE  RecordsOf(batch, {}, held)
<1> DEFINE f == [i \in {} |-> i]
<1>1. f \in [{} -> DOMAIN batch]
  OBVIOUS
<1> HIDE DEF f
<1> QED BY <1>1 DEF RecordsOf

\* The rows of the session that a batch leaves in a store that had none.
LEMMA RowsShipped ==
  ASSUME NEW B, NEW batch, Batched(batch, B), NEW raised, StoreKept, Ship(batch, raised),
         Batch = {}
  PROVE  RecordsOf(batch, Batch', log')
<1>1. Grown(log, log', batch, driver)
  BY ShipGrows DEF StoreKept
<1> DEFINE added == {i \in Whole(log') : i > Len(log)}
<1>2. PICK g \in [added -> DOMAIN batch] :
        /\ \A i, j \in added : g[i] = g[j] => i = j
        /\ \A i \in added : log'[i] = [batch[g[i]] EXCEPT !.ship = Len(log) + 1]
  BY <1>1 DEF Grown
<1>3. ASSUME NEW i \in Batch' PROVE i \in added
  <2>1. i \in DOMAIN log' /\ log'[i].kind \in {"summary", "outcome"}
        /\ (log'[i].kind = "summary" => log'[i].run = "this")
    BY <1>3 DEF Batch, Own
  <2>2. Len(log) \in Nat /\ DOMAIN log = 1 .. Len(log) /\ i \in Nat /\ i > 0
    BY <1>1, <2>1 DEF StoreKept, Grown
  <2>3. CASE i \in DOMAIN log
    <3>1. log'[i] = log[i] \/ log'[i] = Malformed
      BY <1>1, <2>3 DEF Grown
    <3>2. log'[i] = log[i]
      BY <2>1, <3>1 DEF Malformed
    <3> QED BY <2>1, <2>3, <3>2 DEF Batch, Own
  <2>4. CASE i \notin DOMAIN log
    BY <2>1, <2>2, <2>4 DEF Whole, BrokenKind
  <2> QED BY <2>3, <2>4
<1> HIDE DEF added
<1> DEFINE f == [i \in Batch' |-> g[i]]
<1>4. ASSUME NEW i \in Batch'
      PROVE  /\ f[i] \in DOMAIN batch
             /\ log'[i] = [batch[f[i]] EXCEPT !.ship = log'[i].ship]
             /\ log'[i].kind = batch[f[i]].kind
  <2>1. f[i] = g[i] /\ g[i] \in DOMAIN batch
    BY <1>2, <1>3
  <2>2. {"kind", "ship"} \subseteq DOMAIN batch[g[i]]
    BY <2>1 DEF Batched
  <2>3. log'[i] = [batch[g[i]] EXCEPT !.ship = Len(log) + 1]
    BY <1>2, <1>3
  <2> QED BY <2>1, <2>2, <2>3
<1>5. \A i, j \in Batch' : f[i] = f[j] => i = j
  BY <1>2, <1>3
<1>6. f \in [Batch' -> DOMAIN batch]
  BY <1>4
<1> HIDE DEF f
<1> QED BY <1>4, <1>5, <1>6 DEF RecordsOf

\* A batch without records of a session leaves no row of a session.
LEMMA NoRowsShipped ==
  ASSUME NEW B, NEW batch, Batched(batch, B), NEW raised, StoreKept, Ship(batch, raised),
         Batch = {}, \A n \in DOMAIN batch : batch[n].kind \notin {"summary", "outcome"}
  PROVE  Batch' = {}
<1>1. \A i \in Batch' : log'[i].kind \in {"summary", "outcome"}
  BY DEF Batch, Own
<1>2. RecordsOf(batch, Batch', log')
  BY RowsShipped
<1> QED BY <1>1, <1>2 DEF RecordsOf

LEMMA BatchIs ==
  ASSUME NEW T, NEW rs \in Seq(T), NEW key
  PROVE  LET n == Len(rs)
             b == BuildOutcomeRecords(rs, key)
         IN /\ n \in Nat /\ DOMAIN b = 1 .. n + 1 /\ DOMAIN rs = 1 .. n
            /\ \A k \in 1 .. n : b[k] = OutcomeRecord(rs[k]) /\ b[k].kind = "outcome"
            /\ b[n + 1] = SummaryRecord(rs, key, "this") /\ b[n + 1].kind = "summary"
<1> DEFINE outcomes == [n \in DOMAIN rs |-> OutcomeRecord(rs[n])]
           summary == SummaryRecord(rs, key, "this")
           O == {OutcomeRecord(rs[n]) : n \in DOMAIN rs}
           b == BuildOutcomeRecords(rs, key)
<1>1. /\ Len(rs) \in Nat /\ DOMAIN rs = 1 .. Len(rs)
      /\ outcomes \in Seq(O) /\ Len(outcomes) = Len(rs)
      /\ \A k \in 1 .. Len(rs) : outcomes[k] = OutcomeRecord(rs[k])
  OBVIOUS
<1>2. b = Append(outcomes, summary)
  BY DEF BuildOutcomeRecords
<1>3. summary.kind = "summary"
  BY DEF SummaryRecord
<1>4. \A k \in 1 .. Len(rs) : OutcomeRecord(rs[k]).kind = "outcome"
  BY DEF OutcomeRecord
<1> HIDE DEF outcomes, summary, O, b
<1>5. /\ DOMAIN b = 1 .. Len(rs) + 1
      /\ \A k \in 1 .. Len(rs) : b[k] = outcomes[k]
      /\ b[Len(rs) + 1] = summary
  <2>1. outcomes \in Seq(O \cup {summary})
    BY <1>1
  <2> QED BY <1>1, <1>2, <2>1
<1> QED BY <1>1, <1>3, <1>4, <1>5 DEF summary, b

-----------------------------------------------------------------------------
(* The invariant is kept.                                                  *)

LEMMA SameShipment ==
  ASSUME UNCHANGED <<policy, reports>>
  PROVE  Shipment' = Shipment
BY DEF Shipment, BuildOutcomeRecords, OutcomeRecord, SummaryRecord, NodeIds, Count, Overall,
       Rank

\* What the steps of the other client, of the store and of the reader leave alone.
LEMMA SameBatch ==
  ASSUME BatchKept, UNCHANGED <<log, policy, reports>>,
         client' = "chain" \/ pc' \in {"collecting", "running", "killed"} => Batch = {}
  PROVE  BatchKept'
<1>1. Batch' = Batch /\ Shipment' = Shipment
  BY SameShipment DEF Batch, Own
<1> QED BY <1>1 DEF BatchKept

LEMMA SInit ==
  ASSUME Init
  PROVE  SInv
<1>1. \A s \in Scenarios : \A n \in DOMAIN s.held :
        s.held[n].kind = "summary" /\ s.held[n].run # "this"
  BY SessionAssumption
<1>2. \A s \in Scenarios : \A n \in DOMAIN s.suite : s.suite[n].outcome \in Outcome
  BY SessionAssumption DEF Outcome
<1>3. Batch = {} /\ reports = << >> /\ answer = None /\ verdict = None /\ failBuild = FALSE
      /\ (client = "chain" => reader = "cli")
  <2>1. CASE client = "pytest" /\ SessionInit
    BY <1>1, <2>1 DEF SessionInit, Opened, Batch, Own
  <2>2. CASE client = "chain" /\ Opened(<<>>) /\ reports = << >> /\ verdict = None
             /\ failBuild = FALSE /\ reader = "cli"
    BY <2>2 DEF Opened, Batch, Own
  <2> QED BY <2>1, <2>2 DEF Init
<1>4. ReportsKept
  BY <1>2 DEF Init, SessionInit, ReportsKept
<1>5. BatchKept
  BY <1>3, NoRecords DEF BatchKept
<1>6. AnswerTold /\ SettledKept
  BY <1>3 DEF AnswerTold, SettledKept, Settled, Plugin
<1> QED BY <1>4, <1>5, <1>6 DEF SInv

\* A hook ships at most one batch, and settles nothing but a build it cannot check.
LEMMA HooksTell ==
  ASSUME IInv, SInv, PytestStep, Hooks
  PROVE  SInv'
<1>1. /\ client = "pytest" /\ client' = "pytest" /\ pc \in {"collecting", "running"}
      /\ read = None /\ answer = None /\ verdict = None /\ Batch = {}
      /\ StoreKept /\ reports \in Seq(Elements(reports)) /\ suite \in Seq(Elements(suite))
      /\ ~ failBuild /\ UNCHANGED <<policy, reader, verdict, answer, driver>>
  <2>1. client = "pytest" /\ client' = "pytest" /\ pc \in {"collecting", "running"}
    BY DEF PytestStep, Hooks, CollectionFinish, LogReport, FinishUnshipped, FinishShipped
  <2>2. /\ read = None /\ answer = None /\ verdict = None /\ Batch = {}
        /\ StoreKept /\ reports \in Seq(Elements(reports)) /\ suite \in Seq(Elements(suite))
        /\ ~ failBuild
    BY <2>1 DEF IInv, SInv, SessionKept, SessionOK, BatchKept, SettledKept, Settled
  <2>3. UNCHANGED <<policy, reader, verdict, answer, driver>>
    BY DEF Hooks, CollectionFinish, LogReport, FinishUnshipped, FinishShipped, suiteVars,
           readback, store, readVars, Ship
  <2> QED BY <2>1, <2>2, <2>3
<1>2. pc' \in {"running", "polling", "done"}
  BY DEF Hooks, CollectionFinish, LogReport, FinishUnshipped, FinishShipped
<1>3. ReportsKept'
  <2>1. CASE LogReport
    <3>1. suite # << >> /\ suite' = Tail(suite)
          /\ (reports' = reports \/ reports' = Append(reports, Head(suite)))
      BY <2>1 DEF LogReport
    <3>2. /\ \A n \in DOMAIN suite : suite[n].outcome \in Outcome
          /\ \A n \in DOMAIN reports : reports[n].outcome \in Outcome
      BY DEF SInv, ReportsKept
    <3>3. /\ \A n \in DOMAIN suite' : n + 1 \in DOMAIN suite /\ suite'[n] = suite[n + 1]
          /\ Head(suite) = suite[1] /\ 1 \in DOMAIN suite
      BY <1>1, <3>1
    <3>4. \A n \in DOMAIN reports' : \/ n \in DOMAIN reports /\ reports'[n] = reports[n]
                                     \/ reports'[n] = Head(suite)
      BY <1>1, <3>1
    <3> QED BY <3>2, <3>3, <3>4 DEF ReportsKept
  <2>2. ASSUME UNCHANGED <<suite, reports>> PROVE ReportsKept'
    BY <2>2 DEF SInv, ReportsKept
  <2> QED
    BY <2>1, <2>2
    DEF Hooks, CollectionFinish, FinishUnshipped, FinishShipped, suiteVars
<1>4. BatchKept'
  <2>1. ASSUME Batch' = {} PROVE BatchKept'
    BY <2>1, NoRecords DEF BatchKept
  <2>2. ASSUME UNCHANGED log PROVE Batch' = {}
    BY <1>1, <2>2 DEF Batch, Own
  <2>3. UNCHANGED readback => UNCHANGED log
    BY DEF readback, store
  <2>4. CASE CollectionFinish
    <3>1. Batched(<<Start>>, {Start})
      BY <1>1, SessionBatches
    <3>2. \A n \in DOMAIN <<Start>> : <<Start>>[n].kind \notin {"summary", "outcome"}
      BY DEF Start
    <3>3. \A raised : Ship(<<Start>>, raised) => Batch' = {}
      BY <1>1, <3>1, <3>2, NoRowsShipped
    <3> QED BY <2>1, <2>2, <2>3, <2>4, <3>3 DEF CollectionFinish
  <2>5. CASE LogReport
    BY <2>1, <2>2, <2>3, <2>5 DEF LogReport
  <2>6. ASSUME NEW raised, Ship(Shipment, raised), UNCHANGED <<policy, reports>>,
               pc' \in {"polling", "done"}
        PROVE  BatchKept'
    <3>1. PICK B : Batched(Shipment, B)
      BY <1>1, SessionBatches DEF Shipment
    <3>2. RecordsOf(Shipment, Batch', log')
      BY <1>1, <2>6, <3>1, RowsShipped
    <3>3. Shipment' = Shipment
      BY <2>6, SameShipment
    <3> QED BY <1>1, <2>6, <3>2, <3>3 DEF BatchKept
  <2>7. CASE FinishUnshipped
    BY <2>1, <2>2, <2>3, <2>6, <2>7 DEF FinishUnshipped, suiteVars, Shipment
  <2>8. CASE FinishShipped
    <3>1. Ship(Shipment, FALSE) /\ UNCHANGED <<policy, reports>> /\ pc' \in {"polling", "done"}
      BY <2>8 DEF FinishShipped, suiteVars, Shipment
    <3> QED BY <2>6, <3>1
  <2> QED BY <2>4, <2>5, <2>7, <2>8 DEF Hooks
<1>5. AnswerTold'
  BY <1>1 DEF AnswerTold
<1>6. SettledKept'
  <2>1. failBuild' => ~ Queryable'
    BY <1>1
    DEF Hooks, CollectionFinish, LogReport, FinishUnshipped, FinishShipped, exitVars, Fail,
        Queryable
  <2> QED BY <1>1, <2>1 DEF SettledKept, Settled
<1> QED BY <1>3, <1>4, <1>5, <1>6 DEF SInv

\* What evaluate_prefix says depends on nothing a settled session still changes.
LEMMA SameBody ==
  ASSUME UNCHANGED <<log, answer, policy, reports, reader>>,
         Reads' = Reads, Started' = Started, NEW final
  PROVE  Body(final)' = Body(final)
<1>1. Expected' = Expected /\ CheckKey' = CheckKey /\ Required' = Required
  BY DEF Expected, CheckKey, Required, Plugin, NodeIds, RequireSignature
<1>2. \A result, started, ok, expected, key, required :
        EvaluatePrefix(result, started, ok, expected, key, required, final)'
          = EvaluatePrefix(result, started, ok, expected, key, required, final)
  <2> SUFFICES ASSUME NEW result, NEW started, NEW ok, NEW expected, NEW key, NEW required
               PROVE  EvaluatePrefix(result, started, ok, expected, key, required, final)'
                        = EvaluatePrefix(result, started, ok, expected, key, required, final)
    OBVIOUS
  <2>1. log' = log
    OBVIOUS
  <2> QED
    BY <2>1, SMTT(30)
    DEF EvaluatePrefix, StreamOrder, Ordered, Events, SignatureStatus, SigBad, NoEvidence
<1> QED BY <1>1, <1>2 DEF Body

\* A session that is settled stays so, and so does what it said.
LEMMA SettledStays ==
  ASSUME SettledKept,
         UNCHANGED <<client, driver, log, answer, policy, reports, reader, pc, queried, sawStart,
                     verdict, failBuild, exitstatus>>
  PROVE  SettledKept'
<1>1. Reads' = Reads /\ Started' = Started
  BY DEF Reads, Started, Events
<1>2. Body(FALSE)' = Body(FALSE) /\ Body(TRUE)' = Body(TRUE)
  BY <1>1, SameBody
<1>3. /\ Settled' = Settled /\ Plugin' = Plugin /\ Queryable' = Queryable
      /\ VerifyPolicy(verdict, policy.mode)' = VerifyPolicy(verdict, policy.mode)
  BY DEF Settled, Plugin, Queryable, VerifyPolicy
<1> QED BY <1>2, <1>3 DEF SettledKept, Unread

\* The end of a poll settles the session.
LEMMA SettleTells ==
  ASSUME SettledKept, client = "pytest", client' = "pytest", answer # None,
         pc = "polling", NEW fails \in BOOLEAN, NEW body,
         Settle(body, fails), answer.raised => body = Unread /\ fails = (policy.mode = "strict"),
         ~ answer.raised =>
           /\ body = IF Body(FALSE) # None THEN Body(FALSE) ELSE Body(TRUE)
           /\ fails = VerifyPolicy(body, policy.mode)
  PROVE  SettledKept'
<1>1. /\ UNCHANGED <<driver, log, answer, policy, reports, reader, exitstatus>>
      /\ pc' = "done" /\ verdict' = body /\ queried' = Reads /\ sawStart' = Started
      /\ failBuild' = IF Plugin THEN fails /\ exitstatus = 0 ELSE failBuild
  BY DEF Settle, readback, store, readVars, suiteVars
<1>2. Reads' = Reads /\ Started' = Started
  BY <1>1 DEF Reads, Started, Events
<1>3. Body(FALSE)' = Body(FALSE) /\ Body(TRUE)' = Body(TRUE)
  BY <1>1, <1>2, SameBody
<1>4. Settled' /\ Plugin' = Plugin
  BY <1>1 DEF Settled, Plugin
<1>5. VerifyPolicy(verdict, policy.mode)' = VerifyPolicy(body, policy.mode)
  BY <1>1 DEF VerifyPolicy
<1> QED BY <1>1, <1>3, <1>4, <1>5 DEF SettledKept, Unread

LEMMA PollingTells ==
  ASSUME IInv, SInv, PytestStep, Polling
  PROVE  SInv'
<1>1. /\ client = "pytest" /\ client' = "pytest" /\ pc = "polling"
      /\ verdict = None /\ ~ (failBuild /\ Plugin /\ Queryable)
      /\ ReportsKept /\ BatchKept /\ SettledKept /\ AnswerTold
  <2>1. client = "pytest" /\ client' = "pytest" /\ pc = "polling"
    BY DEF PytestStep, Polling, Poll, TryAgain, Conclude, VerifyError
  <2> QED BY <2>1 DEF SInv, SettledKept, Settled
<1>2. /\ UNCHANGED <<driver, log, policy, suite, reports, reader>> /\ pc' \in {"polling", "done"}
      /\ pc' = "polling" => UNCHANGED <<verdict, failBuild>> /\ answer' = None
      /\ answer' # None => UNCHANGED answer
  <2>1. CASE Poll
    BY <1>1, <2>1
    DEF Poll, BeginRead, store, sessionVars, suiteVars, exitVars
  <2>2. CASE TryAgain
    BY <1>1, <2>2 DEF TryAgain, ReadAgain, store, suiteVars, exitVars
  <2>3. CASE Conclude \/ VerifyError
    BY <2>3 DEF Conclude, VerifyError, Settle, readback, store, readVars, suiteVars
  <2> QED BY <2>1, <2>2, <2>3 DEF Polling
<1>3. ReportsKept' /\ BatchKept'
  BY <1>1, <1>2, SameBatch DEF ReportsKept
<1>4. AnswerTold'
  BY <1>1, <1>2 DEF AnswerTold
<1>5. SettledKept'
  <2>1. CASE pc' = "polling"
    BY <1>1, <1>2, <2>1 DEF SettledKept, Settled, Plugin, Queryable
  <2>2. CASE Conclude
    <3> DEFINE body == IF Body(FALSE) # None THEN Body(FALSE) ELSE Body(TRUE)
               fails == VerifyPolicy(body, policy.mode)
    <3>1. /\ answer # None /\ ~ answer.raised /\ Settle(body, fails)
      BY <2>2 DEF Conclude
    <3>2. fails \in BOOLEAN
      BY DEF VerifyPolicy
    <3>3. body = IF Body(FALSE) # None THEN Body(FALSE) ELSE Body(TRUE)
      OBVIOUS
    <3>4. fails = VerifyPolicy(body, policy.mode)
      OBVIOUS
    <3> HIDE DEF body, fails
    <3> QED BY <1>1, <3>1, <3>2, <3>3, <3>4, SettleTells
  <2>3. CASE VerifyError
    <3> DEFINE fails == policy.mode = "strict"
    <3>1. /\ answer # None /\ answer.raised /\ Settle(Unread, fails) /\ fails \in BOOLEAN
      BY <2>3 DEF VerifyError, Unread
    <3>2. fails = (policy.mode = "strict")
      OBVIOUS
    <3> HIDE DEF fails
    <3> QED BY <1>1, <3>1, <3>2, SettleTells
  <2>4. Poll \/ TryAgain => pc' = "polling"
    BY <1>1 DEF Poll, TryAgain, ReadAgain, sessionVars
  <2> QED BY <2>1, <2>2, <2>3, <2>4 DEF Polling
<1> QED BY <1>3, <1>4, <1>5 DEF SInv

LEMMA PytestTells ==
  ASSUME IInv, SInv, PytestStep
  PROVE  SInv'
<1>1. ASSUME Killed \/ Recheck
      PROVE  SInv'
  <2>1. /\ client = "pytest" /\ client' = "pytest" /\ pc \in {"running", "done", "killed"}
        /\ UNCHANGED <<driver, log, policy, suite, reports>>
    BY <1>1 DEF PytestStep, Killed, Recheck, readback, store, suiteVars
  <2>2. \/ /\ pc = "running" /\ pc' = "killed"
           /\ answer' = None /\ verdict' = None /\ UNCHANGED <<failBuild, reader>>
        \/ /\ pc \in {"done", "killed"} /\ pc' = "polling" /\ answer' = None /\ verdict' = None
           /\ reader' = "cli"
    BY <1>1, <2>1
    DEF Killed, Recheck, readback, readVars, exitVars, IInv, SessionKept, SInv, SettledKept,
        Settled
  <2>3. ReportsKept' /\ BatchKept'
    <3>1. pc' = "killed" => Batch = {}
      BY <2>1, <2>2 DEF SInv, BatchKept
    <3> QED BY <2>1, <2>2, <3>1, SameBatch DEF SInv, ReportsKept
  <2>4. AnswerTold' /\ SettledKept'
    <3>1. ~ Settled' /\ answer' = None /\ verdict' = None /\ client' # "chain"
      BY <2>1, <2>2 DEF Settled
    <3>2. ~ (failBuild' /\ Plugin' /\ Queryable')
      BY <2>1, <2>2 DEF SInv, SettledKept, Settled, Plugin, Queryable
    <3> QED BY <3>1, <3>2 DEF AnswerTold, SettledKept
  <2> QED BY <2>3, <2>4 DEF SInv
<1> QED BY <1>1, HooksTell, PollingTells DEF PytestStep

LEMMA SameTold ==
  ASSUME AnswerTold, UNCHANGED answer \/ answer' = None
  PROVE  AnswerTold'
BY DEF AnswerTold

LEMMA ChainHasNoRows ==
  ASSUME StoreKept, Batch = {}, NEW b \in DOMAIN Batches, NEW raised,
         Ship(SignChain(b), raised)
  PROVE  Batch' = {}
<1> DEFINE chain == SignChain(b)
<1>1. /\ DOMAIN chain = 1 .. Batches[b]
      /\ chain \in Seq(Elements(chain))
      /\ \A n \in 1 .. Batches[b] :
           chain[n].kind = "chained" /\ DOMAIN chain[n] = {"kind", "ship", "body", "prev", "mac"}
  BY SignedRecords
<1>2. Ship(chain, raised)
  OBVIOUS
<1> HIDE DEF chain
<1>3. Batched(chain, Elements(chain))
  BY <1>1 DEF Batched, BrokenKind
<1>4. \A n \in DOMAIN chain : chain[n].kind \notin {"summary", "outcome"}
  BY <1>1
<1> QED BY <1>2, <1>3, <1>4, NoRowsShipped

\* A producer of chains ships no row of a session.
LEMMA ChainTells ==
  ASSUME IInv, SInv, ChainStep
  PROVE  SInv'
<1>1. /\ client = "chain" /\ client' = "chain" /\ UNCHANGED sessionVars
      /\ Batch = {} /\ ReportsKept /\ BatchKept /\ SettledKept /\ AnswerTold /\ StoreKept
  BY DEF ChainStep, SInv, BatchKept, IInv
<1>2. UNCHANGED <<policy, suite, reports, reader, verdict>>
  BY <1>1 DEF sessionVars, suiteVars
<1>3. ReportsKept'
  BY <1>1, <1>2 DEF ReportsKept
<1>4. SettledKept'
  BY <1>1, <1>2 DEF SettledKept, Settled, Plugin
<1>5. BatchKept' /\ AnswerTold'
  <2>1. CASE ShipChain
    <3>1. PICK raised \in BOOLEAN : Ship(SignChain(shipped + 1), raised)
      BY <2>1 DEF ShipChain
    <3>2. shipped + 1 \in DOMAIN Batches
      BY <1>1, <2>1, SomeBatches, ChainAssumption DEF ShipChain, IInv, ChainKept, ChainOK
    <3>3. Batch' = {}
      BY <1>1, <3>1, <3>2, ChainHasNoRows
    <3>4. answer' = answer
      BY <2>1, <3>1 DEF Ship, readVars
    <3> QED BY <1>1, <3>3, <3>4, NoRecords, SameTold DEF BatchKept
  <2>2. CASE ReadChain
    <3>1. log' = log /\ answer' = answer
      BY <2>2 DEF ReadChain, BeginRead, store
    <3> QED BY <1>1, <1>2, <3>1, SameBatch, SameTold
  <2>3. CASE CheckChain
    <3>1. log' = log /\ answer' = answer
      BY <2>3 DEF CheckChain, readback, store, readVars
    <3> QED BY <1>1, <1>2, <3>1, SameBatch, SameTold
  <2> QED BY <2>1, <2>2, <2>3 DEF ChainStep
<1> QED BY <1>3, <1>4, <1>5 DEF SInv

\* Whatever a driver answers with, it has no rows of a store that it did not reach.
LEMMA AnswerTells ==
  ASSUME IInv, AnswerTold, Answer
  PROVE  AnswerTold'
<1>1. answer = None /\ read # None
  BY DEF Answer, IInv, ReadKept
<1>2. \A clean, reachable, complete, events :
        /\ Returns(clean, reachable, complete, events)
        /\ (complete /\ ~ reachable => events = << >>)
        => AnswerTold'
  BY DEF Returns, AnswerTold
<1>3. CASE QueryMemory
  BY <1>2, <1>3 DEF QueryMemory, Result
<1>4. CASE QueryJsonl
  BY <1>2, <1>4 DEF QueryJsonl, Result
<1>5. CASE QueryOtel
  BY <1>2, <1>5 DEF QueryOtel, Result
<1>6. CASE QueryClickHouse
  BY <1>2, <1>6 DEF QueryClickHouse, Result
<1>7. CASE QueryVictoriaLogs
  BY <1>2, <1>7 DEF QueryVictoriaLogs, Result
<1>8. CASE QueryOpenObserve
  BY <1>1, <1>2, <1>8, SameTold DEF QueryOpenObserve, Result, TurnPage
<1>9. CASE WalkPage
  BY <1>1, <1>2, <1>9, SameTold DEF WalkPage, Result, TurnPage
<1>10. ASSUME Raise PROVE AnswerTold'
  BY <1>10 DEF Raise, AnswerTold
<1>11. CASE WalkUnpaged
  BY <1>10, <1>11 DEF WalkUnpaged
<1>12. CASE FileFails
  BY <1>2, <1>12 DEF FileFails, Faulty
<1>13. ASSUME NEW failure, NEW header, RequestFails(failure, header)
       PROVE  AnswerTold'
  BY <1>2, <1>10, <1>13 DEF RequestFails, Faulty
<1>14. CASE BodyGarbled
  BY <1>2, <1>13, <1>14 DEF BodyGarbled, Faulty
<1> QED
  BY <1>3, <1>4, <1>5, <1>6, <1>7, <1>8, <1>9, <1>11, <1>12, <1>13, <1>14 DEF Answer

LEMMA StoreTells ==
  ASSUME IInv, SInv, StoreStep
  PROVE  SInv'
<1>1. /\ UNCHANGED <<client, policy, suite, reports, reader, pc, queried, sawStart, verdict,
                     failBuild, exitstatus, log, driver>>
      /\ ReportsKept /\ BatchKept /\ SettledKept /\ AnswerTold
  BY DEF StoreStep, sessionVars, suiteVars, pollVars, exitVars, Index, Answer, store, SInv
<1>2. ReportsKept' /\ BatchKept'
  BY <1>1, SameBatch DEF ReportsKept, BatchKept
<1>3. AnswerTold'
  BY <1>1, AnswerTells, SameTold DEF StoreStep, Index, readVars
<1>4. SettledKept'
  <2>1. CASE Index
    BY <1>1, <2>1, SettledStays DEF Index, readVars
  <2>2. CASE Answer
    <3>1. read # None /\ answer = None
      BY <2>2 DEF Answer, IInv, ReadKept
    <3>2. client = "pytest" => pc = "polling"
      BY <3>1 DEF IInv, SessionKept
    <3>3. ~ Settled /\ ~ Settled' /\ Plugin' = Plugin /\ Queryable' = Queryable
      BY <1>1, <3>1, <3>2 DEF Settled, Plugin, Queryable
    <3> QED BY <1>1, <3>3 DEF SettledKept
  <2> QED BY <2>1, <2>2 DEF StoreStep
<1> QED BY <1>2, <1>3, <1>4 DEF SInv

LEMMA StutterTells ==
  ASSUME SInv, UNCHANGED vars
  PROVE  SInv'
<1>1. /\ UNCHANGED <<client, policy, suite, reports, reader, pc, queried, sawStart, verdict,
                     failBuild, exitstatus, log, driver, answer>>
      /\ ReportsKept /\ BatchKept /\ SettledKept /\ AnswerTold
  BY
  DEF vars, sessionVars, suiteVars, pollVars, exitVars, readback, store, readVars, SInv
<1>2. ReportsKept' /\ BatchKept'
  BY <1>1, SameBatch DEF ReportsKept, BatchKept
<1> QED BY <1>1, <1>2, SameTold, SettledStays DEF SInv

\* A verdict stays what the last read says of the rows of the session.
THEOREM SessionInvariantHolds == Spec => [](IInv /\ SInv)
<1>1. Init => SInv
  BY SInit
<1>2. IInv /\ SInv /\ [Next]_vars => SInv'
  BY PytestTells, ChainTells, StoreTells, StutterTells DEF Next
<1> QED BY <1>1, <1>2, InvariantHolds, PTL DEF Spec

-----------------------------------------------------------------------------
(* What the last read holds.                                               *)

ReadRows  == StreamOrder(answer.events)
Summaries == IF answer.complete THEN Events("summary", ReadRows) ELSE {}
Outcomes  == Events("outcome", ReadRows)
Summary   == log[ReadRows[CHOOSE n \in Summaries : \A m \in Summaries : n <= m]]

\* The rows in the order of the stream are the rows of the answer.
LEMMA ReadRowsAre ==
  ASSUME IInv, answer # None
  PROVE  /\ Len(answer.events) \in Nat /\ DOMAIN ReadRows = 1 .. Len(answer.events)
         /\ \A n \in DOMAIN ReadRows : ReadRows[n] \in Elements(answer.events)
         /\ \A i \in Elements(answer.events) : \E n \in DOMAIN ReadRows : ReadRows[n] = i
         /\ Elements(answer.events) \subseteq DOMAIN log
<1> DEFINE events == answer.events
<1>1. events \in Seq(shown) /\ shown \subseteq DOMAIN log
      /\ \A i \in DOMAIN log : log[i].ship \in Int
  BY DEF IInv, StoreKept, RowKept, AnswerKept
<1> HIDE DEF events
<1>2. /\ DOMAIN events = 1 .. Len(events) /\ Len(events) \in Nat
      /\ \A n \in DOMAIN events : events[n] \in shown
  BY <1>1
<1>3. PICK f \in [DOMAIN events -> DOMAIN events] :
        /\ \A k, l \in DOMAIN events : f[k] = f[l] => k = l
        /\ \A n \in DOMAIN events : \E k \in DOMAIN events : f[k] = n
        /\ StreamOrder(events) = [k \in DOMAIN events |-> events[f[k]]]
  <2>1. \A n \in DOMAIN events : log[events[n]].ship \in Int
    BY <1>1, <1>2
  <2>2. events \in Seq(shown)
    BY <1>1
  <2> QED BY <2>1, <2>2, StreamOrderPermutes
<1>4. ReadRows = [k \in DOMAIN events |-> events[f[k]]]
  BY <1>3 DEF ReadRows, events
<1>5. ASSUME NEW i \in Elements(events)
      PROVE  i \in DOMAIN log /\ \E n \in DOMAIN ReadRows : ReadRows[n] = i
  <2>1. PICK n \in DOMAIN events : events[n] = i
    BY <1>5 DEF Elements
  <2>2. PICK k \in DOMAIN events : f[k] = n
    BY <1>3
  <2>3. i \in DOMAIN log
    BY <1>1, <1>2, <2>1
  <2>4. k \in DOMAIN ReadRows /\ ReadRows[k] = i
    BY <1>4, <2>1, <2>2
  <2> QED BY <2>3, <2>4
<1>6. \A n \in DOMAIN ReadRows : ReadRows[n] \in Elements(events)
  BY <1>3, <1>4 DEF Elements
<1> QED BY <1>2, <1>4, <1>5, <1>6 DEF events

\* The summary that is looked at is one of the rows.
LEMMA SummaryIsThere ==
  ASSUME IInv, answer # None, Summaries # {}
  PROVE  /\ answer.complete
         /\ \E i \in Elements(answer.events) :
              i \in DOMAIN log /\ Summary = log[i] /\ log[i].kind = "summary"
<1>1. answer.complete /\ Summaries = Events("summary", ReadRows)
  BY DEF Summaries
<1>2. Summaries \in SUBSET Nat /\ Summaries \subseteq DOMAIN ReadRows
  BY <1>1, ReadRowsAre DEF Events
<1>3. \E n \in Summaries : \A m \in Summaries : n <= m
  BY <1>2, LeastNatural
<1> DEFINE n == CHOOSE k \in Summaries : \A m \in Summaries : k <= m
<1>4. n \in Summaries
  BY <1>3
<1>5. Summary = log[ReadRows[n]]
  BY DEF Summary
<1> HIDE DEF n
<1>6. log[ReadRows[n]].kind = "summary"
  BY <1>1, <1>4 DEF Events
<1> QED BY <1>1, <1>2, <1>4, <1>5, <1>6, ReadRowsAre

\* What a body says when a summary was found.
Present(b) ==
  /\ b.verdict = "present" /\ b.sig = SignatureStatus(Summary, CheckKey)
  /\ b.ok = (b.reasons = {})
  /\ b.reasons \subseteq {"partial_loss", "mismatch", "signature"}
  /\ "partial_loss" \in b.reasons <=> Cardinality(Outcomes) < Summary.total
  /\ "mismatch" \in b.reasons <=> Expected # None /\ Summary.total # Expected
  /\ "signature" \in b.reasons <=> SigBad(b.sig, Required)

\* What a body says when none was.
Absent(b) ==
  /\ b.ok = FALSE /\ b.sig = "none"
  /\ \/ /\ b.verdict = "inconclusive"
        /\ b.reasons \in {{"unreachable"}, {"incomplete"}}
        /\ ~ (answer.reachable /\ answer.complete)
     \/ /\ b.verdict = "absent" /\ answer.reachable /\ answer.complete
        /\ b.reasons = {IF Started THEN "summary_lost" ELSE "nothing_arrived"}

LEMMA BodySays ==
  ASSUME NEW final \in BOOLEAN, NEW b, b = Body(final), b # None \/ final
  PROVE  IF Summaries # {} THEN Present(b) ELSE Absent(b)
<1>1. ASSUME Summaries # {} PROVE Present(b)
  <2> DEFINE partial == Cardinality(Outcomes) < Summary.total
             mismatch == Expected # None /\ Summary.total # Expected
             sig == SignatureStatus(Summary, CheckKey)
             sigBad == SigBad(sig, Required)
             reasons == {r \in Reason : \/ r = "partial_loss" /\ partial
                                        \/ r = "mismatch" /\ mismatch
                                        \/ r = "signature" /\ sigBad}
  <2>1. b = [ok |-> reasons = {}, verdict |-> "present", sig |-> sig, reasons |-> reasons]
    BY <1>1 DEF Body, EvaluatePrefix, Summaries, Summary, ReadRows, Outcomes
  <2> HIDE DEF partial, mismatch, sig, sigBad
  <2>2. /\ reasons \subseteq {"partial_loss", "mismatch", "signature"}
        /\ "partial_loss" \in reasons <=> partial
        /\ "mismatch" \in reasons <=> mismatch
        /\ "signature" \in reasons <=> sigBad
    BY DEF Reason
  <2> HIDE DEF reasons
  <2> QED BY <2>1, <2>2 DEF Present, partial, mismatch, sig, sigBad
<1>2. ASSUME Summaries = {} PROVE Absent(b)
  BY <1>2
  DEF Body, EvaluatePrefix, Summaries, ReadRows, Absent, Reads, NoEvidence
<1> QED BY <1>1, <1>2

\* A settled session has a verdict of one of the two kinds.
LEMMA VerdictSays ==
  ASSUME SInv, Settled, ~ answer.raised
  PROVE  IF Summaries # {} THEN Present(verdict) ELSE Absent(verdict)
<1>1. verdict = IF Body(FALSE) # None THEN Body(FALSE) ELSE Body(TRUE)
  BY DEF SInv, SettledKept
<1>2. CASE Body(FALSE) # None
  <2>1. verdict = Body(FALSE) /\ verdict # None
    BY <1>1, <1>2
  <2> QED BY <2>1, BodySays
<1>3. CASE Body(FALSE) = None
  <2>1. verdict = Body(TRUE)
    BY <1>1, <1>3
  <2> QED BY <2>1, BodySays
<1> QED BY <1>2, <1>3

\* The summary of the session in its store.
LEMMA OwnSummary ==
  ASSUME IInv, SInv, NEW i \in Own
  PROVE  /\ log[i].total = Cardinality(NodeIds(reports)) /\ log[i].sig = policy.key
         /\ log[i].passed = Count(reports, "passed")
         /\ log[i].failed = Count(reports, "failed")
         /\ log[i].skipped = Count(reports, "skipped")
<1> DEFINE n == Len(reports)
           s == SummaryRecord(reports, policy.key, "this")
<1>1. reports \in Seq(Elements(reports))
  BY DEF IInv, SessionKept
<1>2. /\ n \in Nat /\ DOMAIN Shipment = 1 .. n + 1
      /\ \A k \in 1 .. n : Shipment[k].kind = "outcome"
      /\ Shipment[n + 1] = s
  BY <1>1, BatchIs DEF Shipment
<1>3. i \in Batch /\ log[i].kind = "summary"
  BY DEF Own, Batch
<1>4. PICK f \in [Batch -> DOMAIN Shipment] :
        \A j \in Batch : /\ log[j] = [Shipment[f[j]] EXCEPT !.ship = log[j].ship]
                         /\ log[j].kind = Shipment[f[j]].kind
  <2>1. RecordsOf(Shipment, Batch, log)
    BY DEF SInv, BatchKept
  <2> QED BY <2>1, Zenon DEF RecordsOf
<1> HIDE DEF s, n
<1>5. f[i] = n + 1
  <2>1. f[i] \in 1 .. n + 1 /\ f[i] \notin 1 .. n
    BY <1>2, <1>3, <1>4
  <2> QED BY <1>2, <2>1
<1>6. log[i] = [s EXCEPT !.ship = log[i].ship]
  BY <1>2, <1>3, <1>4, <1>5
<1>7. /\ s.total = Cardinality(NodeIds(reports)) /\ s.sig = policy.key
      /\ s.passed = Count(reports, "passed")
      /\ s.failed = Count(reports, "failed")
      /\ s.skipped = Count(reports, "skipped")
      /\ DOMAIN s = {"kind", "ship", "run", "total", "passed", "failed", "skipped", "sig"}
  BY DEF s, SummaryRecord
<1>8. \A field \in DOMAIN s \ {"ship"} : log[i][field] = s[field]
  BY <1>6
<1> QED BY <1>7, <1>8

LEMMA SummaryTells ==
  ASSUME IInv, SInv
  PROVE  SummaryTellsTheWorst
<1>1. /\ reports \in Seq(Elements(reports))
      /\ \A n \in DOMAIN reports : reports[n].outcome \in Outcome
  BY DEF IInv, SessionKept, SInv, ReportsKept
<1>2. /\ Count(reports, "passed") + Count(reports, "failed") + Count(reports, "skipped")
           = Cardinality(NodeIds(reports))
      /\ Count(reports, "failed") = Cardinality({reports[n].test : n \in
                                      {m \in DOMAIN reports : reports[m].outcome = "failed"}})
  BY <1>1, CountsAddUp
<1> QED BY <1>2, OwnSummary DEF SummaryTellsTheWorst

LEMMA ConfirmedRests ==
  ASSUME IInv, SInv
  PROVE  ConfirmedRestsOnThisSession
<1> SUFFICES ASSUME verdict # None, verdict.ok, Fresh
             PROVE  \E i \in Own :
                      /\ answer.complete /\ i \in Elements(answer.events)
                      /\ Plugin => log[i].total = Cardinality(NodeIds(reports))
                      /\ Required => log[i].sig = policy.key /\ policy.key # None
  BY DEF ConfirmedRestsOnThisSession
<1>1. Settled /\ answer # None
  BY DEF SInv, SettledKept, Settled
<1>2. ~ answer.raised
  BY <1>1 DEF SInv, SettledKept, Unread
<1>3. Summaries # {} /\ Present(verdict)
  BY <1>1, <1>2, VerdictSays DEF Absent
<1>4. PICK i \in Elements(answer.events) :
        i \in DOMAIN log /\ Summary = log[i] /\ log[i].kind = "summary"
  BY <1>1, <1>3, SummaryIsThere
<1>5. i \in Own /\ answer.complete
  BY <1>1, <1>3, <1>4, SummaryIsThere DEF Own, Fresh
<1>6. log[i].total = Cardinality(NodeIds(reports)) /\ log[i].sig = policy.key
  BY <1>5, OwnSummary
<1>7. Required => policy.key # None
  <2>1. SignatureStatus(Summary, CheckKey) # "unsigned" => Summary.sig # None
    BY DEF SignatureStatus
  <2>2. Required => verdict.sig = "valid"
    BY <1>3 DEF Present, SigBad
  <2> QED BY <1>3, <1>4, <1>6, <2>1, <2>2 DEF Present
<1> QED BY <1>4, <1>5, <1>6, <1>7

LEMMA LossesAreNamed ==
  ASSUME IInv, SInv
  PROVE  LossIsNamed
<1> SUFFICES ASSUME verdict # None, ~ answer.mixed
             PROVE  /\ "nothing_arrived" \in verdict.reasons =>
                         \A i \in answer.before : log[i].kind \notin {"start", "summary"}
                    /\ "summary_lost" \in verdict.reasons =>
                         \A i \in answer.before : log[i].kind # "summary"
  BY DEF LossIsNamed
<1>1. Settled /\ answer # None
  BY DEF SInv, SettledKept, Settled
<1>2. CASE answer.raised
  BY <1>1, <1>2 DEF SInv, SettledKept, Unread
<1>3. CASE ~ answer.raised
  <2> SUFFICES ASSUME verdict.reasons \cap {"nothing_arrived", "summary_lost"} # {}
               PROVE  /\ "nothing_arrived" \in verdict.reasons =>
                           \A i \in answer.before : log[i].kind \notin {"start", "summary"}
                      /\ \A i \in answer.before : log[i].kind # "summary"
    OBVIOUS
  <2>1. Summaries = {} /\ Absent(verdict)
    BY <1>1, <1>3, VerdictSays DEF Present
  <2>2. answer.reachable /\ answer.complete
        /\ verdict.reasons = {IF Started THEN "summary_lost" ELSE "nothing_arrived"}
    BY <2>1 DEF Absent
  <2>3. answer.before \subseteq Elements(answer.events)
    BY <1>1, <2>2 DEF IInv, AnswerKept, CompleteIsExact, CompleteMissesNothing
  <2>4. Events("summary", ReadRows) = {}
    BY <2>1, <2>2 DEF Summaries
  <2>5. ASSUME NEW i \in answer.before PROVE log[i].kind # "summary"
    <3>1. PICK n \in DOMAIN ReadRows : ReadRows[n] = i
      BY <1>1, <2>3, ReadRowsAre
    <3> QED BY <2>4, <3>1 DEF Events
  <2>6. ASSUME "nothing_arrived" \in verdict.reasons, NEW i \in answer.before
        PROVE  log[i].kind # "start"
    <3>1. ~ Started
      BY <2>2, <2>6
    <3>2. PICK n \in DOMAIN answer.events : answer.events[n] = i
      BY <2>3 DEF Elements
    <3> QED BY <3>1, <3>2 DEF Started, Events
  <2> QED BY <2>5, <2>6
<1> QED BY <1>2, <1>3

-----------------------------------------------------------------------------
(* What fails the build.                                                   *)

\* A store that showed as many rows of the session as there are records showed each of
\* them, and a complete read that began then has them all.
LEMMA AllAreRead ==
  ASSUME IInv, SInv, answer # None, answer.complete, answer.reachable, ~ answer.mixed,
         ~ (Cardinality(answer.before \cap Batch) < Len(reports) + 1)
  PROVE  /\ Summaries # {}
         /\ IsFiniteSet(Outcomes) /\ Len(reports) <= Cardinality(Outcomes)
<1> DEFINE n == Len(reports)
           seen == answer.before \cap Batch
<1>1. reports \in Seq(Elements(reports))
  BY DEF IInv, SessionKept
<1>2. /\ n \in Nat /\ DOMAIN Shipment = 1 .. n + 1
      /\ \A k \in 1 .. n : Shipment[k].kind = "outcome"
      /\ Shipment[n + 1].kind = "summary"
  BY <1>1, BatchIs DEF Shipment
<1>3. PICK f \in [Batch -> DOMAIN Shipment] :
        /\ \A i, j \in Batch : f[i] = f[j] => i = j
        /\ \A i \in Batch : log[i].kind = Shipment[f[i]].kind
  <2>1. RecordsOf(Shipment, Batch, log)
    BY DEF SInv, BatchKept
  <2> QED BY <2>1, Zenon DEF RecordsOf
<1>4. answer.before \subseteq Elements(answer.events)
  BY DEF IInv, AnswerKept, CompleteIsExact, CompleteMissesNothing
<1>5. IsFiniteSet(1 .. n + 1) /\ Cardinality(1 .. n + 1) = n + 1 /\ IsFiniteSet(1 .. n)
      /\ Cardinality(1 .. n) = n
  <2>1. 1 \in Int /\ n \in Int /\ n + 1 \in Int
    BY <1>2
  <2>2. /\ IsFiniteSet(1 .. n + 1)
        /\ Cardinality(1 .. n + 1) = IF 1 > n + 1 THEN 0 ELSE (n + 1) - 1 + 1
    BY <2>1, FS_Interval
  <2>3. /\ IsFiniteSet(1 .. n)
        /\ Cardinality(1 .. n) = IF 1 > n THEN 0 ELSE n - 1 + 1
    BY <2>1, FS_Interval
  <2> QED BY <1>2, <2>2, <2>3
<1>6. ~ (Cardinality(seen) < n + 1)
  OBVIOUS
<1>7. seen \subseteq answer.before /\ seen \subseteq Batch
  OBVIOUS
<1> HIDE DEF n, seen
<1>8. \A k \in 1 .. n + 1 : \E i \in seen : f[i] = k
  <2> DEFINE g == [i \in seen |-> f[i]]
  <2>1. g \in Injection(seen, 1 .. n + 1)
    BY <1>2, <1>3, <1>7 DEF Injection, IsInjective
  <2> HIDE DEF g
  <2>2. /\ IsFiniteSet(seen) /\ Cardinality(seen) <= Cardinality(1 .. n + 1)
        /\ (Cardinality(seen) = Cardinality(1 .. n + 1) <=> g \in Surjection(seen, 1 .. n + 1))
    BY <1>5, <2>1, FS_Injection
  <2>3. Cardinality(seen) \in Nat
    BY <2>2, FS_CardinalityType
  <2>4. Cardinality(seen) = n + 1
    BY <1>2, <1>5, <1>6, <2>2, <2>3
  <2>5. g \in Surjection(seen, 1 .. n + 1)
    BY <1>5, <2>2, <2>4
  <2> QED BY <2>5 DEF Surjection, g
<1>9. \A k \in 1 .. n + 1 : \E p \in DOMAIN ReadRows :
        ReadRows[p] \in Batch /\ f[ReadRows[p]] = k
  BY <1>4, <1>7, <1>8, ReadRowsAre
<1>10. Summaries # {}
  <2>1. n + 1 \in 1 .. n + 1
    BY <1>2
  <2>2. PICK p \in DOMAIN ReadRows : ReadRows[p] \in Batch /\ f[ReadRows[p]] = n + 1
    BY <1>9, <2>1
  <2>3. log[ReadRows[p]].kind = "summary"
    BY <1>2, <1>3, <2>2
  <2> QED BY <2>3 DEF Summaries, Events
<1>11. IsFiniteSet(Outcomes) /\ n <= Cardinality(Outcomes)
  <2> DEFINE g == [k \in 1 .. n |-> CHOOSE p \in DOMAIN ReadRows :
                     ReadRows[p] \in Batch /\ f[ReadRows[p]] = k]
  <2>1. ASSUME NEW k \in 1 .. n
        PROVE  /\ g[k] \in DOMAIN ReadRows /\ f[ReadRows[g[k]]] = k /\ g[k] \in Outcomes
    <3>1. k \in 1 .. n + 1
      BY <1>2
    <3>2. \E p \in DOMAIN ReadRows : ReadRows[p] \in Batch /\ f[ReadRows[p]] = k
      BY <1>9, <3>1
    <3>3. g[k] \in DOMAIN ReadRows /\ ReadRows[g[k]] \in Batch /\ f[ReadRows[g[k]]] = k
      BY <3>2
    <3> HIDE DEF g
    <3>4. log[ReadRows[g[k]]].kind = "outcome"
      BY <1>2, <1>3, <3>3
    <3> QED BY <3>3, <3>4 DEF Outcomes, Events
  <2>2. DOMAIN g = 1 .. n /\ g = [k \in 1 .. n |-> g[k]]
    OBVIOUS
  <2> HIDE DEF g
  <2>3. g \in Injection(1 .. n, Outcomes)
    BY <2>1, <2>2 DEF Injection, IsInjective
  <2>4. IsFiniteSet(Outcomes)
    <3>1. Len(answer.events) \in Nat /\ Outcomes \in SUBSET (1 .. Len(answer.events))
      BY ReadRowsAre DEF Outcomes, Events
    <3> QED BY <3>1, PlacesAreFinite
  <2>5. Cardinality(1 .. n) <= Cardinality(Outcomes)
    BY <2>3, <2>4, FS_Injection
  <2> QED BY <1>5, <2>4, <2>5
<1> QED BY <1>10, <1>11 DEF n

LEMMA FailsForAMiss ==
  ASSUME IInv, SInv
  PROVE  FailsOnlyOnAMiss
<1> SUFFICES ASSUME failBuild, Plugin, Fresh, Queryable, ~ answer.raised, ~ answer.mixed,
                    Required => policy.key # None,
                    ~ (Cardinality(answer.before \cap Batch) < Len(reports) + 1)
             PROVE  FALSE
  BY DEF FailsOnlyOnAMiss
<1>1. Settled /\ answer # None /\ VerifyPolicy(verdict, policy.mode)
  BY DEF SInv, SettledKept, Settled
<1>2. CheckKey = policy.key
  BY DEF CheckKey
<1>3. CASE Summaries = {}
  <2>1. Absent(verdict)
    BY <1>1, <1>3, VerdictSays
  <2>2. verdict.verdict # "inconclusive"
    BY <1>1, <2>1 DEF VerifyPolicy, Absent
  <2>3. answer.reachable /\ answer.complete
    BY <2>1, <2>2 DEF Absent
  <2> QED BY <1>1, <1>3, <2>3, AllAreRead
<1>4. CASE Summaries # {}
  <2>1. Present(verdict)
    BY <1>1, <1>4, VerdictSays
  <2>2. answer.complete
    BY <1>1, <1>4, SummaryIsThere
  <2>3. PICK i \in Elements(answer.events) :
          i \in DOMAIN log /\ Summary = log[i] /\ log[i].kind = "summary"
    BY <1>1, <1>4, SummaryIsThere
  <2>4. answer.reachable
    <3>1. answer.events # << >>
      BY <2>3 DEF Elements
    <3> QED BY <1>1, <2>2, <3>1 DEF SInv, AnswerTold
  <2>5. i \in Own
    BY <2>3 DEF Own, Fresh
  <2>6. Summary.total = Cardinality(NodeIds(reports)) /\ Summary.sig = policy.key
    BY <2>3, <2>5, OwnSummary
  <2>7. IsFiniteSet(Outcomes) /\ Len(reports) <= Cardinality(Outcomes)
    BY <1>1, <2>2, <2>4, AllAreRead
  <2>8. ~ (Cardinality(Outcomes) < Summary.total)
    <3>1. reports \in Seq(Elements(reports))
          /\ \A n \in DOMAIN reports : reports[n].outcome \in Outcome
      BY DEF IInv, SessionKept, SInv, ReportsKept
    <3>2. Cardinality(NodeIds(reports)) \in Nat /\ Cardinality(NodeIds(reports)) <= Len(reports)
      BY <3>1, CountsAddUp
    <3>3. Len(reports) \in Nat
      BY <3>1
    <3>4. Cardinality(Outcomes) \in Nat
      BY <2>7, FS_CardinalityType
    <3> QED BY <2>6, <2>7, <3>2, <3>3, <3>4
  <2>9. Expected = Summary.total
    BY <2>6 DEF Expected
  <2>10. verdict.sig # "invalid" /\ ~ SigBad(verdict.sig, Required)
    BY <1>2, <2>1, <2>6 DEF Present, SignatureStatus, SigBad
  <2>11. verdict.reasons = {} /\ verdict.ok
    BY <2>1, <2>8, <2>9, <2>10 DEF Present
  <2> QED BY <1>1, <2>10, <2>11 DEF VerifyPolicy
<1> QED BY <1>3, <1>4

LEMMA OutagesPass ==
  ASSUME IInv, SInv
  PROVE  OutageNeverFailsTheBuild
<1> SUFFICES ASSUME failBuild, Plugin, Queryable, ~ answer.raised
             PROVE  answer.reachable /\ answer.complete
  BY DEF OutageNeverFailsTheBuild
<1>1. Settled /\ answer # None /\ VerifyPolicy(verdict, policy.mode)
  BY DEF SInv, SettledKept, Settled
<1>2. CASE Summaries = {}
  BY <1>1, <1>2, VerdictSays DEF Absent, VerifyPolicy
<1>3. CASE Summaries # {}
  <2>1. answer.complete /\ answer.events # << >>
    BY <1>1, <1>3, SummaryIsThere DEF Elements
  <2> QED BY <1>1, <2>1 DEF SInv, AnswerTold
<1> QED BY <1>2, <1>3

LEMMA StrictCatches ==
  ASSUME IInv, SInv
  PROVE  StrictCatchesLoss
<1> SUFFICES ASSUME pc = "done", Plugin, Fresh, verdict # None,
                    policy.mode = "strict", exitstatus = 0,
                    answer.reachable, answer.complete, Own \cap shown = {}
             PROVE  failBuild
  BY DEF StrictCatchesLoss
<1>1. Settled /\ answer # None /\ ~ answer.raised
  BY DEF SInv, SettledKept, Settled, AnswerTold
<1>2. Summaries = {}
  <2> SUFFICES ASSUME Summaries # {} PROVE FALSE
    OBVIOUS
  <2>1. PICK i \in Elements(answer.events) : i \in DOMAIN log /\ log[i].kind = "summary"
    BY <1>1, SummaryIsThere
  <2>2. i \in shown
    BY <1>1, <2>1 DEF IInv, AnswerKept, Elements
  <2> QED BY <2>1, <2>2 DEF Own, Fresh
<1>3. Absent(verdict)
  BY <1>1, <1>2, VerdictSays
<1>4. VerifyPolicy(verdict, policy.mode)
  BY <1>3 DEF Absent, VerifyPolicy
<1> QED BY <1>1, <1>4 DEF SInv, SettledKept

-----------------------------------------------------------------------------
(* The theorems.                                                           *)

\* verify_trace: a session whose correlation id is its own is confirmed only by its own summary
\* in a complete read, what is said to be missing was not to be seen (if the pages of the last
\* read came in one order), and a summary counts each test once, at its worst.
THEOREM VerdictsAreHonest == Spec => []VerdictIsHonest
<1>1. IInv /\ SInv => VerdictIsHonest
  BY ConfirmedRests, LossesAreNamed, SummaryTells DEF VerdictIsHonest
<1> QED BY <1>1, SessionInvariantHolds, PTL

\* verify_policy: a green build turns red only for a last read that was answered and complete,
\* and only for one that began before the store showed everything the session had shipped, if
\* its pages came in one order and somebody has the key.  Nothing is said of a driver that
\* raised: a Retry-After that is no duration makes it, and strict mode fails for that.
THEOREM BuildsFailForALoss == Spec => []BuildFailsForALoss
<1>1. IInv /\ SInv => BuildFailsForALoss
  BY FailsForAMiss, OutagesPass DEF BuildFailsForALoss
<1> QED BY <1>1, SessionInvariantHolds, PTL

\* Strict mode: when a complete read shows that the summary is lost, the build fails.
THEOREM StrictModeCatchesLoss == Spec => []StrictCatchesLoss
<1>1. IInv /\ SInv => StrictCatchesLoss
  BY StrictCatches
<1> QED BY <1>1, SessionInvariantHolds, PTL
=============================================================================
