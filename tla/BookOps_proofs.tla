--------------------------- MODULE BookOps_proofs ---------------------------
(***************************************************************************)
(* The operations of the book keep its lists.                              *)
(*                                                                         *)
(* Holds(b, q, f) says of a book b that its links spell out the queues q   *)
(* and the free list f: along `next` from the head to the tail and along   *)
(* `prev` back, no slot twice, the queues made up of the orders that rest  *)
(* at their level and the free list of the used slots without an order,    *)
(* the count and quantity of a level those of its queue, the id map naming *)
(* every order at its slot and the cached best the best occupied level.    *)
(* NewBookHolds, InsertHolds, UpdateHolds and LeftHolds show that a new    *)
(* book holds empty lists and what each operation does to them; they hold  *)
(* for every pool, ladder and price grid.  HoldsIsRead says that the walks *)
(* Chain takes along the links return these lists.                         *)
(*                                                                         *)
(* Each operation is first put down field by field (the ...Effect lemmas). *)
(* Sums along a list and walks along the links are recursive functions;    *)
(* that a function satisfies their equations is shown by the least         *)
(* counterexample (LeastNumber).                                           *)
(*                                                                         *)
(* Intact(b) says that b holds such lists and that its slots beyond the    *)
(* high-water mark are as Book::new made them: a book that is intact is    *)
(* the one Restore makes of its image (RestoreOfEncode), whose groups name *)
(* the occupied levels and the orders from the lowest up (NthEnumerates).  *)
(***************************************************************************)
EXTENDS BookSnapshot, FiniteSetTheorems, SequenceTheorems, WellFoundedInduction, TLAPS

\* Every set of natural numbers that is not empty has a least one: the finite
\* sets are well-founded under inclusion, so one of the intervals up to a
\* number of the set has no smaller one below it.
LEMMA LeastNumber ==
    ASSUME NEW S \in SUBSET Nat, S # {}
    PROVE  \E m \in S : \A j \in S : m <= j
<1>. DEFINE R == StrictSubsetOrdering(Nat)
            T == {0..n : n \in S}
<1>1. IsWellFoundedOn(R, FiniteSubsetsOf(Nat))
  BY FS_StrictSubsetOrderingWellFounded
<1>2. T \subseteq FiniteSubsetsOf(Nat) /\ T # {}
  <2>1. \A n \in S : IsFiniteSet(0..n) /\ 0..n \in SUBSET Nat
    BY FS_Interval
  <2>. QED
    BY <2>1 DEF FiniteSubsetsOf
<1>3. \E x \in T : \A y \in T : ~(<<y, x>> \in R)
  <2>. HIDE DEF R, T
  <2>. QED
    BY <1>1, <1>2, WFMin
<1>4. PICK m \in S : \A n \in S : ~(<<0..n, 0..m>> \in R)
  BY <1>3
<1>5. \A n \in S : n < m => 0..n \subseteq 0..m /\ 0..n # 0..m
  OBVIOUS
<1>6. \A n \in S : n < m => <<0..n, 0..m>> \in R
  BY <1>5 DEF StrictSubsetOrdering
<1>7. \A n \in S : n \in Nat
  OBVIOUS
<1>8. \A n \in S : ~(n < m)
  BY <1>4, <1>6
<1>. QED
  BY <1>7, <1>8

-----------------------------------------------------------------------------
(* Sums.                                                                   *)

\* The sums of the beginnings of a list of numbers.
IsSum(v, sum) ==
    /\ sum \in [0..Len(v) -> Int]
    /\ \A n \in 0..Len(v) : sum[n] = IF n = 0 THEN 0 ELSE sum[n - 1] + v[n]

\* The sums of the beginnings of a list of numbers exist, and are what Total
\* adds up.
LEMMA SumExists ==
    ASSUME NEW v \in Seq(Int)
    PROVE  \E sum : IsSum(v, sum)
<1>. DEFINE Sums(m, s) == /\ s \in [0..m -> Int]
                          /\ \A n \in 0..m : s[n] = IF n = 0 THEN 0 ELSE s[n - 1] + v[n]
            Bad == {m \in 0..Len(v) : ~\E s : Sums(m, s)}
<1>1. Len(v) \in Nat
  OBVIOUS
<1>2. SUFFICES ASSUME Bad # {} PROVE FALSE
  <2>1. \E s : Sums(Len(v), s)
    <3>. HIDE DEF Sums
    <3>. QED BY <1>1, <1>2
  <2>. QED BY <2>1 DEF IsSum
<1>3. PICK m \in Bad : \A k \in Bad : m <= k
  <2>1. Bad \in SUBSET Nat
    BY <1>1
  <2>. HIDE DEF Bad
  <2>. QED BY <1>2, <2>1, LeastNumber
<1>4. m \in 0..Len(v) /\ ~\E s : Sums(m, s)
  <2>. HIDE DEF Sums
  <2>. QED BY <1>3
<1>. HIDE DEF Bad
<1>5. CASE m = 0
  <2>1. Sums(0, [n \in 0..0 |-> 0])
    OBVIOUS
  <2>. QED BY <1>4, <1>5, <2>1
<1>6. CASE m # 0
  <2>1. m - 1 \in 0..Len(v) /\ ~(m <= m - 1)
    BY <1>1, <1>4, <1>6
  <2>2. PICK s : Sums(m - 1, s)
    <3>. HIDE DEF Sums
    <3>. QED BY <1>3, <2>1 DEF Bad
  <2>. DEFINE z == [n \in 0..m |-> IF n = m THEN s[m - 1] + v[m] ELSE s[n]]
  <2>3. v[m] \in Int /\ s[m - 1] \in Int
    BY <1>1, <1>4, <1>6, <2>2
  <2>4. z \in [0..m -> Int]
    BY <1>1, <1>4, <1>6, <2>2, <2>3
  <2>5. \A n \in 0..m : z[n] = IF n = 0 THEN 0 ELSE z[n - 1] + v[n]
    BY <1>1, <1>4, <1>6, <2>2, <2>3
  <2>. QED BY <1>4, <2>4, <2>5
<1>. QED BY <1>5, <1>6

\* Whatever satisfies the equation of the sums is them.
LEMMA SumUnique ==
    ASSUME NEW v \in Seq(Int), NEW r, NEW s, IsSum(v, s),
           \A n \in 0..Len(v) : r[n] = IF n = 0 THEN 0 ELSE r[n - 1] + v[n]
    PROVE  \A n \in 0..Len(v) : r[n] = s[n]
<1>. DEFINE Bad == {m \in 0..Len(v) : r[m] # s[m]}
<1>1. Len(v) \in Nat
  OBVIOUS
<1>2. Bad = {}
  <2>. SUFFICES ASSUME Bad # {} PROVE FALSE
    OBVIOUS
  <2>1. PICK m \in Bad : \A k \in Bad : m <= k
    <3>1. Bad \in SUBSET Nat
      BY <1>1
    <3>. HIDE DEF Bad
    <3>. QED BY <3>1, LeastNumber
  <2>2. m # 0
    BY <1>1 DEF IsSum
  <2>3. m - 1 \in 0..Len(v) /\ r[m - 1] = s[m - 1]
    BY <1>1, <2>1, <2>2
  <2>. QED BY <1>1, <2>1, <2>2, <2>3 DEF IsSum
<1>. QED BY <1>2

\* Total is the last of the sums.
LEMMA TotalIsSum ==
    ASSUME NEW v \in Seq(Int), NEW s, IsSum(v, s)
    PROVE  Total(v) = s[Len(v)]
<1>. DEFINE F(f) == [n \in 0..Len(v) |-> IF n = 0 THEN 0 ELSE f[n - 1] + v[n]]
            c == CHOOSE f : f = F(f)
<1>1. s = F(s)
  BY DEF IsSum
<1>2. c = F(c)
  BY <1>1
<1>3. Total(v) = c[Len(v)]
  BY DEF Total
<1>4. \A n \in 0..Len(v) : c[n] = IF n = 0 THEN 0 ELSE c[n - 1] + v[n]
  <2>. HIDE DEF c
  <2>. QED BY <1>2
<1>5. \A n \in 0..Len(v) : c[n] = s[n]
  <2>. HIDE DEF c
  <2>. QED BY <1>4, SumUnique
<1>. QED
  <2>. HIDE DEF c
  <2>1. Len(v) \in 0..Len(v)
    OBVIOUS
  <2>. QED BY <1>3, <1>5, <2>1

\* The total is a number, and of numbers that are not negative not negative.
LEMMA TotalType ==
    ASSUME NEW v \in Seq(Int)
    PROVE  /\ Total(v) \in Int
           /\ (\A i \in 1..Len(v) : v[i] >= 0) => Total(v) >= 0
<1>1. PICK s : IsSum(v, s)
  BY SumExists
<1>2. Total(v) = s[Len(v)] /\ Len(v) \in 0..Len(v)
  BY <1>1, TotalIsSum
<1>3. Total(v) \in Int
  BY <1>1, <1>2 DEF IsSum
<1>4. ASSUME \A i \in 1..Len(v) : v[i] >= 0 PROVE Total(v) >= 0
  <2>. DEFINE Bad == {m \in 0..Len(v) : ~(s[m] >= 0)}
  <2>1. Bad = {}
    <3>. SUFFICES ASSUME Bad # {} PROVE FALSE
      OBVIOUS
    <3>1. PICK m \in Bad : \A k \in Bad : m <= k
      <4>1. Bad \in SUBSET Nat
        OBVIOUS
      <4>. HIDE DEF Bad
      <4>. QED BY <4>1, LeastNumber
    <3>2. m \in Nat /\ m <= Len(v) /\ ~(s[m] >= 0)
      BY <3>1
    <3>3. m # 0
      BY <1>1, <3>2 DEF IsSum
    <3>4. m - 1 \in 0..Len(v) /\ m \in 0..Len(v) /\ s[m - 1] >= 0 /\ v[m] >= 0 /\ v[m] \in Int
      BY <1>4, <3>1, <3>2, <3>3
    <3>5. s[m] = s[m - 1] + v[m] /\ s[m - 1] \in Int
      BY <1>1, <3>3, <3>4 DEF IsSum
    <3>. QED BY <3>2, <3>4, <3>5
  <2>. QED BY <1>2, <2>1
<1>. QED BY <1>3, <1>4

\* A number added at the end is added to the total.
LEMMA TotalAppend ==
    ASSUME NEW v \in Seq(Int), NEW w \in Seq(Int), NEW x \in Int,
           Len(w) = Len(v) + 1, w[Len(w)] = x,
           \A i \in 1..Len(v) : w[i] = v[i]
    PROVE  Total(w) = Total(v) + x
<1>1. PICK s : IsSum(v, s)
  BY SumExists
<1>. DEFINE z == [n \in 0..Len(w) |-> IF n = Len(w) THEN s[Len(v)] + x ELSE s[n]]
<1>2. Len(v) \in Nat /\ Len(w) \in Nat
  OBVIOUS
<1>3. s \in [0..Len(v) -> Int] /\ \A n \in 0..Len(v) : s[n] = IF n = 0 THEN 0 ELSE s[n - 1] + v[n]
  BY <1>1 DEF IsSum
<1>4. z \in [0..Len(w) -> Int]
  BY <1>2, <1>3, SMTT(30)
<1>5. \A n \in 0..Len(w) : z[n] = IF n = 0 THEN 0 ELSE z[n - 1] + w[n]
  BY <1>2, <1>3
<1>6. Total(w) = z[Len(w)]
  <2>1. IsSum(w, z)
    BY <1>4, <1>5 DEF IsSum
  <2>. HIDE DEF z
  <2>. QED BY <2>1, TotalIsSum
<1>7. Total(v) = s[Len(v)]
  BY <1>1, TotalIsSum
<1>. QED BY <1>2, <1>6, <1>7

\* Lists of n numbers, and such a list without its k-th number, or with
\* another one in its place.
Numbers(n, v) == \A i \in 1..n : v[i] \in Int
Without(n, k, v, w) == \A i \in 1..(n - 1) : w[i] = IF i < k THEN v[i] ELSE v[i + 1]
Elsewhere(n, k, v, w) == \A i \in 1..n : i # k => w[i] = v[i]

\* The sums of a list, step by step.
Sums(n, v, s) ==
    /\ s[0] = 0
    /\ \A i \in 0..n : s[i] \in Int
    /\ \A i \in 1..n : s[i] = s[i - 1] + v[i]

\* A list has sums, and their last is its total.
LEMMA TotalBySums ==
    ASSUME NEW v \in Seq(Int)
    PROVE  /\ \E s : Sums(Len(v), v, s)
           /\ \A s : Sums(Len(v), v, s) => Total(v) = s[Len(v)]
<1>1. Len(v) \in Nat
  OBVIOUS
<1>2. \E s : Sums(Len(v), v, s)
  <2>1. PICK s : IsSum(v, s)
    BY SumExists
  <2>2. s[0] = 0 /\ \A i \in 0..Len(v) : s[i] \in Int
    BY <1>1, <2>1 DEF IsSum
  <2>3. \A i \in 1..Len(v) : s[i] = s[i - 1] + v[i]
    <3>1. \A i \in 1..Len(v) : i \in 0..Len(v) /\ i # 0
      BY <1>1
    <3>. QED BY <2>1, <3>1 DEF IsSum
  <2>. QED BY <2>2, <2>3 DEF Sums
<1>3. ASSUME NEW s, Sums(Len(v), v, s) PROVE Total(v) = s[Len(v)]
  <2>. DEFINE z == [i \in 0..Len(v) |-> s[i]]
  <2>1. z \in [0..Len(v) -> Int]
    BY <1>3 DEF Sums
  <2>2. \A i \in 0..Len(v) : z[i] = IF i = 0 THEN 0 ELSE z[i - 1] + v[i]
    <3>1. \A i \in 0..Len(v) : i # 0 => i \in 1..Len(v) /\ i - 1 \in 0..Len(v)
      BY <1>1
    <3>. QED BY <1>3, <3>1 DEF Sums
  <2>3. z[Len(v)] = s[Len(v)]
    BY <1>1
  <2>4. Total(v) = z[Len(v)]
    <3>. HIDE DEF z
    <3>1. IsSum(v, z)
      BY <2>1, <2>2 DEF IsSum
    <3>. QED BY <3>1, TotalIsSum
  <2>. QED BY <2>3, <2>4
<1>. QED BY <1>2, <1>3

\* The sums of a list from which the k-th number was taken.
LEMMA SumsRemove ==
    ASSUME NEW n \in Nat, NEW k \in 1..n, NEW v, NEW w, NEW s, Sums(n, v, s),
           Numbers(n, v), Without(n, k, v, w)
    PROVE  \E z : Sums(n - 1, w, z) /\ z[n - 1] = s[n] - v[k]
<1>. DEFINE z == [i \in 0..(n - 1) |-> IF i < k THEN s[i] ELSE s[i + 1] - v[k]]
<1>1. /\ k \in Nat /\ v[k] \in Int /\ s[0] = 0
      /\ \A i \in 0..n : s[i] \in Int
      /\ \A i \in 1..n : s[i] = s[i - 1] + v[i]
  BY DEF Sums, Numbers
<1>2. \A i \in 0..(n - 1) : i < k => z[i] = s[i]
  OBVIOUS
<1>3. \A i \in 0..(n - 1) : i >= k => z[i] = s[i + 1] - v[k]
  BY <1>1
<1>. HIDE DEF z
<1>4. z[0] = 0
  BY <1>1, <1>2
<1>5. ASSUME NEW i \in 0..(n - 1) PROVE z[i] \in Int
  <2>1. i \in Nat /\ i \in 0..n /\ i + 1 \in 0..n /\ (i < k \/ i >= k)
    BY <1>1
  <2>2. s[i] \in Int /\ s[i + 1] \in Int
    BY <1>1, <2>1
  <2>. QED BY <1>1, <1>2, <1>3, <2>1, <2>2
<1>6. ASSUME NEW i \in 1..(n - 1) PROVE z[i] = z[i - 1] + w[i]
  <2>1. /\ i \in Nat /\ i \in 1..n /\ i + 1 \in 1..n /\ i \in 0..n /\ i + 1 \in 0..n /\ i - 1 \in 0..n
        /\ i \in 0..(n - 1) /\ i - 1 \in 0..(n - 1)
    OBVIOUS
  <2>2. /\ s[i] = s[i - 1] + v[i] /\ s[i + 1] = s[i] + v[i + 1]
        /\ s[i - 1] \in Int /\ v[i] \in Int /\ v[i + 1] \in Int
    <3>1. (i + 1) - 1 = i
      OBVIOUS
    <3>. QED BY <1>1, <2>1, <3>1 DEF Numbers
  <2>3. CASE i < k
    <3>1. z[i] = s[i] /\ z[i - 1] = s[i - 1] /\ w[i] = v[i]
      BY <1>1, <1>2, <2>1, <2>3 DEF Without, Elsewhere
    <3>. QED BY <2>2, <3>1
  <2>4. CASE i = k
    <3>1. z[i] = s[i + 1] - v[i] /\ z[i - 1] = s[i - 1] /\ w[i] = v[i + 1]
      BY <1>1, <1>2, <1>3, <2>1, <2>4 DEF Without
    <3>. QED BY <2>2, <3>1
  <2>5. CASE i > k
    <3>1. (i - 1) + 1 = i /\ i - 1 >= k /\ i >= k
      BY <1>1, <2>1, <2>5
    <3>2. z[i] = s[i + 1] - v[k] /\ z[i - 1] = s[i] - v[k] /\ w[i] = v[i + 1]
      BY <1>1, <1>3, <2>1, <3>1 DEF Without
    <3>. QED BY <1>1, <2>2, <3>2
  <2>. QED BY <1>1, <2>1, <2>3, <2>4, <2>5
<1>7. z[n - 1] = s[n] - v[k]
  <2>1. n - 1 \in 0..(n - 1) /\ (n - 1) + 1 = n /\ n - 1 \in 0..n
    BY <1>1
  <2>2. CASE n - 1 < k
    <3>1. n = k /\ n \in 1..n
      BY <1>1, <2>2
    <3>2. z[n - 1] = s[n - 1] /\ s[n] = s[n - 1] + v[n] /\ s[n - 1] \in Int
      BY <1>1, <1>2, <2>1, <2>2, <3>1
    <3>. QED BY <1>1, <3>1, <3>2
  <2>3. CASE n - 1 >= k
    BY <1>3, <2>1, <2>3
  <2>. QED BY <1>1, <2>1, <2>2, <2>3
<1>. QED BY <1>4, <1>5, <1>6, <1>7 DEF Sums

\* A number taken out is taken off the total.
LEMMA TotalRemove ==
    ASSUME NEW v \in Seq(Int), NEW w \in Seq(Int), NEW k \in 1..Len(v),
           Len(w) = Len(v) - 1,
           Without(Len(v), k, v, w)
    PROVE  Total(w) = Total(v) - v[k]
<1>1. PICK n \in Nat : n = Len(v)
  OBVIOUS
<1>2. k \in 1..n /\ Numbers(n, v) /\ Without(n, k, v, w)
  BY <1>1 DEF Numbers
<1>6. PICK s : Sums(n, v, s)
  BY <1>1, TotalBySums
<1>7. PICK z : Sums(n - 1, w, z) /\ z[n - 1] = s[n] - v[k]
  BY <1>2, <1>6, SumsRemove, SMTT(30)
<1>8. Total(v) = s[n]
  BY <1>1, <1>6, TotalBySums
<1>9. Total(w) = z[n - 1]
  BY <1>1, <1>7, TotalBySums
<1>. QED BY <1>7, <1>8, <1>9

\* The sums of a list in which the k-th number was replaced.
LEMMA SumsChange ==
    ASSUME NEW n \in Nat, NEW k \in 1..n, NEW v, NEW w, NEW s, Sums(n, v, s),
           Numbers(n, v), w[k] \in Int, Elsewhere(n, k, v, w)
    PROVE  \E z : Sums(n, w, z) /\ z[n] = s[n] - v[k] + w[k]
<1>. DEFINE z == [i \in 0..n |-> IF i < k THEN s[i] ELSE s[i] - v[k] + w[k]]
<1>1. /\ k \in Nat /\ v[k] \in Int /\ s[0] = 0
      /\ \A i \in 0..n : s[i] \in Int
      /\ \A i \in 1..n : s[i] = s[i - 1] + v[i]
  BY DEF Sums, Numbers
<1>2. \A i \in 0..n : i < k => z[i] = s[i]
  OBVIOUS
<1>3. \A i \in 0..n : i >= k => z[i] = s[i] - v[k] + w[k]
  BY <1>1
<1>. HIDE DEF z
<1>4. z[0] = 0
  BY <1>1, <1>2
<1>5. ASSUME NEW i \in 0..n PROVE z[i] \in Int
  <2>1. i \in Nat /\ (i < k \/ i >= k) /\ s[i] \in Int
    BY <1>1
  <2>. QED BY <1>1, <1>2, <1>3, <2>1
<1>6. ASSUME NEW i \in 1..n PROVE z[i] = z[i - 1] + w[i]
  <2>1. i \in Nat /\ i \in 0..n /\ i - 1 \in 0..n
    OBVIOUS
  <2>2. s[i] = s[i - 1] + v[i] /\ s[i - 1] \in Int /\ v[i] \in Int
    BY <1>1, <2>1 DEF Numbers
  <2>3. CASE i < k
    <3>1. z[i] = s[i] /\ z[i - 1] = s[i - 1] /\ w[i] = v[i]
      BY <1>1, <1>2, <2>1, <2>3 DEF Without, Elsewhere
    <3>. QED BY <2>2, <3>1
  <2>4. CASE i = k
    <3>1. z[i] = s[i] - v[i] + w[i] /\ z[i - 1] = s[i - 1]
      BY <1>1, <1>2, <1>3, <2>1, <2>4
    <3>. QED BY <1>1, <2>2, <2>4, <3>1
  <2>5. CASE i > k
    <3>1. i - 1 >= k /\ i >= k /\ i # k
      BY <1>1, <2>1, <2>5
    <3>2. z[i] = s[i] - v[k] + w[k] /\ z[i - 1] = s[i - 1] - v[k] + w[k] /\ w[i] = v[i]
      BY <1>3, <2>1, <3>1 DEF Elsewhere
    <3>. QED BY <1>1, <2>2, <3>2
  <2>. QED BY <1>1, <2>1, <2>3, <2>4, <2>5
<1>7. z[n] = s[n] - v[k] + w[k]
  BY <1>1, <1>3
<1>. QED BY <1>4, <1>5, <1>6, <1>7 DEF Sums

\* A number replaced changes the total by the difference.
LEMMA TotalChange ==
    ASSUME NEW v \in Seq(Int), NEW w \in Seq(Int), NEW k \in 1..Len(v),
           Len(w) = Len(v),
           Elsewhere(Len(v), k, v, w)
    PROVE  Total(w) = Total(v) - v[k] + w[k]
<1>1. PICK n \in Nat : n = Len(v)
  OBVIOUS
<1>2. k \in 1..n /\ w[k] \in Int /\ Numbers(n, v) /\ Elsewhere(n, k, v, w)
  BY <1>1 DEF Numbers
<1>4. PICK s : Sums(n, v, s)
  BY <1>1, TotalBySums
<1>5. PICK z : Sums(n, w, z) /\ z[n] = s[n] - v[k] + w[k]
  BY <1>2, <1>4, SumsChange
<1>6. Total(v) = s[n]
  BY <1>1, <1>4, TotalBySums
<1>7. Total(w) = z[n]
  BY <1>1, <1>5, TotalBySums
<1>. QED BY <1>5, <1>6, <1>7

-----------------------------------------------------------------------------
(* Lists of slots.                                                         *)

\* The list of slots l starts at slot s, follows the `next` links to its end
\* and meets no slot twice.
ListFrom(b, s, l) ==
    /\ l \in Seq(Slots)
    /\ s = IF Len(l) = 0 THEN NIL ELSE l[1]
    /\ \A i \in 1..Len(l) : b.pool[l[i]].next = IF i = Len(l) THEN NIL ELSE l[i + 1]
    /\ \A i, j \in 1..Len(l) : l[i] = l[j] => i = j

\* The walks Chain takes: up to n slots from each slot.
WalkStep(b, f, n, at) ==
    IF n = 0 \/ at = NIL THEN <<>> ELSE <<at>> \o f[n - 1][b.pool[at].next]
Walks(b, m, f) ==
    \A n \in 0..m : \A at \in Slots \cup {NIL} : f[n][at] = WalkStep(b, f, n, at)

\* Every link leads to a slot or nowhere.
LinksTyped(b) == \A s \in Slots : b.pool[s].next \in Slots \cup {NIL}

\* They exist, however the links run.
LEMMA WalksExist ==
    ASSUME NEW b, LinksTyped(b), NEW c \in Nat
    PROVE  \E f : f = [n \in 0..c |-> [at \in Slots \cup {NIL} |-> WalkStep(b, f, n, at)]]
<1>. DEFINE F(m, f) == [n \in 0..m |-> [at \in Slots \cup {NIL} |-> WalkStep(b, f, n, at)]]
            Bad == {m \in 0..c : ~\E f : f = F(m, f)}
<1>1. SUFFICES ASSUME Bad # {} PROVE FALSE
  <2>1. c \in 0..c
    OBVIOUS
  <2>2. \E f : f = F(c, f)
    <3>. HIDE DEF F
    <3>. QED BY <1>1, <2>1
  <2>. QED BY <2>2
<1>2. PICK m \in Bad : \A k \in Bad : m <= k
  <2>1. Bad \in SUBSET Nat
    OBVIOUS
  <2>. HIDE DEF Bad
  <2>. QED BY <1>1, <2>1, LeastNumber
<1>3. m \in 0..c /\ ~\E f : f = F(m, f)
  <2>. HIDE DEF F
  <2>. QED BY <1>2
<1>4. CASE m = 0
  <2>. DEFINE g == [n \in 0..0 |-> [at \in Slots \cup {NIL} |-> <<>>]]
  <2>1. g = F(0, g)
    <3>1. \A at : WalkStep(b, g, 0, at) = <<>>
      BY Zenon DEF WalkStep
    <3>2. \A n \in 0..0 : n = 0
      OBVIOUS
    <3>. QED BY <3>1, <3>2, Zenon
  <2>. HIDE DEF F, g
  <2>. QED BY <1>3, <1>4, <2>1
<1>5. CASE m # 0
  <2>1. m - 1 \in 0..c /\ ~(m <= m - 1) /\ m \in Nat
    BY <1>3, <1>5
  <2>2. PICK f : f = F(m - 1, f)
    <3>1. m - 1 \notin Bad
      <4>. HIDE DEF Bad
      <4>. QED BY <1>2, <2>1
    <3>. HIDE DEF F
    <3>. QED BY <2>1, <3>1
  <2>. DEFINE g == F(m, f)
  <2>3. \A n \in 0..(m - 1) : g[n] = f[n]
    <3>1. \A n \in 0..(m - 1) : n \in 0..m
      BY <2>1
    <3>2. \A n \in 0..(m - 1) : f[n] = [at \in Slots \cup {NIL} |-> WalkStep(b, f, n, at)]
      BY <2>2
    <3>. QED BY <3>1, <3>2
  <2>4. \A n \in 0..m : \A at \in Slots \cup {NIL} : WalkStep(b, f, n, at) = WalkStep(b, g, n, at)
    <3>. HIDE DEF g
    <3>1. \A n \in 0..m : n = 0 \/ n - 1 \in 0..(m - 1)
      BY <2>1
    <3>. QED BY <2>3, <3>1 DEF WalkStep
  <2>5. g = F(m, g)
    <3>1. [n \in 0..m |-> [at \in Slots \cup {NIL} |-> WalkStep(b, f, n, at)]]
            = [n \in 0..m |-> [at \in Slots \cup {NIL} |-> WalkStep(b, g, n, at)]]
      <4>. HIDE DEF g
      <4>. QED BY <2>4
    <3>2. g = [n \in 0..m |-> [at \in Slots \cup {NIL} |-> WalkStep(b, f, n, at)]]
      OBVIOUS
    <3>. QED BY <3>1, <3>2
  <2>. HIDE DEF g, F
  <2>. QED BY <1>3, <2>5
<1>. QED BY <1>4, <1>5

\* A list without repetition has at most Cap slots.
LEMMA ListFits ==
    ASSUME NEW l \in Seq(Slots), \A i, j \in 1..Len(l) : l[i] = l[j] => i = j
    PROVE  Len(l) <= Cap
<1>1. Cap \in Nat /\ Len(l) \in Nat /\ 0 \in Int /\ 1 \in Int /\ Cap - 1 \in Int /\ Len(l) \in Int
  BY BookConfig
<1>2. IsFiniteSet(Slots) /\ Cardinality(Slots) = Cap
  BY <1>1, FS_Interval DEF Slots
<1>3. Cardinality(1..Len(l)) = Len(l)
  <2>1. Cardinality(1..Len(l)) = IF 1 > Len(l) THEN 0 ELSE Len(l) - 1 + 1
    BY <1>1, FS_Interval, Zenon
  <2>. QED BY <1>1, <2>1
<1>4. l \in [1..Len(l) -> Slots]
  BY LenProperties
<1>5. l \in Injection(1..Len(l), Slots)
  BY <1>4 DEF Injection, IsInjective
<1>. QED BY <1>2, <1>3, <1>5, FS_Injection

\* Chain returns the list that starts at a slot.
LEMMA ChainIs ==
    ASSUME NEW b, LinksTyped(b), NEW s, NEW l, ListFrom(b, s, l)
    PROVE  Chain(b, s) = l
<1>. DEFINE F(f) == [n \in 0..(Cap + 1) |-> [at \in Slots \cup {NIL} |-> WalkStep(b, f, n, at)]]
            c == CHOOSE f : f = F(f)
<1>1. Cap \in Nat /\ Cap + 1 \in Nat /\ Len(l) \in Nat /\ Len(l) <= Cap /\ l \in Seq(Slots)
  BY BookConfig, ListFits DEF ListFrom
<1>2. c = F(c)
  <2>1. \E f : f = F(f)
    BY <1>1, WalksExist
  <2>. HIDE DEF F
  <2>. QED BY <2>1
<1>3. Chain(b, s) = c[Cap + 1][s]
  BY DEF Chain, WalkStep
<1>4. Walks(b, Cap + 1, c)
  <2>. HIDE DEF c
  <2>1. \A n \in 0..(Cap + 1) : c[n] = [at \in Slots \cup {NIL} |-> WalkStep(b, c, n, at)]
    BY <1>2
  <2>. QED BY <2>1 DEF Walks
<1>. HIDE DEF F, c
<1>5. NIL \notin Slots
  BY BookConfig DEF NIL, Slots
<1>6. \A i \in 1..Len(l) : l[i] \in Slots /\ l[i] # NIL
  BY <1>1, <1>5, ElementOfSeq
<1>. DEFINE Bad == {n \in 0..(Cap + 1) : \E k \in 1..Len(l) :
                       n > Len(l) - k /\ c[n][l[k]] # SubSeq(l, k, Len(l))}
<1>7. Bad = {}
  <2>. SUFFICES ASSUME Bad # {} PROVE FALSE
    OBVIOUS
  <2>1. PICK n \in Bad : \A j \in Bad : n <= j
    <3>1. Bad \in SUBSET Nat
      OBVIOUS
    <3>. HIDE DEF Bad
    <3>. QED BY <3>1, LeastNumber
  <2>2. PICK k \in 1..Len(l) : n > Len(l) - k /\ c[n][l[k]] # SubSeq(l, k, Len(l))
    BY <2>1
  <2>3. n \in 0..(Cap + 1) /\ n \in Nat /\ n # 0 /\ n - 1 \in 0..(Cap + 1) /\ k \in Nat /\ k <= Len(l)
    BY <1>1, <2>1, <2>2
  <2>4. c[n][l[k]] = <<l[k]>> \o c[n - 1][b.pool[l[k]].next]
    BY <1>4, <1>6, <2>3 DEF Walks, WalkStep
  <2>5. SubSeq(l, k, Len(l)) = <<l[k]>> \o SubSeq(l, k + 1, Len(l))
    <3>1. k \in 1..Len(l) /\ Len(l) \in k..Len(l)
      BY <1>1, <2>3
    <3>. QED BY <1>1, <3>1, SubSeqRecursiveFirst, Zenon
  <2>6. CASE k = Len(l)
    <3>1. b.pool[l[k]].next = NIL
      BY <2>6 DEF ListFrom
    <3>2. c[n - 1][NIL] = <<>>
      BY <1>4, <2>3 DEF Walks, WalkStep
    <3>3. SubSeq(l, k + 1, Len(l)) = <<>>
      BY <1>1, <2>6, SubSeqEmpty
    <3>. QED BY <2>2, <2>4, <2>5, <3>1, <3>2, <3>3
  <2>7. CASE k # Len(l)
    <3>1. b.pool[l[k]].next = l[k + 1] /\ k + 1 \in 1..Len(l) /\ n - 1 > Len(l) - (k + 1)
      <4>1. b.pool[l[k]].next = l[k + 1]
        BY <2>2, <2>7 DEF ListFrom
      <4>2. k + 1 \in 1..Len(l) /\ n - 1 > Len(l) - (k + 1)
        <5>. HIDE DEF Bad
        <5>. QED BY <1>1, <2>2, <2>3, <2>7
      <4>. QED BY <4>1, <4>2
    <3>2. n - 1 \notin Bad
      <4>1. ~(n <= n - 1)
        BY <2>3
      <4>. HIDE DEF Bad
      <4>. QED BY <2>1, <4>1
    <3>3. c[n - 1][l[k + 1]] = SubSeq(l, k + 1, Len(l))
      BY <2>3, <3>1, <3>2
    <3>. QED BY <2>2, <2>4, <2>5, <3>1, <3>3
  <2>. QED BY <2>6, <2>7
<1>8. CASE Len(l) = 0
  <2>1. c[Cap + 1][NIL] = <<>>
    <3>1. Cap + 1 \in 0..(Cap + 1) /\ NIL \in Slots \cup {NIL}
      BY <1>1
    <3>. QED BY <1>4, <3>1 DEF Walks, WalkStep
  <2>2. l = <<>>
    BY <1>1, <1>8, EmptySeq
  <2>. QED BY <1>3, <1>8, <2>1, <2>2 DEF ListFrom
<1>9. CASE Len(l) # 0
  <2>1. 1 \in 1..Len(l) /\ Cap + 1 > Len(l) - 1 /\ Cap + 1 \in 0..(Cap + 1) /\ s = l[1]
    BY <1>1, <1>9 DEF ListFrom
  <2>2. c[Cap + 1][l[1]] = SubSeq(l, 1, Len(l))
    BY <1>7, <2>1
  <2>3. SubSeq(l, 1, Len(l)) = l
    BY <1>1, SubSeqFull
  <2>. QED BY <1>3, <2>1, <2>2, <2>3
<1>. QED BY <1>8, <1>9

-----------------------------------------------------------------------------
(* Books, field by field.                                                  *)

\* The types of the fields.
SlotOrNil == Slots \cup {NIL}
Orders == [id : Nat, price : Int, qty : Nat, filled : Nat,
           next : SlotOrNil, prev : SlotOrNil, side : Sides]
PriceLevels == [head : SlotOrNil, tail : SlotOrNil, qtyTotal : Int, count : Int]
Pools == [Slots -> Orders]
Lanes == [Sides -> [Ticks -> PriceLevels]]
Bests == [Sides -> Ticks \cup {NoLevel}]
IdMaps == UNION {[ids -> Slots] : ids \in SUBSET (Nat \ {0})}
Books == [pool : Pools, lane : Lanes, hwm : 0..Cap, best : Bests,
          freeHead : SlotOrNil, idmap : IdMaps]

\* The two books have the same order at slot x, wherever it is linked.
SameOrder(n, b, x) ==
    /\ n.pool[x].id = b.pool[x].id
    /\ n.pool[x].price = b.pool[x].price
    /\ n.pool[x].qty = b.pool[x].qty
    /\ n.pool[x].filled = b.pool[x].filled
    /\ n.pool[x].side = b.pool[x].side

\* All but the pool is the same.
SameOutside(n, b) ==
    /\ n.lane = b.lane /\ n.hwm = b.hwm /\ n.best = b.best
    /\ n.freeHead = b.freeHead /\ n.idmap = b.idmap

\* SetNext writes one `next` and nothing else.
LEMMA SetNextEffect ==
    ASSUME NEW b \in Books, NEW s \in SlotOrNil, NEW v \in SlotOrNil
    PROVE  LET n == SetNext(b, s, v)
           IN  /\ n \in Books
               /\ SameOutside(n, b)
               /\ \A x \in Slots : /\ SameOrder(n, b, x)
                                   /\ n.pool[x].next = IF x = s THEN v ELSE b.pool[x].next
                                   /\ n.pool[x].prev = b.pool[x].prev
<1>. DEFINE n == SetNext(b, s, v)
<1>0. NIL \notin Slots
  BY BookConfig DEF NIL, Slots
<1>1. n \in Books
  BY DEF SetNext, Books, Pools, Orders, SlotOrNil
<1>2. SameOutside(n, b)
  BY DEF SetNext, SameOutside, Books
<1>3. ASSUME NEW x \in Slots
      PROVE  /\ SameOrder(n, b, x)
             /\ n.pool[x].next = IF x = s THEN v ELSE b.pool[x].next
             /\ n.pool[x].prev = b.pool[x].prev
  BY <1>0, <1>3 DEF SetNext, Books, Pools, Orders, SameOrder, SlotOrNil
<1>. QED BY <1>1, <1>2, <1>3

\* SetPrev writes one `prev` and nothing else.
LEMMA SetPrevEffect ==
    ASSUME NEW b \in Books, NEW s \in SlotOrNil, NEW v \in SlotOrNil
    PROVE  LET n == SetPrev(b, s, v)
           IN  /\ n \in Books
               /\ SameOutside(n, b)
               /\ \A x \in Slots : /\ SameOrder(n, b, x)
                                   /\ n.pool[x].next = b.pool[x].next
                                   /\ n.pool[x].prev = IF x = s THEN v ELSE b.pool[x].prev
<1>. DEFINE n == SetPrev(b, s, v)
<1>0. NIL \notin Slots
  BY BookConfig DEF NIL, Slots
<1>1. n \in Books
  BY DEF SetPrev, Books, Pools, Orders, SlotOrNil
<1>2. SameOutside(n, b)
  BY DEF SetPrev, SameOutside, Books
<1>3. ASSUME NEW x \in Slots
      PROVE  /\ SameOrder(n, b, x)
             /\ n.pool[x].next = b.pool[x].next
             /\ n.pool[x].prev = IF x = s THEN v ELSE b.pool[x].prev
  BY <1>0, <1>3 DEF SetPrev, Books, Pools, Orders, SameOrder, SlotOrNil
<1>. QED BY <1>1, <1>2, <1>3

\* AllocSlot takes the head of the free list or moves the high-water mark.
LEMMA AllocSlotEffect ==
    ASSUME NEW b \in Books, ~Exhausted(b)
    PROVE  LET n == AllocSlot(b)
           IN  /\ NextSlot(b) \in Slots
               /\ n \in Books
               /\ n.pool = b.pool /\ n.lane = b.lane /\ n.best = b.best /\ n.idmap = b.idmap
               /\ b.freeHead # NIL => n.freeHead = b.pool[b.freeHead].next /\ n.hwm = b.hwm
               /\ b.freeHead = NIL => n.freeHead = NIL /\ n.hwm = b.hwm + 1
<1>. DEFINE n == AllocSlot(b)
<1>1. Cap \in Nat /\ b.hwm \in 0..Cap /\ b.freeHead \in SlotOrNil
  BY BookConfig DEF Books
<1>2. CASE b.freeHead # NIL
  <2>1. b.freeHead \in Slots
    BY <1>1, <1>2 DEF SlotOrNil
  <2>2. b.pool[b.freeHead].next \in SlotOrNil
    BY <2>1 DEF Books, Pools, Orders
  <2>3. n = [b EXCEPT !.freeHead = b.pool[b.freeHead].next]
    BY <1>2 DEF AllocSlot
  <2>4. n \in Books
    BY <2>2, <2>3 DEF Books
  <2>5. /\ n.pool = b.pool /\ n.lane = b.lane /\ n.best = b.best /\ n.idmap = b.idmap
        /\ n.freeHead = b.pool[b.freeHead].next /\ n.hwm = b.hwm
    BY <2>3 DEF Books
  <2>. QED BY <1>2, <2>1, <2>4, <2>5 DEF NextSlot
<1>3. CASE b.freeHead = NIL
  <2>1. b.hwm \in Slots /\ b.hwm + 1 \in 0..Cap
    BY <1>1, <1>3 DEF Exhausted, Slots
  <2>2. n = [b EXCEPT !.hwm = b.hwm + 1]
    BY <1>3 DEF AllocSlot, Books
  <2>3. n \in Books
    BY <2>1, <2>2 DEF Books
  <2>4. /\ n.pool = b.pool /\ n.lane = b.lane /\ n.best = b.best /\ n.idmap = b.idmap
        /\ n.freeHead = NIL /\ n.hwm = b.hwm + 1
    BY <1>3, <2>2 DEF Books
  <2>. QED BY <1>3, <2>1, <2>3, <2>4 DEF NextSlot
<1>. QED BY <1>2, <1>3

\* FreeSlot clears the id of one slot and chains it before the free list.
LEMMA FreeSlotEffect ==
    ASSUME NEW b \in Books, NEW s \in Slots
    PROVE  LET n == FreeSlot(b, s)
           IN  /\ n \in Books
               /\ n.lane = b.lane /\ n.hwm = b.hwm /\ n.best = b.best /\ n.idmap = b.idmap
               /\ n.freeHead = s
               /\ n.pool[s] = [b.pool[s] EXCEPT !.id = 0, !.next = b.freeHead, !.prev = NIL]
               /\ \A x \in Slots : x # s => n.pool[x] = b.pool[x]
<1>. DEFINE n == FreeSlot(b, s)
            o == [b.pool[s] EXCEPT !.id = 0, !.next = b.freeHead, !.prev = NIL]
<1>1. b.pool[s] \in Orders /\ b.freeHead \in SlotOrNil /\ b.pool \in Pools
  BY DEF Books, Pools
<1>2. n = [b EXCEPT !.pool = [b.pool EXCEPT ![s] = o], !.freeHead = s]
  BY DEF FreeSlot, Books, Pools, Orders
<1>3. o \in Orders
  BY <1>1 DEF Orders, SlotOrNil
<1>. HIDE DEF o
<1>4. [b.pool EXCEPT ![s] = o] \in Pools
  BY <1>1, <1>3 DEF Pools
<1>5. n \in Books
  BY <1>2, <1>4 DEF Books, SlotOrNil
<1>6. /\ n.lane = b.lane /\ n.hwm = b.hwm /\ n.best = b.best /\ n.idmap = b.idmap
      /\ n.freeHead = s /\ n.pool = [b.pool EXCEPT ![s] = o]
  BY <1>2 DEF Books
<1>7. n.pool[s] = o /\ \A x \in Slots : x # s => n.pool[x] = b.pool[x]
  BY <1>1, <1>6 DEF Pools
<1>. QED BY <1>5, <1>6, <1>7 DEF o

\* What an insert does to the fields: the order o ends up in slot s, behind
\* the old tail of its level.
Inserted(b, n, s, t, o) ==
    LET old == b.lane[o.side][t]
    IN  /\ n \in Books /\ s \in Slots
        /\ b.freeHead # NIL => n.freeHead = b.pool[b.freeHead].next /\ n.hwm = b.hwm
        /\ b.freeHead = NIL => n.freeHead = NIL /\ n.hwm = b.hwm + 1
        /\ s # old.tail =>
              /\ n.pool[s] = o
              /\ \A x \in Slots \ {s} :
                    /\ SameOrder(n, b, x)
                    /\ n.pool[x].prev = b.pool[x].prev
                    /\ n.pool[x].next = IF x = old.tail THEN s ELSE b.pool[x].next
        /\ n.lane[o.side][t] = [head     |-> IF old.tail = NIL THEN s ELSE old.head,
                                tail     |-> s,
                                qtyTotal |-> old.qtyTotal + o.qty,
                                count    |-> old.count + 1]
        /\ \A d \in Sides, i \in Ticks :
              d # o.side \/ i # t => n.lane[d][i] = b.lane[d][i]
        /\ n.best = ImproveBest(b.best, o.side, t)
        /\ n.idmap = [i \in DOMAIN b.idmap \cup {o.id} |-> IF i = o.id THEN s ELSE b.idmap[i]]

\* The order an insert makes.
NewOrder(b, id, price, qty, side) ==
    [id |-> id, price |-> price, qty |-> qty, filled |-> 0, next |-> NIL,
     prev |-> b.lane[side][TickOf(price)].tail, side |-> side]

\* Insert field by field.
LEMMA InsertEffect ==
    ASSUME NEW b \in Books, ~Exhausted(b),
           NEW id \in Nat \ {0}, NEW price \in Int, NEW qty \in Nat, NEW side \in Sides,
           TickOf(price) \in Ticks
    PROVE  Inserted(b, Insert(b, id, price, qty, side), NextSlot(b), TickOf(price),
                    NewOrder(b, id, price, qty, side))
<1>. DEFINE n     == Insert(b, id, price, qty, side)
            t     == TickOf(price)
            s     == NextSlot(b)
            old   == b.lane[side][t]
            order == [id |-> id, price |-> price, qty |-> qty, filled |-> 0,
                      next |-> NIL, prev |-> old.tail, side |-> side]
            level == [head     |-> IF old.tail = NIL THEN s ELSE old.head,
                      tail     |-> s,
                      qtyTotal |-> old.qtyTotal + qty,
                      count    |-> old.count + 1]
            ids   == [i \in DOMAIN b.idmap \cup {id} |-> IF i = id THEN s ELSE b.idmap[i]]
            a     == AllocSlot(b)
            p     == [a EXCEPT !.pool[s] = order]
            k     == SetNext(p, old.tail, s)
<1>1. /\ s \in Slots /\ a \in Books
      /\ a.pool = b.pool /\ a.lane = b.lane /\ a.best = b.best /\ a.idmap = b.idmap
      /\ b.freeHead # NIL => a.freeHead = b.pool[b.freeHead].next /\ a.hwm = b.hwm
      /\ b.freeHead = NIL => a.freeHead = NIL /\ a.hwm = b.hwm + 1
  BY AllocSlotEffect
<1>2. old \in PriceLevels /\ t \in Ticks
  BY DEF Books, Lanes
<1>3. order \in Orders /\ old.tail \in SlotOrNil
  BY <1>2 DEF Orders, PriceLevels, SlotOrNil
<1>4. level \in PriceLevels
  BY <1>1, <1>2 DEF PriceLevels, SlotOrNil
<1>5. /\ p \in Books /\ SameOutside(p, a)
      /\ p.pool[s] = order /\ \A x \in Slots : x # s => p.pool[x] = b.pool[x]
  <2>1. a.pool \in Pools
    BY <1>1 DEF Books
  <2>. HIDE DEF order, a, s
  <2>2. p = [a EXCEPT !.pool = [a.pool EXCEPT ![s] = order]]
    BY <1>1 DEF Books
  <2>3. [a.pool EXCEPT ![s] = order] \in Pools
    BY <1>1, <1>3, <2>1 DEF Pools
  <2>4. p \in Books /\ SameOutside(p, a) /\ p.pool = [a.pool EXCEPT ![s] = order]
    BY <1>1, <2>2, <2>3 DEF Books, SameOutside
  <2>. HIDE DEF p
  <2>. QED BY <1>1, <2>1, <2>4 DEF Pools
<1>6. /\ k \in Books /\ SameOutside(k, p)
      /\ \A x \in Slots : /\ SameOrder(k, p, x)
                          /\ k.pool[x].next = IF x = old.tail THEN s ELSE p.pool[x].next
                          /\ k.pool[x].prev = p.pool[x].prev
  <2>. HIDE DEF p, s, old
  <2>1. s \in SlotOrNil
    BY <1>1 DEF SlotOrNil
  <2>. QED BY <1>3, <1>5, <2>1, SetNextEffect
<1>7. k.lane = b.lane /\ k.hwm = a.hwm /\ k.best = b.best /\ k.freeHead = a.freeHead /\ k.idmap = b.idmap
  <2>. HIDE DEF k, p, a
  <2>. QED BY <1>1, <1>5, <1>6 DEF SameOutside
<1>8. n = [k EXCEPT !.lane = [b.lane EXCEPT ![side] = [b.lane[side] EXCEPT ![t] = level]],
                    !.idmap = ids, !.best = ImproveBest(b.best, side, t)]
  <2>1. n = [k EXCEPT !.lane[side][t] = [head |-> IF old.tail = NIL THEN s ELSE @.head,
                                         tail |-> s, qtyTotal |-> @.qtyTotal + qty,
                                         count |-> @.count + 1],
                      !.idmap = [i \in DOMAIN @ \cup {id} |-> IF i = id THEN s ELSE @[i]],
                      !.best = ImproveBest(@, side, t)]
    BY DEF Insert
  <2>. HIDE DEF k, s, t, n
  <2>. QED BY <1>6, <1>7, <2>1 DEF Books, Lanes
<1>. HIDE DEF k, p, a
<1>9. ids \in IdMaps
  <2>1. PICK d \in SUBSET (Nat \ {0}) : b.idmap \in [d -> Slots]
    BY DEF Books, IdMaps
  <2>2. DOMAIN b.idmap \cup {id} \in SUBSET (Nat \ {0})
    BY <2>1
  <2>. HIDE DEF s
  <2>3. ids \in [DOMAIN b.idmap \cup {id} -> Slots]
    BY <1>1, <2>1
  <2>. QED BY <2>2, <2>3 DEF IdMaps
<1>10. ImproveBest(b.best, side, t) \in Bests
  <2>. HIDE DEF t
  <2>. QED BY <1>2 DEF ImproveBest, Books, Bests
<1>. HIDE DEF t, s, old, order, level, ids
<1>11. [b.lane EXCEPT ![side] = [b.lane[side] EXCEPT ![t] = level]] \in Lanes
  BY <1>2, <1>4 DEF Books, Lanes
<1>12. n \in Books /\ n.pool = k.pool /\ n.hwm = k.hwm /\ n.freeHead = k.freeHead
       /\ n.idmap = ids /\ n.best = ImproveBest(b.best, side, t)
       /\ n.lane = [b.lane EXCEPT ![side] = [b.lane[side] EXCEPT ![t] = level]]
  <2>. HIDE DEF n
  <2>. QED BY <1>6, <1>8, <1>9, <1>10, <1>11 DEF Books
<1>. HIDE DEF n
<1>13. n.lane[side][t] = level
       /\ \A d \in Sides, i \in Ticks : d # side \/ i # t => n.lane[d][i] = b.lane[d][i]
  BY <1>2, <1>12 DEF Books, Lanes
<1>14. ASSUME s # old.tail
       PROVE  /\ n.pool[s] = order
              /\ \A x \in Slots \ {s} :
                    /\ SameOrder(n, b, x)
                    /\ n.pool[x].prev = b.pool[x].prev
                    /\ n.pool[x].next = IF x = old.tail THEN s ELSE b.pool[x].next
  <2>1. \A x \in Slots : x # s => p.pool[x] = b.pool[x] /\ SameOrder(k, p, x)
    BY <1>5, <1>6
  <2>2. \A x \in Slots \ {s} : SameOrder(n, b, x)
    BY <1>12, <2>1 DEF SameOrder
  <2>3. \A x \in Slots \ {s} : /\ n.pool[x].prev = b.pool[x].prev
                               /\ n.pool[x].next = IF x = old.tail THEN s ELSE b.pool[x].next
    BY <1>6, <1>12, <2>1
  <2>4. n.pool[s] = order
    <3>1. n.pool[s] \in Orders /\ k.pool[s] = n.pool[s] /\ order \in Orders /\ p.pool[s] = order
      BY <1>1, <1>3, <1>5, <1>12 DEF Books, Pools
    <3>2. /\ SameOrder(k, p, s)
          /\ k.pool[s].next = p.pool[s].next /\ k.pool[s].prev = p.pool[s].prev
      BY <1>1, <1>6, <1>14
    <3>. QED BY <3>1, <3>2 DEF SameOrder, Orders
  <2>. QED BY <2>2, <2>3, <2>4
<1>15. /\ b.freeHead # NIL => n.freeHead = b.pool[b.freeHead].next /\ n.hwm = b.hwm
       /\ b.freeHead = NIL => n.freeHead = NIL /\ n.hwm = b.hwm + 1
  BY <1>1, <1>7, <1>12
<1>16. order.side = side /\ order.qty = qty /\ order.id = id
       /\ order = NewOrder(b, id, price, qty, side)
  BY DEF order, NewOrder, old, t
<1>17. Inserted(b, n, s, t, order)
  <2>. HIDE DEF NewOrder
  <2>. QED BY <1>1, <1>12, <1>13, <1>14, <1>15, <1>16, SMTT(30) DEF Inserted, old, level, ids
<1>. QED BY <1>16, <1>17 DEF n, s, t

\* What Unlink does to the fields: the neighbours of slot s are joined, its
\* level shrinks by it.
Unlinked(b, n, s, side, t, rem) ==
    LET o   == b.pool[s]
        old == b.lane[side][t]
    IN  /\ n \in Books
        /\ n.hwm = b.hwm /\ n.freeHead = b.freeHead /\ n.best = b.best /\ n.idmap = b.idmap
        /\ \A x \in Slots :
              /\ SameOrder(n, b, x)
              /\ n.pool[x].next = IF x = o.prev THEN o.next ELSE b.pool[x].next
              /\ n.pool[x].prev = IF x = o.next THEN o.prev ELSE b.pool[x].prev
        /\ n.lane[side][t] = [head     |-> IF old.head = s THEN o.next ELSE old.head,
                              tail     |-> IF old.tail = s THEN o.prev ELSE old.tail,
                              qtyTotal |-> old.qtyTotal - rem,
                              count    |-> old.count - 1]
        /\ \A d \in Sides, i \in Ticks :
              d # side \/ i # t => n.lane[d][i] = b.lane[d][i]

\* Unlink field by field.
LEMMA UnlinkEffect ==
    ASSUME NEW b \in Books, NEW s \in Slots, NEW side \in Sides, NEW t \in Ticks, NEW rem \in Int
    PROVE  Unlinked(b, Unlink(b, s, side, t, rem), s, side, t, rem)
<1>. DEFINE n     == Unlink(b, s, side, t, rem)
            o     == b.pool[s]
            old   == b.lane[side][t]
            level == [head     |-> IF old.head = s THEN o.next ELSE old.head,
                      tail     |-> IF old.tail = s THEN o.prev ELSE old.tail,
                      qtyTotal |-> old.qtyTotal - rem,
                      count    |-> old.count - 1]
            p     == SetNext(b, o.prev, o.next)
            k     == SetPrev(p, o.next, o.prev)
<1>1. o \in Orders /\ o.next \in SlotOrNil /\ o.prev \in SlotOrNil /\ old \in PriceLevels
  BY DEF Books, Pools, Orders, Lanes
<1>2. level \in PriceLevels
  <2>. HIDE DEF o
  <2>. QED BY <1>1 DEF PriceLevels, Orders
<1>3. /\ p \in Books /\ SameOutside(p, b)
      /\ \A x \in Slots : /\ SameOrder(p, b, x)
                          /\ p.pool[x].next = IF x = o.prev THEN o.next ELSE b.pool[x].next
                          /\ p.pool[x].prev = b.pool[x].prev
  <2>. HIDE DEF o
  <2>. QED BY <1>1, SetNextEffect
<1>4. /\ k \in Books /\ SameOutside(k, p)
      /\ \A x \in Slots : /\ SameOrder(k, p, x)
                          /\ k.pool[x].next = p.pool[x].next
                          /\ k.pool[x].prev = IF x = o.next THEN o.prev ELSE p.pool[x].prev
  <2>. HIDE DEF o, p
  <2>. QED BY <1>1, <1>3, SetPrevEffect
<1>5. k.lane = b.lane /\ k.hwm = b.hwm /\ k.best = b.best /\ k.freeHead = b.freeHead /\ k.idmap = b.idmap
  <2>. HIDE DEF k, p
  <2>. QED BY <1>3, <1>4 DEF SameOutside
<1>6. n = [k EXCEPT !.lane = [b.lane EXCEPT ![side] = [b.lane[side] EXCEPT ![t] = level]]]
  <2>1. n = [k EXCEPT !.lane[side][t] = [head |-> IF @.head = s THEN o.next ELSE @.head,
                                         tail |-> IF @.tail = s THEN o.prev ELSE @.tail,
                                         qtyTotal |-> @.qtyTotal - rem,
                                         count |-> @.count - 1]]
    BY DEF Unlink
  <2>. HIDE DEF k, o, n
  <2>. QED BY <1>4, <1>5, <2>1 DEF Books, Lanes
<1>. HIDE DEF k, p, o, old, level
<1>7. [b.lane EXCEPT ![side] = [b.lane[side] EXCEPT ![t] = level]] \in Lanes
  BY <1>2 DEF Books, Lanes
<1>8. n \in Books /\ n.pool = k.pool /\ n.hwm = k.hwm /\ n.freeHead = k.freeHead
      /\ n.idmap = k.idmap /\ n.best = k.best
      /\ n.lane = [b.lane EXCEPT ![side] = [b.lane[side] EXCEPT ![t] = level]]
  <2>. HIDE DEF n
  <2>. QED BY <1>4, <1>6, <1>7 DEF Books
<1>. HIDE DEF n
<1>9. n.lane[side][t] = level
      /\ \A d \in Sides, i \in Ticks : d # side \/ i # t => n.lane[d][i] = b.lane[d][i]
  BY <1>8 DEF Books, Lanes
<1>10. ASSUME NEW x \in Slots
       PROVE  /\ SameOrder(n, b, x)
              /\ n.pool[x].next = IF x = o.prev THEN o.next ELSE b.pool[x].next
              /\ n.pool[x].prev = IF x = o.next THEN o.prev ELSE b.pool[x].prev
  <2>1. SameOrder(n, b, x)
    BY <1>3, <1>4, <1>8 DEF SameOrder
  <2>. QED BY <1>3, <1>4, <1>8, <2>1
<1>11. Unlinked(b, n, s, side, t, rem)
  BY <1>5, <1>8, <1>9, <1>10 DEF Unlinked, o, old, level
<1>. QED BY <1>11 DEF n

\* What RepairBest does to the fields: unless another level of the side is
\* the best or the level is still occupied, the best of the side becomes the
\* nearest occupied level behind it.
Repaired(b, n, side, t) ==
    LET behind   == IF side = BID THEN 0..t ELSE t..(Levels - 1)
        occupied == {i \in behind : b.lane[side][i].head # NIL}
    IN  /\ n.pool = b.pool /\ n.lane = b.lane /\ n.hwm = b.hwm
        /\ n.freeHead = b.freeHead /\ n.idmap = b.idmap
        /\ \A d \in Sides : d # side => n.best[d] = b.best[d]
        /\ n.best[side] = IF b.best[side] # t \/ b.lane[side][t].head # NIL THEN b.best[side]
                          ELSE IF occupied = {} THEN NoLevel
                          ELSE IF side = BID THEN Max(occupied) ELSE Min(occupied)
        /\ n = [b EXCEPT !.best = n.best]
        /\ n.best = [d \in Sides |-> n.best[d]]

\* RepairBest field by field.
LEMMA RepairBestEffect ==
    ASSUME NEW b \in Books, NEW side \in Sides, NEW t \in Ticks
    PROVE  Repaired(b, RepairBest(b, side, t), side, t)
<1>. DEFINE behind   == IF side = BID THEN 0..t ELSE t..(Levels - 1)
            occupied == {i \in behind : b.lane[side][i].head # NIL}
            best     == IF occupied = {} THEN NoLevel
                        ELSE IF side = BID THEN Max(occupied) ELSE Min(occupied)
            n        == RepairBest(b, side, t)
<1>1. b.best \in Bests
  BY DEF Books
<1>2. CASE b.best[side] # t \/ b.lane[side][t].head # NIL
  <2>1. n = b
    BY <1>2 DEF RepairBest
  <2>2. n = [b EXCEPT !.best = n.best]
    BY <2>1 DEF Books
  <2>3. n.best = [d \in Sides |-> n.best[d]]
    BY <1>1, <2>1 DEF Bests
  <2>. HIDE DEF n
  <2>4. Repaired(b, n, side, t)
    BY <1>2, <2>1, <2>2, <2>3 DEF Repaired
  <2>. QED BY <2>4 DEF n
<1>3. CASE ~(b.best[side] # t \/ b.lane[side][t].head # NIL)
  <2>1. n = [b EXCEPT !.best[side] = best]
    BY <1>3 DEF RepairBest
  <2>. HIDE DEF best, occupied
  <2>2. n = [b EXCEPT !.best = [b.best EXCEPT ![side] = best]]
    BY <2>1 DEF Books
  <2>. HIDE DEF n
  <2>3. /\ n.pool = b.pool /\ n.lane = b.lane /\ n.hwm = b.hwm
        /\ n.freeHead = b.freeHead /\ n.idmap = b.idmap
        /\ n.best = [b.best EXCEPT ![side] = best]
    BY <2>2 DEF Books
  <2>4. n.best[side] = best /\ n.best = [d \in Sides |-> n.best[d]]
        /\ \A d \in Sides : d # side => n.best[d] = b.best[d]
    BY <1>1, <2>3 DEF Bests
  <2>5. n = [b EXCEPT !.best = n.best]
    BY <2>2, <2>3
  <2>6. Repaired(b, n, side, t)
    BY <1>3, <2>3, <2>4, <2>5 DEF Repaired, best, occupied
  <2>. QED BY <2>6 DEF n
<1>. QED BY <1>2, <1>3

-----------------------------------------------------------------------------
(* A book holds lists.                                                     *)

\* The order at slot x rests at a level of the book.
RestsAt(b, x, side, t) ==
    /\ x < b.hwm
    /\ b.pool[x].id # 0
    /\ b.pool[x].side = side
    /\ TickOf(b.pool[x].price) = t

\* A level holds the list l: it can be walked along both links, consists of
\* the orders that rest there, and its aggregates are those of the list.
LevelHolds(b, side, t, l) ==
    /\ ListFrom(b, b.lane[side][t].head, l)
    /\ b.lane[side][t].tail = IF Len(l) = 0 THEN NIL ELSE l[Len(l)]
    /\ \A i \in 1..Len(l) : b.pool[l[i]].prev = IF i = 1 THEN NIL ELSE l[i - 1]
    /\ \A x \in Slots : (\E i \in 1..Len(l) : l[i] = x) <=> RestsAt(b, x, side, t)
    /\ b.lane[side][t].count = Len(l)
    /\ b.lane[side][t].qtyTotal = OpenQty(b, l)

\* The free list holds f: the used slots that hold no order.
FreeHolds(b, f) ==
    /\ ListFrom(b, b.freeHead, f)
    /\ \A x \in Slots : (\E i \in 1..Len(f) : f[i] = x) <=> x < b.hwm /\ b.pool[x].id = 0

\* The id map names the slots that hold an order; such a slot has been used,
\* its price is that of a level and no more than its quantity is filled.
SlotsHold(b) ==
    /\ \A x \in Slots : b.pool[x].id # 0 => /\ b.pool[x].id \in DOMAIN b.idmap
                                            /\ b.idmap[b.pool[x].id] = x
                                            /\ TickOf(b.pool[x].price) \in Ticks
                                            /\ x < b.hwm
    /\ \A id \in DOMAIN b.idmap : b.pool[b.idmap[id]].id = id
    /\ \A x \in Slots : b.pool[x].filled <= b.pool[x].qty

\* The best of a set of ticks.
IsBest(side, ticks, best) ==
    IF ticks = {} THEN best = NoLevel
    ELSE best \in ticks /\ \A t \in ticks : IF side = BID THEN t <= best ELSE best <= t
\* The best of each side is that of its occupied levels.
Occupied(b, side) == {t \in Ticks : b.lane[side][t].head # NIL}
BestHolds(b) == \A side \in Sides : IsBest(side, Occupied(b, side), b.best[side])

\* The book holds the queues q and the free list f.
Holds(b, q, f) ==
    /\ b \in Books
    /\ q \in [Sides -> [Ticks -> Seq(Slots)]]
    /\ \A side \in Sides, t \in Ticks : LevelHolds(b, side, t, q[side][t])
    /\ FreeHolds(b, f)
    /\ SlotsHold(b)
    /\ BestHolds(b)

\* What is open of an order is a number.
LEMMA OpensTyped ==
    ASSUME NEW b \in Books, NEW l \in Seq(Slots)
    PROVE  [i \in 1..Len(l) |-> Open(b.pool[l[i]])] \in Seq(Int)
<1>1. Len(l) \in Nat
  OBVIOUS
<1>2. \A i \in 1..Len(l) : b.pool[l[i]] \in Orders
  BY ElementOfSeq DEF Books, Pools
<1>3. \A i \in 1..Len(l) : Open(b.pool[l[i]]) \in Int
  BY <1>2 DEF Open, Orders
<1>. QED BY <1>1, <1>3

\* A level none of whose orders and links changed holds the same list.
LEMMA LevelUntouched ==
    ASSUME NEW b \in Books, NEW n \in Books, NEW side \in Sides, NEW t \in Ticks, NEW l,
           LevelHolds(b, side, t, l), n.lane[side][t] = b.lane[side][t],
           \A x \in Slots : RestsAt(b, x, side, t) =>
              SameOrder(n, b, x) /\ n.pool[x].next = b.pool[x].next /\ n.pool[x].prev = b.pool[x].prev,
           \A x \in Slots : RestsAt(n, x, side, t) <=> RestsAt(b, x, side, t)
    PROVE  LevelHolds(n, side, t, l)
<1>1. l \in Seq(Slots) /\ \A i \in 1..Len(l) : l[i] \in Slots
  BY ElementOfSeq DEF LevelHolds, ListFrom
<1>2. \A i \in 1..Len(l) : RestsAt(b, l[i], side, t)
  BY <1>1 DEF LevelHolds
<1>3. \A i \in 1..Len(l) : /\ SameOrder(n, b, l[i])
                           /\ n.pool[l[i]].next = b.pool[l[i]].next
                           /\ n.pool[l[i]].prev = b.pool[l[i]].prev
  BY <1>1, <1>2
<1>4. ListFrom(n, n.lane[side][t].head, l)
  BY <1>3 DEF LevelHolds, ListFrom
<1>5. n.lane[side][t].tail = IF Len(l) = 0 THEN NIL ELSE l[Len(l)]
  BY DEF LevelHolds
<1>6. \A i \in 1..Len(l) : n.pool[l[i]].prev = IF i = 1 THEN NIL ELSE l[i - 1]
  BY <1>3 DEF LevelHolds
<1>7. \A x \in Slots : (\E i \in 1..Len(l) : l[i] = x) <=> RestsAt(n, x, side, t)
  BY DEF LevelHolds
<1>8. n.lane[side][t].count = Len(l)
  BY DEF LevelHolds
<1>9. OpenQty(n, l) = OpenQty(b, l)
  <2>1. \A i \in 1..Len(l) : Open(n.pool[l[i]]) = Open(b.pool[l[i]])
    BY <1>3 DEF SameOrder, Open
  <2>2. [i \in 1..Len(l) |-> Open(n.pool[l[i]])] = [i \in 1..Len(l) |-> Open(b.pool[l[i]])]
    BY <2>1
  <2>. QED BY <2>2 DEF OpenQty
<1>10. n.lane[side][t].qtyTotal = OpenQty(n, l)
  BY <1>9 DEF LevelHolds
<1>. QED BY <1>4, <1>5, <1>6, <1>7, <1>8, <1>10 DEF LevelHolds

\* The highest of some ticks.
LEMMA MaxIs ==
    ASSUME NEW S \in SUBSET Ticks, S # {}
    PROVE  Max(S) \in S /\ \A t \in S : t <= Max(S)
<1>1. Levels \in Nat
  BY BookConfig
<1>. DEFINE D == {Levels - t : t \in S}
<1>2. D \in SUBSET Nat /\ D # {}
  <2>1. \A t \in S : Levels - t \in Nat
    BY <1>1 DEF Ticks
  <2>. QED BY <2>1
<1>3. PICK m \in D : \A j \in D : m <= j
  <2>. HIDE DEF D
  <2>. QED BY <1>2, LeastNumber
<1>4. PICK t \in S : m = Levels - t
  BY <1>3
<1>5. \A y \in S : t >= y
  BY <1>1, <1>3, <1>4 DEF Ticks
<1>6. Max(S) \in S /\ \A y \in S : Max(S) >= y
  BY <1>4, <1>5 DEF Max
<1>7. \A y \in S : y \in Int
  BY DEF Ticks
<1>. QED BY <1>6, <1>7

\* The lowest of some ticks.
LEMMA MinIs ==
    ASSUME NEW S \in SUBSET Ticks, S # {}
    PROVE  Min(S) \in S /\ \A t \in S : Min(S) <= t
<1>1. S \in SUBSET Nat
  BY DEF Ticks
<1>2. PICK m \in S : \A j \in S : m <= j
  BY <1>1, LeastNumber
<1>. QED BY <1>2 DEF Min

\* An occupied level more: the better of the best and the new one is the best.
LEMMA BestImproved ==
    ASSUME NEW best \in Bests, NEW side \in Sides, NEW t \in Ticks, NEW S \in SUBSET Ticks,
           IsBest(side, S, best[side])
    PROVE  /\ IsBest(side, S \cup {t}, ImproveBest(best, side, t)[side])
           /\ \A d \in Sides : d # side => ImproveBest(best, side, t)[d] = best[d]
<1>. DEFINE n == ImproveBest(best, side, t)
<1>1. t \in Nat /\ t # NoLevel /\ \A i \in S : i \in Nat /\ i # NoLevel
  BY DEF Ticks, NoLevel
<1>2. CASE S = {}
  <2>1. best[side] = NoLevel /\ n = [best EXCEPT ![side] = t]
    BY <1>2 DEF IsBest, ImproveBest
  <2>. HIDE DEF n
  <2>2. n[side] = t /\ \A d \in Sides : d # side => n[d] = best[d]
    BY <2>1 DEF Bests
  <2>3. IsBest(side, S \cup {t}, t)
    BY <1>1, <1>2 DEF IsBest
  <2>. QED BY <2>2, <2>3 DEF n
<1>3. CASE S # {}
  <2>0. best[side] \in S /\ best[side] \in Nat /\ best[side] # NoLevel
    BY <1>1, <1>3 DEF IsBest
  <2>1. /\ side = BID => \A i \in S : i <= best[side]
        /\ side # BID => \A i \in S : best[side] <= i
    BY <1>3 DEF IsBest
  <2>2. CASE \/ side = BID /\ t > best[side]
             \/ side # BID /\ t < best[side]
    <3>1. n = [best EXCEPT ![side] = t]
      BY <2>2 DEF ImproveBest, Sides, ASK, BID
    <3>. HIDE DEF n
    <3>2. n[side] = t /\ \A d \in Sides : d # side => n[d] = best[d]
      BY <3>1 DEF Bests
    <3>3. /\ side = BID => \A i \in S : i <= t
          /\ side # BID => \A i \in S : t <= i
      BY <1>1, <2>0, <2>1, <2>2
    <3>4. IsBest(side, S \cup {t}, t)
      BY <1>1, <3>3 DEF IsBest
    <3>. QED BY <3>2, <3>4 DEF n
  <2>3. CASE ~(\/ side = BID /\ t > best[side]
               \/ side # BID /\ t < best[side])
    <3>1. n = best
      BY <2>0, <2>3 DEF ImproveBest, Sides, ASK, BID
    <3>2. /\ side = BID => t <= best[side]
          /\ side # BID => best[side] <= t
      BY <1>1, <2>0, <2>3
    <3>3. IsBest(side, S \cup {t}, best[side])
      BY <2>0, <2>1, <3>2 DEF IsBest
    <3>. QED BY <3>1, <3>3
  <2>. QED BY <2>2, <2>3
<1>. QED BY <1>2, <1>3

\* The id map leads from ids to slots.
LEMMA IdMapTyped ==
    ASSUME NEW b \in Books, NEW i \in DOMAIN b.idmap
    PROVE  i \in Nat \ {0} /\ b.idmap[i] \in Slots
<1>1. PICK ids \in SUBSET (Nat \ {0}) : b.idmap \in [ids -> Slots]
  BY DEF Books, IdMaps
<1>. QED BY <1>1

\* The tail of a level holds an order.
LEMMA TailsHoldOrders ==
    ASSUME NEW b, NEW q, NEW f, Holds(b, q, f), NEW d \in Sides, NEW i \in Ticks,
           NEW x \in Slots, b.pool[x].id = 0
    PROVE  x # b.lane[d][i].tail
<1>. DEFINE l == q[d][i]
<1>1. LevelHolds(b, d, i, l)
  BY DEF Holds
<1>. HIDE DEF l
<1>2. l \in Seq(Slots) /\ Len(l) \in Nat /\ NIL \notin Slots
  <2>1. l \in Seq(Slots)
    BY <1>1 DEF LevelHolds, ListFrom
  <2>. QED BY <2>1, BookConfig DEF NIL, Slots
<1>3. CASE Len(l) = 0
  BY <1>1, <1>2, <1>3 DEF LevelHolds
<1>4. CASE Len(l) # 0
  <2>1. Len(l) \in 1..Len(l) /\ l[Len(l)] \in Slots
    BY <1>2, <1>4, ElementOfSeq
  <2>2. RestsAt(b, l[Len(l)], d, i)
    BY <1>1, <2>1 DEF LevelHolds
  <2>. QED BY <1>1, <1>4, <2>2 DEF LevelHolds, RestsAt
<1>. QED BY <1>3, <1>4

\* The slot an insert takes: none of the orders at rest is there.
LEMMA NextSlotIsFree ==
    ASSUME NEW b, NEW q, NEW f, Holds(b, q, f), ~Exhausted(b)
    PROVE  LET s == NextSlot(b)
           IN  /\ s \in Slots /\ b.pool[s].id = 0
               /\ b.freeHead # NIL => Len(f) # 0 /\ s = f[1] /\ s < b.hwm
               /\ b.freeHead = NIL => Len(f) = 0 /\ s = b.hwm
               /\ \A d \in Sides, i \in Ticks : s # b.lane[d][i].tail
<1>1. b \in Books /\ FreeHolds(b, f) /\ SlotsHold(b) /\ NextSlot(b) \in Slots
  BY AllocSlotEffect DEF Holds
<1>2. Len(f) \in Nat /\ f \in Seq(Slots) /\ (Len(f) = 0 <=> b.freeHead = NIL) /\ NIL \notin Slots
  <2>1. NIL \notin Slots
    BY BookConfig DEF NIL, Slots
  <2>2. f \in Seq(Slots) /\ b.freeHead = IF Len(f) = 0 THEN NIL ELSE f[1]
    BY <1>1 DEF FreeHolds, ListFrom
  <2>. QED BY <2>1, <2>2
<1>3. ASSUME b.freeHead # NIL
      PROVE  Len(f) # 0 /\ NextSlot(b) = f[1] /\ f[1] < b.hwm /\ b.pool[f[1]].id = 0
  <2>1. Len(f) # 0 /\ NextSlot(b) = f[1] /\ 1 \in 1..Len(f)
    BY <1>1, <1>2, <1>3 DEF FreeHolds, ListFrom, NextSlot
  <2>2. b.pool[f[1]].id = 0 /\ f[1] < b.hwm
    BY <1>1, <2>1 DEF FreeHolds
  <2>. QED BY <1>3, <2>1, <2>2
<1>4. ASSUME b.freeHead = NIL
      PROVE  Len(f) = 0 /\ NextSlot(b) = b.hwm /\ b.pool[b.hwm].id = 0
  <2>1. Len(f) = 0 /\ NextSlot(b) = b.hwm /\ b.hwm \in Int
    BY <1>1, <1>2, <1>4 DEF NextSlot, Books
  <2>2. b.pool[b.hwm].id = 0
    BY <1>1, <2>1 DEF SlotsHold
  <2>. QED BY <1>4, <2>1, <2>2
<1>5. b.pool[NextSlot(b)].id = 0
  BY <1>3, <1>4
<1>6. \A d \in Sides, i \in Ticks : NextSlot(b) # b.lane[d][i].tail
  BY <1>1, <1>5, TailsHoldOrders
<1>. QED BY <1>1, <1>3, <1>4, <1>5, <1>6

\* Appending a slot that is not in the list.
LEMMA AppendedList ==
    ASSUME NEW l \in Seq(Slots), NEW s \in Slots
    PROVE  LET m == Append(l, s)
           IN  /\ m \in Seq(Slots) /\ Len(m) = Len(l) + 1 /\ m[Len(l) + 1] = s
               /\ \A i \in 1..Len(l) : m[i] = l[i]
               /\ \A i \in 1..Len(m) : i \in 1..Len(l) \/ i = Len(l) + 1
<1>. DEFINE m == Append(l, s)
<1>1. m \in Seq(Slots) /\ Len(m) = Len(l) + 1 /\ Len(l) \in Nat
  OBVIOUS
<1>2. m[Len(l) + 1] = s /\ \A i \in 1..Len(l) : m[i] = l[i]
  OBVIOUS
<1>3. \A i \in 1..Len(m) : i \in 1..Len(l) \/ i = Len(l) + 1
  BY <1>1
<1>. QED BY <1>1, <1>2, <1>3

\* The level an order is inserted into holds the list with it at the end.
LEMMA LevelExtended ==
    ASSUME NEW b \in Books, NEW n \in Books, NEW side \in Sides, NEW t \in Ticks, NEW l,
           LevelHolds(b, side, t, l), NEW s \in Slots, NEW qty \in Nat,
           ~RestsAt(b, s, side, t),
           b.lane[side][t].tail = NIL => n.lane[side][t].head = s,
           b.lane[side][t].tail # NIL => n.lane[side][t].head = b.lane[side][t].head,
           n.lane[side][t].tail = s,
           n.lane[side][t].qtyTotal = b.lane[side][t].qtyTotal + qty,
           n.lane[side][t].count = b.lane[side][t].count + 1,
           n.pool[s].next = NIL, n.pool[s].prev = b.lane[side][t].tail,
           n.pool[s].qty = qty, n.pool[s].filled = 0,
           \A x \in Slots \ {s} :
              /\ SameOrder(n, b, x)
              /\ n.pool[x].prev = b.pool[x].prev
              /\ n.pool[x].next = IF x = b.lane[side][t].tail THEN s ELSE b.pool[x].next,
           \A x \in Slots : RestsAt(n, x, side, t) <=> x = s \/ RestsAt(b, x, side, t)
    PROVE  LevelHolds(n, side, t, Append(l, s))
<1>. DEFINE m  == Append(l, s)
            tl == b.lane[side][t].tail
<1>0. NIL \notin Slots
  BY BookConfig DEF NIL, Slots
<1>1. /\ l \in Seq(Slots) /\ Len(l) \in Nat /\ \A i \in 1..Len(l) : l[i] \in Slots
      /\ \A i, j \in 1..Len(l) : l[i] = l[j] => i = j
  <2>1. l \in Seq(Slots)
    BY DEF LevelHolds, ListFrom
  <2>. QED BY <2>1, ElementOfSeq DEF LevelHolds, ListFrom
<1>2. \A i \in 1..Len(l) : l[i] # s
  BY <1>1 DEF LevelHolds
<1>3. /\ m \in Seq(Slots) /\ Len(m) = Len(l) + 1 /\ m[Len(l) + 1] = s
      /\ \A i \in 1..Len(l) : m[i] = l[i]
      /\ \A i \in 1..Len(m) : i \in 1..Len(l) \/ i = Len(l) + 1
  BY <1>1, AppendedList
<1>4. /\ Len(l) = 0 => tl = NIL
      /\ Len(l) # 0 => tl = l[Len(l)] /\ Len(l) \in 1..Len(l) /\ tl \in Slots /\ tl # NIL
  BY <1>0, <1>1 DEF LevelHolds
<1>. HIDE DEF m, tl
<1>5. ListFrom(n, n.lane[side][t].head, m)
  <2>1. n.lane[side][t].head = m[1]
    <3>1. CASE Len(l) = 0
      BY <1>3, <1>4, <3>1 DEF tl
    <3>2. CASE Len(l) # 0
      <4>1. 1 \in 1..Len(l) /\ b.lane[side][t].head = l[1]
        BY <1>1, <3>2 DEF LevelHolds, ListFrom
      <4>. QED BY <1>3, <1>4, <3>2, <4>1 DEF tl
    <3>. QED BY <3>1, <3>2
  <2>2. ASSUME NEW i \in 1..Len(m)
        PROVE  n.pool[m[i]].next = IF i = Len(m) THEN NIL ELSE m[i + 1]
    <3>1. CASE i = Len(l) + 1
      BY <1>3, <3>1
    <3>2. CASE i \in 1..Len(l)
      <4>1. l[i] \in Slots \ {s} /\ m[i] = l[i] /\ i # Len(m) /\ i \in Nat
        BY <1>1, <1>2, <1>3, <3>2
      <4>2. n.pool[l[i]].next = IF l[i] = tl THEN s ELSE b.pool[l[i]].next
        BY <4>1 DEF tl
      <4>3. CASE i = Len(l)
        BY <1>1, <1>3, <1>4, <3>2, <4>1, <4>2, <4>3
      <4>4. CASE i # Len(l)
        <5>1. i + 1 \in 1..Len(l) /\ l[i] # tl
          BY <1>1, <1>4, <3>2, <4>4
        <5>2. b.pool[l[i]].next = l[i + 1]
          BY <3>2, <4>4 DEF LevelHolds, ListFrom
        <5>. QED BY <1>3, <4>1, <4>2, <5>1, <5>2
      <4>. QED BY <4>3, <4>4
    <3>. QED BY <1>3, <3>1, <3>2
  <2>3. \A i, j \in 1..Len(m) : m[i] = m[j] => i = j
    BY <1>1, <1>2, <1>3
  <2>4. Len(m) # 0
    BY <1>1, <1>3
  <2>. QED BY <1>3, <2>1, <2>2, <2>3, <2>4 DEF ListFrom
<1>6. n.lane[side][t].tail = IF Len(m) = 0 THEN NIL ELSE m[Len(m)]
  BY <1>1, <1>3
<1>7. ASSUME NEW i \in 1..Len(m)
      PROVE  n.pool[m[i]].prev = IF i = 1 THEN NIL ELSE m[i - 1]
  <2>1. CASE i = Len(l) + 1
    <3>1. m[i] = s /\ n.pool[s].prev = tl
      BY <1>3, <2>1 DEF tl
    <3>2. CASE Len(l) = 0
      BY <1>4, <2>1, <3>1, <3>2
    <3>3. CASE Len(l) # 0
      <4>1. i # 1 /\ i - 1 = Len(l)
        BY <1>1, <2>1, <3>3
      <4>. QED BY <1>3, <1>4, <3>1, <3>3, <4>1
    <3>. QED BY <3>2, <3>3
  <2>2. CASE i \in 1..Len(l)
    <3>1. m[i] = l[i] /\ l[i] \in Slots \ {s} /\ (i = 1 \/ i - 1 \in 1..Len(l))
      BY <1>1, <1>2, <1>3, <2>2
    <3>2. b.pool[l[i]].prev = IF i = 1 THEN NIL ELSE l[i - 1]
      BY <2>2 DEF LevelHolds
    <3>. QED BY <1>3, <3>1, <3>2
  <2>. QED BY <1>3, <2>1, <2>2
<1>8. ASSUME NEW x \in Slots
      PROVE  (\E i \in 1..Len(m) : m[i] = x) <=> RestsAt(n, x, side, t)
  <2>1. (\E i \in 1..Len(m) : m[i] = x) <=> x = s \/ \E i \in 1..Len(l) : l[i] = x
    <3>1. Len(l) + 1 \in 1..Len(m) /\ \A i \in 1..Len(l) : i \in 1..Len(m)
      BY <1>1, <1>3
    <3>. QED BY <1>3, <3>1
  <2>. QED BY <2>1 DEF LevelHolds
<1>9. n.lane[side][t].count = Len(m)
  BY <1>1, <1>3 DEF LevelHolds
<1>10. n.lane[side][t].qtyTotal = OpenQty(n, m)
  <2>. DEFINE v == [i \in 1..Len(l) |-> Open(b.pool[l[i]])]
              w == [i \in 1..Len(m) |-> Open(n.pool[m[i]])]
  <2>1. v \in Seq(Int) /\ w \in Seq(Int)
    BY <1>1, <1>3, OpensTyped, ZenonT(40)
  <2>2. Len(v) = Len(l) /\ Len(w) = Len(l) + 1
    BY <1>1, <1>3
  <2>3. w[Len(w)] = qty
    <3>1. Open(n.pool[s]) = qty
      BY DEF Open
    <3>2. Len(l) + 1 \in 1..Len(m)
      BY <1>1, <1>3
    <3>. QED BY <1>3, <2>2, <3>1, <3>2
  <2>4. \A i \in 1..Len(v) : w[i] = v[i]
    <3>1. \A i \in 1..Len(l) : i \in 1..Len(m) /\ Open(n.pool[m[i]]) = Open(b.pool[l[i]])
      <4>1. \A i \in 1..Len(l) : i \in 1..Len(m) /\ m[i] = l[i] /\ SameOrder(n, b, l[i])
        BY <1>1, <1>2, <1>3
      <4>. QED BY <4>1 DEF Open, SameOrder
    <3>. QED BY <2>2, <3>1
  <2>5. OpenQty(b, l) = Total(v) /\ OpenQty(n, m) = Total(w)
    BY DEF OpenQty
  <2>6. qty \in Int /\ Len(w) = Len(v) + 1
    BY <2>2
  <2>. HIDE DEF v, w
  <2>7. Total(w) = Total(v) + qty
    BY <2>1, <2>2, <2>3, <2>4, <2>6, TotalAppend, SMTT(30)
  <2>. QED BY <2>5, <2>7 DEF LevelHolds
<1>. QED BY <1>5, <1>6, <1>7, <1>8, <1>9, <1>10 DEF LevelHolds, m

\* An insert keeps the lists: the new order is behind the others of its level,
\* the slot it took has left the free list.
LEMMA InsertHolds ==
    ASSUME NEW b, NEW q, NEW f, Holds(b, q, f), ~Exhausted(b),
           NEW id \in Nat \ {0}, id \notin DOMAIN b.idmap,
           NEW price \in Int, NEW qty \in Nat, NEW side \in Sides, TickOf(price) \in Ticks
    PROVE  LET t == TickOf(price)
           IN  \E g : Holds(Insert(b, id, price, qty, side),
                            [q EXCEPT ![side] = [q[side] EXCEPT ![t] = Append(q[side][t], NextSlot(b))]],
                            g)
<1>. DEFINE n   == Insert(b, id, price, qty, side)
            t   == TickOf(price)
            s   == NextSlot(b)
            old == b.lane[side][t]
            z   == [q EXCEPT ![side] = [q[side] EXCEPT ![t] = Append(q[side][t], s)]]
            g   == IF Len(f) = 0 THEN f ELSE Tail(f)
<1>1. b \in Books /\ FreeHolds(b, f) /\ SlotsHold(b) /\ BestHolds(b)
  BY DEF Holds
<1>2. /\ q \in [Sides -> [Ticks -> Seq(Slots)]]
      /\ \A d \in Sides, i \in Ticks : LevelHolds(b, d, i, q[d][i])
  BY DEF Holds
<1>3. /\ s \in Slots /\ b.pool[s].id = 0
      /\ b.freeHead # NIL => Len(f) # 0 /\ s = f[1] /\ s < b.hwm
      /\ b.freeHead = NIL => Len(f) = 0 /\ s = b.hwm
      /\ s # old.tail
  BY NextSlotIsFree
<1>. DEFINE o == NewOrder(b, id, price, qty, side)
<1>0. Inserted(b, n, s, t, o)
  BY <1>1, InsertEffect
<1>t. t \in Ticks
  OBVIOUS
<1>. HIDE DEF n, s, t
<1>4. /\ n \in Books
      /\ b.freeHead # NIL => n.freeHead = b.pool[b.freeHead].next /\ n.hwm = b.hwm
      /\ b.freeHead = NIL => n.freeHead = NIL /\ n.hwm = b.hwm + 1
      /\ n.pool[s] = [id |-> id, price |-> price, qty |-> qty, filled |-> 0,
                      next |-> NIL, prev |-> old.tail, side |-> side]
      /\ \A x \in Slots \ {s} :
            /\ SameOrder(n, b, x)
            /\ n.pool[x].prev = b.pool[x].prev
            /\ n.pool[x].next = IF x = old.tail THEN s ELSE b.pool[x].next
      /\ n.lane[side][t] = [head     |-> IF old.tail = NIL THEN s ELSE old.head,
                            tail     |-> s,
                            qtyTotal |-> old.qtyTotal + qty,
                            count    |-> old.count + 1]
      /\ \A d \in Sides, i \in Ticks : d # side \/ i # t => n.lane[d][i] = b.lane[d][i]
      /\ n.best = ImproveBest(b.best, side, t)
      /\ n.idmap = [i \in DOMAIN b.idmap \cup {id} |-> IF i = id THEN s ELSE b.idmap[i]]
  <2>1. o = [id |-> id, price |-> price, qty |-> qty, filled |-> 0,
             next |-> NIL, prev |-> old.tail, side |-> side]
        /\ o.side = side /\ o.qty = qty /\ o.id = id
    BY DEF NewOrder, t
  <2>. HIDE DEF o
  <2>. QED BY <1>0, <1>3, <2>1 DEF Inserted
<1>5. /\ n.pool[s].id = id /\ n.pool[s].price = price /\ n.pool[s].qty = qty
      /\ n.pool[s].filled = 0 /\ n.pool[s].next = NIL /\ n.pool[s].prev = old.tail
      /\ n.pool[s].side = side
  BY <1>4
<1>6. b.hwm \in Nat /\ n.hwm \in Nat /\ s \in Nat /\ s < n.hwm
      /\ \A x \in Slots \ {s} : x < n.hwm <=> x < b.hwm
  <2>1. b.hwm \in Nat /\ n.hwm \in Nat /\ Slots \subseteq Nat
    BY <1>1, <1>4 DEF Books, Slots
  <2>2. CASE b.freeHead # NIL
    BY <1>3, <1>4, <2>1, <2>2
  <2>3. CASE b.freeHead = NIL
    BY <1>3, <1>4, <2>1, <2>3
  <2>. QED BY <2>2, <2>3
<1>7. \A d \in Sides, i \in Ticks : ~RestsAt(b, s, d, i)
  BY <1>3 DEF RestsAt
<1>8. \A d \in Sides, i \in Ticks, x \in Slots :
         RestsAt(n, x, d, i) <=> (x = s /\ d = side /\ i = t) \/ RestsAt(b, x, d, i)
  <2>1. \A x \in Slots \ {s} : \A d \in Sides, i \in Ticks : RestsAt(n, x, d, i) <=> RestsAt(b, x, d, i)
    BY <1>4, <1>6 DEF RestsAt, SameOrder
  <2>2. \A d \in Sides, i \in Ticks : RestsAt(n, s, d, i) <=> d = side /\ i = t
    <3>1. id # 0 /\ TickOf(n.pool[s].price) = t
      BY <1>5 DEF t
    <3>. QED BY <1>5, <1>6, <3>1 DEF RestsAt
  <2>. QED BY <1>7, <2>1, <2>2
<1>9. LevelHolds(n, side, t, Append(q[side][t], s))
  <2>1. \A x \in Slots : RestsAt(n, x, side, t) <=> x = s \/ RestsAt(b, x, side, t)
    BY <1>8, <1>t
  <2>2. /\ old.tail = NIL => n.lane[side][t].head = s
        /\ old.tail # NIL => n.lane[side][t].head = old.head
        /\ n.lane[side][t].tail = s
        /\ n.lane[side][t].qtyTotal = old.qtyTotal + qty
        /\ n.lane[side][t].count = old.count + 1
    BY <1>4
  <2>3. \A x \in Slots \ {s} :
           /\ SameOrder(n, b, x)
           /\ n.pool[x].prev = b.pool[x].prev
           /\ n.pool[x].next = IF x = old.tail THEN s ELSE b.pool[x].next
    BY <1>4
  <2>4. /\ n \in Books /\ s \in Slots /\ LevelHolds(b, side, t, q[side][t])
        /\ ~RestsAt(b, s, side, t)
        /\ n.pool[s].next = NIL /\ n.pool[s].prev = old.tail
        /\ n.pool[s].qty = qty /\ n.pool[s].filled = 0
    BY <1>2, <1>3, <1>4, <1>5, <1>7, <1>t
  <2>. QED BY <1>1, <1>t, <2>1, <2>2, <2>3, <2>4, LevelExtended
<1>10. ASSUME NEW d \in Sides, NEW i \in Ticks, d # side \/ i # t
       PROVE  LevelHolds(n, d, i, q[d][i])
  <2>1. \A x \in Slots : RestsAt(n, x, d, i) <=> RestsAt(b, x, d, i)
    BY <1>8, <1>10
  <2>2. ASSUME NEW x \in Slots, RestsAt(b, x, d, i)
        PROVE  SameOrder(n, b, x) /\ n.pool[x].next = b.pool[x].next /\ n.pool[x].prev = b.pool[x].prev
    <3>1. x # s
      BY <1>7, <2>2
    <3>2. x # old.tail
      <4>1. LevelHolds(b, side, t, q[side][t]) /\ ~RestsAt(b, x, side, t)
        BY <1>2, <1>10, <1>t, <2>2 DEF RestsAt
      <4>. DEFINE l == q[side][t]
      <4>2. l \in Seq(Slots) /\ Len(l) \in Nat
        BY <4>1 DEF LevelHolds, ListFrom
      <4>. HIDE DEF l
      <4>3. NIL \notin Slots
        BY BookConfig DEF NIL, Slots
      <4>4. CASE Len(l) = 0
        BY <4>1, <4>3, <4>4 DEF LevelHolds, l
      <4>5. CASE Len(l) # 0
        BY <4>1, <4>2, <4>5 DEF LevelHolds, l
      <4>. QED BY <4>4, <4>5
    <3>. QED BY <1>4, <3>1, <3>2
  <2>3. n.lane[d][i] = b.lane[d][i] /\ LevelHolds(b, d, i, q[d][i])
    BY <1>2, <1>4, <1>10
  <2>. QED BY <1>1, <1>4, <2>1, <2>2, <2>3, LevelUntouched
<1>11. z \in [Sides -> [Ticks -> Seq(Slots)]]
       /\ \A d \in Sides, i \in Ticks : LevelHolds(n, d, i, z[d][i])
  <2>1. Append(q[side][t], s) \in Seq(Slots)
    BY <1>2, <1>3, <1>t
  <2>. DEFINE m == Append(q[side][t], s)
  <2>. HIDE DEF m
  <2>2. z \in [Sides -> [Ticks -> Seq(Slots)]]
    BY <1>2, <2>1 DEF m
  <2>3. z[side][t] = m /\ \A d \in Sides, i \in Ticks : d # side \/ i # t => z[d][i] = q[d][i]
    BY <1>2, <1>t DEF m
  <2>. HIDE DEF z
  <2>. QED BY <1>9, <1>10, <2>2, <2>3 DEF m
<1>12. FreeHolds(n, g)
  <2>1. ListFrom(b, b.freeHead, f) /\ f \in Seq(Slots) /\ Len(f) \in Nat
        /\ \A x \in Slots : (\E i \in 1..Len(f) : f[i] = x) <=> x < b.hwm /\ b.pool[x].id = 0
        /\ \A i \in 1..Len(f) : f[i] \in Slots
    <3>1. f \in Seq(Slots)
      BY <1>1 DEF FreeHolds, ListFrom
    <3>. QED BY <1>1, <3>1, ElementOfSeq DEF FreeHolds, ListFrom
  <2>2. \A x \in Slots : x < n.hwm /\ n.pool[x].id = 0 <=> x # s /\ x < b.hwm /\ b.pool[x].id = 0
    <3>1. \A x \in Slots \ {s} : n.pool[x].id = b.pool[x].id
      BY <1>4 DEF SameOrder
    <3>. QED BY <1>5, <1>6, <3>1
  <2>3. CASE Len(f) = 0
    <3>1. b.freeHead = NIL /\ n.freeHead = NIL
      BY <1>3, <1>4, <2>3
    <3>2. ListFrom(n, n.freeHead, f)
      BY <2>1, <2>3, <3>1 DEF ListFrom
    <3>3. \A x \in Slots : ~(x # s /\ x < b.hwm /\ b.pool[x].id = 0)
      BY <2>1, <2>3
    <3>. QED BY <2>2, <2>3, <3>2, <3>3 DEF FreeHolds
  <2>4. CASE Len(f) # 0
    <3>1. b.freeHead # NIL /\ s = f[1] /\ n.freeHead = b.pool[s].next
      BY <1>3, <1>4, <2>1, <2>4 DEF NextSlot, s
    <3>2. /\ g \in Seq(Slots) /\ Len(g) = Len(f) - 1
          /\ \A i \in 1..Len(g) : g[i] = f[i + 1] /\ i + 1 \in 1..Len(f)
      <4>1. f # <<>> /\ g = Tail(f)
        BY <2>1, <2>4, EmptySeq
      <4>2. /\ g \in Seq(Slots) /\ Len(g) = Len(f) - 1
            /\ \A i \in 1..Len(g) : g[i] = f[i + 1]
        BY <2>1, <4>1, HeadTailProperties
      <4>. HIDE DEF g
      <4>. QED BY <2>1, <4>2
    <3>. HIDE DEF g
    <3>3. \A i \in 1..Len(f) : i = 1 \/ (i - 1 \in 1..Len(g) /\ f[i] = g[i - 1])
      BY <2>1, <3>2
    <3>4. \A i, j \in 1..Len(f) : f[i] = f[j] => i = j
      BY <2>1 DEF ListFrom
    <3>5. \A i \in 1..Len(g) : g[i] # s /\ g[i] # old.tail
      <4>1. \A i \in 1..Len(g) : g[i] # s
        BY <2>1, <2>4, <3>1, <3>2, <3>4
      <4>2. ASSUME NEW i \in 1..Len(g) PROVE g[i] \in Slots /\ b.pool[g[i]].id = 0
        <5>1. PICK j \in 1..Len(f) : g[i] = f[j]
          BY <3>2
        <5>2. f[j] \in Slots
          BY <2>1, ElementOfSeq
        <5>. QED BY <2>1, <5>1, <5>2, Zenon
      <4>3. \A x \in Slots : b.pool[x].id = 0 => x # old.tail
        BY <1>t, TailsHoldOrders
      <4>. QED BY <4>1, <4>2, <4>3
    <3>6. \A i \in 1..Len(g) : g[i] \in Slots \ {s} /\ n.pool[g[i]].next = b.pool[f[i + 1]].next
      BY <1>4, <2>1, <3>2, <3>5
    <3>7. \A i \in 1..Len(f) : b.pool[f[i]].next = IF i = Len(f) THEN NIL ELSE f[i + 1]
      BY <2>1 DEF ListFrom
    <3>8. ListFrom(n, n.freeHead, g)
      <4>1. n.freeHead = IF Len(g) = 0 THEN NIL ELSE g[1]
        BY <2>1, <2>4, <3>1, <3>2, <3>7
      <4>2. ASSUME NEW i \in 1..Len(g)
            PROVE  n.pool[g[i]].next = IF i = Len(g) THEN NIL ELSE g[i + 1]
        <5>1. /\ i + 1 \in 1..Len(f) /\ (i = Len(g) <=> i + 1 = Len(f))
              /\ n.pool[g[i]].next = b.pool[f[i + 1]].next
          BY <2>1, <3>2, <3>6
        <5>2. i # Len(g) => i + 1 \in 1..Len(g) /\ g[i + 1] = f[(i + 1) + 1]
          BY <2>1, <3>2, <5>1
        <5>. QED BY <3>7, <5>1, <5>2
      <4>3. ASSUME NEW i \in 1..Len(g), NEW j \in 1..Len(g), g[i] = g[j] PROVE i = j
        <5>1. f[i + 1] = f[j + 1] /\ i + 1 \in 1..Len(f) /\ j + 1 \in 1..Len(f)
          BY <3>2, <4>3
        <5>2. i + 1 = j + 1
          BY <3>4, <5>1
        <5>. QED BY <5>2
      <4>. QED BY <3>2, <4>1, <4>2, <4>3 DEF ListFrom
    <3>9. ASSUME NEW x \in Slots
          PROVE  (\E i \in 1..Len(g) : g[i] = x) <=> x < n.hwm /\ n.pool[x].id = 0
      <4>1. (\E i \in 1..Len(g) : g[i] = x) => x # s /\ \E i \in 1..Len(f) : f[i] = x
        BY <3>2, <3>5
      <4>2. x # s /\ (\E i \in 1..Len(f) : f[i] = x) => \E i \in 1..Len(g) : g[i] = x
        BY <3>1, <3>3
      <4>. QED BY <2>1, <2>2, <4>1, <4>2
    <3>. QED BY <3>8, <3>9 DEF FreeHolds
  <2>. HIDE DEF g
  <2>. QED BY <2>3, <2>4
<1>13. SlotsHold(n)
  <2>1. ASSUME NEW x \in Slots, n.pool[x].id # 0
        PROVE  /\ n.pool[x].id \in DOMAIN n.idmap
               /\ n.idmap[n.pool[x].id] = x
               /\ TickOf(n.pool[x].price) \in Ticks
               /\ x < n.hwm
    <3>1. CASE x = s
      BY <1>4, <1>5, <1>6, <3>1
    <3>2. CASE x # s
      <4>1. n.pool[x].id = b.pool[x].id /\ n.pool[x].price = b.pool[x].price
        BY <1>4, <3>2 DEF SameOrder
      <4>2. /\ b.pool[x].id \in DOMAIN b.idmap /\ b.idmap[b.pool[x].id] = x
            /\ TickOf(b.pool[x].price) \in Ticks /\ x < b.hwm
        BY <1>1, <2>1, <4>1 DEF SlotsHold
      <4>. QED BY <1>4, <1>6, <3>2, <4>1, <4>2
    <3>. QED BY <3>1, <3>2
  <2>2. ASSUME NEW i \in DOMAIN n.idmap PROVE n.pool[n.idmap[i]].id = i
    <3>1. CASE i = id
      BY <1>4, <1>5, <3>1
    <3>2. CASE i # id
      <4>1. i \in DOMAIN b.idmap /\ n.idmap[i] = b.idmap[i]
        BY <1>4, <3>2
      <4>2. b.idmap[i] \in Slots
        BY <1>1, <4>1, IdMapTyped
      <4>3. b.pool[b.idmap[i]].id = i /\ i # 0
        BY <1>1, <4>1, IdMapTyped DEF SlotsHold
      <4>. QED BY <1>3, <1>4, <4>1, <4>2, <4>3 DEF SameOrder
    <3>. QED BY <3>1, <3>2
  <2>3. \A x \in Slots : n.pool[x].filled <= n.pool[x].qty
    <3>1. \A x \in Slots \ {s} : n.pool[x].filled <= n.pool[x].qty
      BY <1>1, <1>4 DEF SameOrder, SlotsHold
    <3>2. n.pool[s].filled <= n.pool[s].qty
      BY <1>5
    <3>. QED BY <3>1, <3>2
  <2>. QED BY <2>1, <2>2, <2>3 DEF SlotsHold
<1>14. BestHolds(n)
  <2>1. b.best \in Bests /\ Occupied(b, side) \in SUBSET Ticks /\ IsBest(side, Occupied(b, side), b.best[side])
    BY <1>1 DEF Books, BestHolds, Occupied
  <2>2. /\ IsBest(side, Occupied(b, side) \cup {t}, n.best[side])
        /\ \A d \in Sides : d # side => n.best[d] = b.best[d]
    <3>1. /\ IsBest(side, Occupied(b, side) \cup {t}, ImproveBest(b.best, side, t)[side])
          /\ \A d \in Sides : d # side => ImproveBest(b.best, side, t)[d] = b.best[d]
      BY <1>t, <2>1, BestImproved
    <3>. QED BY <1>4, <3>1
  <2>3. Occupied(n, side) = Occupied(b, side) \cup {t}
    <3>1. n.lane[side][t].head # NIL
      <4>1. NIL \notin Slots
        BY BookConfig DEF NIL, Slots
      <4>2. n.lane[side][t].head = Append(q[side][t], s)[1] /\ Append(q[side][t], s) \in Seq(Slots)
            /\ 1 \in 1..Len(Append(q[side][t], s))
        <5>1. q[side][t] \in Seq(Slots)
          BY <1>2, <1>t
        <5>2. Len(Append(q[side][t], s)) # 0 /\ 1 \in 1..Len(Append(q[side][t], s))
              /\ Append(q[side][t], s) \in Seq(Slots)
          BY <1>3, <5>1
        <5>. QED BY <1>9, <5>2 DEF LevelHolds, ListFrom
      <4>. QED BY <4>1, <4>2, ElementOfSeq
    <3>. QED BY <1>4, <1>t, <3>1 DEF Occupied
  <2>4. \A d \in Sides : d # side => Occupied(n, d) = Occupied(b, d)
    BY <1>4 DEF Occupied
  <2>. QED BY <1>1, <2>2, <2>3, <2>4 DEF BestHolds
<1>. QED BY <1>4, <1>11, <1>12, <1>13, <1>14 DEF Holds, n, t, s

-----------------------------------------------------------------------------
(* Partial fills.                                                          *)

\* The smaller of two numbers.
LEMMA MinOfTwo ==
    ASSUME NEW u \in Int, NEW v \in Int
    PROVE  Min({u, v}) = IF u < v THEN u ELSE v
<1>1. ASSUME u <= v PROVE Min({u, v}) = u
  <2>1. \E m \in {u, v} : \A y \in {u, v} : m <= y
    BY <1>1
  <2>2. Min({u, v}) \in {u, v} /\ \A y \in {u, v} : Min({u, v}) <= y
    BY <2>1 DEF Min
  <2>. QED BY <1>1, <2>2
<1>2. ASSUME v <= u PROVE Min({u, v}) = v
  <2>1. \E m \in {u, v} : \A y \in {u, v} : m <= y
    BY <1>2
  <2>2. Min({u, v}) \in {u, v} /\ \A y \in {u, v} : Min({u, v}) <= y
    BY <2>1 DEF Min
  <2>. QED BY <1>2, <2>2
<1>. QED BY <1>1, <1>2

\* What a fill of `add` does to the fields: slot s and its level change.
Updated(b, n, s, add) ==
    LET o   == b.pool[s]
        t   == TickOf(o.price)
        old == b.lane[o.side][t]
    IN  /\ n \in Books
        /\ n.hwm = b.hwm /\ n.freeHead = b.freeHead /\ n.best = b.best /\ n.idmap = b.idmap
        /\ n.pool[s] = [o EXCEPT !.filled = o.filled + add]
        /\ \A x \in Slots : x # s => n.pool[x] = b.pool[x]
        /\ n.lane[o.side][t] = [old EXCEPT !.qtyTotal = old.qtyTotal - add]
        /\ \A d \in Sides, i \in Ticks :
              d # o.side \/ i # t => n.lane[d][i] = b.lane[d][i]

\* Update field by field, for an order that rests at a level.
LEMMA UpdateEffect ==
    ASSUME NEW b \in Books, NEW id, b.idmap[id] \in Slots, NEW fillQty \in Nat,
           TickOf(b.pool[b.idmap[id]].price) \in Ticks,
           b.pool[b.idmap[id]].filled <= b.pool[b.idmap[id]].qty
    PROVE  LET open == Open(b.pool[b.idmap[id]])
               add  == IF fillQty < open THEN fillQty ELSE open
           IN  add \in Nat /\ add <= open /\ Updated(b, Update(b, id, fillQty), b.idmap[id], add)
<1>. DEFINE s     == b.idmap[id]
            o     == b.pool[s]
            t     == TickOf(o.price)
            old   == b.lane[o.side][t]
            open  == Open(o)
            add   == IF fillQty < open THEN fillQty ELSE open
            order == [o EXCEPT !.filled = o.filled + add]
            level == [old EXCEPT !.qtyTotal = old.qtyTotal - add]
            n     == Update(b, id, fillQty)
<1>1. s \in Slots /\ o \in Orders /\ t \in Ticks /\ o.side \in Sides /\ old \in PriceLevels
  <2>1. o \in Orders
    BY DEF Books, Pools
  <2>. QED BY <2>1 DEF Books, Lanes, Orders
<1>2. open \in Nat /\ o.filled \in Nat /\ old.qtyTotal \in Int
  <2>1. o.qty \in Nat /\ o.filled \in Nat /\ o.filled <= o.qty /\ old.qtyTotal \in Int
    <3>. HIDE DEF old, o
    <3>1. o.qty \in Nat /\ o.filled \in Nat /\ old.qtyTotal \in Int
      BY <1>1 DEF Orders, PriceLevels
    <3>. QED BY <3>1 DEF o
  <2>. HIDE DEF o
  <2>. QED BY <2>1 DEF Open
<1>3. add \in Nat /\ add <= open
  <2>. HIDE DEF o, old, open
  <2>. QED BY <1>2, SMTT(30)
<1>4. Min({fillQty, o.qty - o.filled}) = add
  <2>1. o.qty - o.filled = open
    BY DEF Open
  <2>. HIDE DEF o, old, open
  <2>. QED BY <1>2, <2>1, MinOfTwo, SMTT(30)
<1>5. n = [b EXCEPT !.pool[s].filled = @ + add, !.lane[o.side][t].qtyTotal = @ - add]
  <2>1. n = [b EXCEPT !.pool[s].filled = @ + Min({fillQty, o.qty - o.filled}),
                      !.lane[o.side][t].qtyTotal = @ - Min({fillQty, o.qty - o.filled})]
    BY DEF Update
  <2>. HIDE DEF add, n, s, o, t
  <2>. QED BY <1>4, <2>1
<1>6. n = [b EXCEPT !.pool = [b.pool EXCEPT ![s] = order],
                    !.lane = [b.lane EXCEPT ![o.side] = [b.lane[o.side] EXCEPT ![t] = level]]]
  <2>. HIDE DEF add, n, s, t
  <2>. QED BY <1>1, <1>5 DEF Books, Pools, Orders, Lanes, PriceLevels
<1>. HIDE DEF add, open
<1>7. order \in Orders
  <2>1. o.filled + add \in Nat
    <3>. HIDE DEF o, old
    <3>. QED BY <1>2, <1>3, SMTT(30)
  <2>. HIDE DEF o
  <2>. QED BY <1>1, <2>1 DEF Orders
<1>8. level \in PriceLevels
  <2>. HIDE DEF old
  <2>1. old.qtyTotal - add \in Int
    BY <1>2, <1>3
  <2>. QED BY <1>1, <2>1 DEF PriceLevels
<1>. HIDE DEF n, s, t, o, old, order, level
<1>9. /\ [b.pool EXCEPT ![s] = order] \in Pools
      /\ [b.lane EXCEPT ![o.side] = [b.lane[o.side] EXCEPT ![t] = level]] \in Lanes
  BY <1>1, <1>7, <1>8 DEF Books, Pools, Lanes
<1>10. /\ n \in Books
       /\ n.hwm = b.hwm /\ n.freeHead = b.freeHead /\ n.best = b.best /\ n.idmap = b.idmap
       /\ n.pool = [b.pool EXCEPT ![s] = order]
       /\ n.lane = [b.lane EXCEPT ![o.side] = [b.lane[o.side] EXCEPT ![t] = level]]
  BY <1>6, <1>9 DEF Books
<1>11. n.pool[s] = order /\ \A x \in Slots : x # s => n.pool[x] = b.pool[x]
  BY <1>1, <1>10 DEF Books, Pools
<1>12. n.lane[o.side][t] = level
       /\ \A d \in Sides, i \in Ticks : d # o.side \/ i # t => n.lane[d][i] = b.lane[d][i]
  BY <1>1, <1>10 DEF Books, Lanes
<1>13. Updated(b, n, s, add)
  BY <1>10, <1>11, <1>12 DEF Updated, o, t, old, order, level
<1>. QED BY <1>3, <1>13 DEF n, s, add, open, o

\* A partial fill leaves every list as it was.
LEMMA UpdateHolds ==
    ASSUME NEW b, NEW q, NEW f, Holds(b, q, f), NEW id \in DOMAIN b.idmap, NEW fillQty \in Nat
    PROVE  Holds(Update(b, id, fillQty), q, f)
<1>. DEFINE s    == b.idmap[id]
            o    == b.pool[s]
            t    == TickOf(o.price)
            open == Open(o)
            add  == IF fillQty < open THEN fillQty ELSE open
            n    == Update(b, id, fillQty)
<1>1. /\ b \in Books /\ FreeHolds(b, f) /\ SlotsHold(b) /\ BestHolds(b)
      /\ q \in [Sides -> [Ticks -> Seq(Slots)]]
      /\ \A d \in Sides, i \in Ticks : LevelHolds(b, d, i, q[d][i])
  BY DEF Holds
<1>2. s \in Slots /\ id \in Nat \ {0}
  BY <1>1, IdMapTyped
<1>3. o.id = id /\ t \in Ticks /\ o.filled <= o.qty /\ s < b.hwm /\ o \in Orders
  BY <1>1, <1>2 DEF SlotsHold, Books, Pools
<1>4. add \in Nat /\ add <= open /\ Updated(b, n, s, add)
  BY <1>1, <1>2, <1>3, UpdateEffect
<1>5. o.side \in Sides /\ o.filled \in Nat /\ o.qty \in Nat
  <2>. HIDE DEF o
  <2>. QED BY <1>3 DEF Orders
<1>6. open = o.qty - o.filled
  BY DEF Open
<1>. HIDE DEF n, add, open, t
<1>7. /\ n \in Books
      /\ n.hwm = b.hwm /\ n.freeHead = b.freeHead /\ n.best = b.best /\ n.idmap = b.idmap
      /\ n.pool[s] = [o EXCEPT !.filled = o.filled + add]
      /\ \A x \in Slots : x # s => n.pool[x] = b.pool[x]
      /\ n.lane[o.side][t] = [b.lane[o.side][t] EXCEPT !.qtyTotal = b.lane[o.side][t].qtyTotal - add]
      /\ \A d \in Sides, i \in Ticks : d # o.side \/ i # t => n.lane[d][i] = b.lane[d][i]
  BY <1>4 DEF Updated, t
<1>8. /\ n.pool[s].id = o.id /\ n.pool[s].price = o.price /\ n.pool[s].qty = o.qty
      /\ n.pool[s].side = o.side /\ n.pool[s].next = o.next /\ n.pool[s].prev = o.prev
      /\ n.pool[s].filled = o.filled + add
  <2>. HIDE DEF o
  <2>. QED BY <1>3, <1>7 DEF Orders
<1>9. /\ n.lane[o.side][t].head = b.lane[o.side][t].head
      /\ n.lane[o.side][t].tail = b.lane[o.side][t].tail
      /\ n.lane[o.side][t].count = b.lane[o.side][t].count
      /\ n.lane[o.side][t].qtyTotal = b.lane[o.side][t].qtyTotal - add
  <2>1. b.lane[o.side][t] \in PriceLevels
    BY <1>1, <1>3, <1>5 DEF Books, Lanes
  <2>. HIDE DEF o
  <2>. QED BY <1>7, <2>1 DEF PriceLevels
<1>. HIDE DEF s, o
<1>10. \A x \in Slots : /\ n.pool[x].id = b.pool[x].id /\ n.pool[x].price = b.pool[x].price
                        /\ n.pool[x].side = b.pool[x].side /\ n.pool[x].qty = b.pool[x].qty
                        /\ n.pool[x].next = b.pool[x].next /\ n.pool[x].prev = b.pool[x].prev
  BY <1>2, <1>7, <1>8 DEF o
<1>11. \A d \in Sides, i \in Ticks, x \in Slots : RestsAt(n, x, d, i) <=> RestsAt(b, x, d, i)
  BY <1>7, <1>10 DEF RestsAt
<1>12. RestsAt(b, s, o.side, t)
  BY <1>2, <1>3 DEF RestsAt, o, t
<1>13. ASSUME NEW d \in Sides, NEW i \in Ticks, d # o.side \/ i # t
       PROVE  LevelHolds(n, d, i, q[d][i])
  <2>1. \A x \in Slots : RestsAt(b, x, d, i) => x # s
    BY <1>12, <1>13 DEF RestsAt
  <2>2. \A x \in Slots : RestsAt(b, x, d, i) =>
           SameOrder(n, b, x) /\ n.pool[x].next = b.pool[x].next /\ n.pool[x].prev = b.pool[x].prev
    BY <1>7, <2>1 DEF SameOrder
  <2>3. n.lane[d][i] = b.lane[d][i] /\ LevelHolds(b, d, i, q[d][i])
    BY <1>1, <1>7, <1>13
  <2>4. \A x \in Slots : RestsAt(n, x, d, i) <=> RestsAt(b, x, d, i)
    BY <1>11
  <2>. QED BY <1>1, <1>7, <2>2, <2>3, <2>4, LevelUntouched
<1>14. LevelHolds(n, o.side, t, q[o.side][t])
  <2>. DEFINE l == q[o.side][t]
  <2>1. LevelHolds(b, o.side, t, l) /\ l \in Seq(Slots) /\ Len(l) \in Nat
        /\ \A i \in 1..Len(l) : l[i] \in Slots
    <3>1. LevelHolds(b, o.side, t, l)
      BY <1>1, <1>3, <1>5
    <3>2. l \in Seq(Slots)
      BY <3>1 DEF LevelHolds, ListFrom
    <3>. QED BY <3>1, <3>2, ElementOfSeq
  <2>. HIDE DEF l
  <2>2. PICK k \in 1..Len(l) : l[k] = s
    BY <1>2, <1>12, <2>1 DEF LevelHolds
  <2>3. ListFrom(n, n.lane[o.side][t].head, l)
    BY <1>9, <1>10, <2>1, SMTT(30) DEF LevelHolds, ListFrom
  <2>4. n.lane[o.side][t].qtyTotal = OpenQty(n, l)
    <3>. DEFINE v == [i \in 1..Len(l) |-> Open(b.pool[l[i]])]
                w == [i \in 1..Len(l) |-> Open(n.pool[l[i]])]
    <3>1. v \in Seq(Int) /\ w \in Seq(Int)
      BY <1>1, <1>7, <2>1, OpensTyped
    <3>2. Len(v) = Len(l) /\ Len(w) = Len(l)
      BY <2>1
    <3>3. v[k] = open /\ w[k] = open - add
      <4>1. v[k] = Open(o) /\ w[k] = Open(n.pool[s])
        BY <2>2 DEF o
      <4>2. Open(n.pool[s]) = open - add
        BY <1>4, <1>5, <1>6, <1>8 DEF Open
      <4>. QED BY <4>1, <4>2 DEF open
    <3>4. \A i \in 1..Len(l) : i # k => w[i] = v[i]
      <4>1. \A i \in 1..Len(l) : i # k => l[i] # s /\ l[i] \in Slots
        BY <2>1, <2>2 DEF LevelHolds, ListFrom
      <4>. QED BY <1>7, <4>1
    <3>5. OpenQty(b, l) = Total(v) /\ OpenQty(n, l) = Total(w)
      BY DEF OpenQty
    <3>. HIDE DEF v, w
    <3>6. Total(w) = Total(v) - v[k] + w[k]
      <4>1. k \in 1..Len(v) /\ Len(w) = Len(v) /\ Elsewhere(Len(v), k, v, w)
        BY <2>2, <3>2, <3>4 DEF Elsewhere
      <4>. QED BY <3>1, <4>1, TotalChange
    <3>7. Total(v) \in Int /\ open \in Int /\ add \in Int
      BY <1>4, <1>5, <1>6, <3>1, TotalType
    <3>8. b.lane[o.side][t].qtyTotal = Total(v)
      BY <2>1, <3>5 DEF LevelHolds
    <3>. QED BY <1>9, <3>3, <3>5, <3>6, <3>7, <3>8
  <2>5. \A x \in Slots : (\E i \in 1..Len(l) : l[i] = x) <=> RestsAt(n, x, o.side, t)
    BY <1>3, <1>5, <1>11, <2>1 DEF LevelHolds
  <2>6. \A i \in 1..Len(l) : n.pool[l[i]].prev = IF i = 1 THEN NIL ELSE l[i - 1]
    BY <1>10, <2>1 DEF LevelHolds
  <2>7. /\ n.lane[o.side][t].tail = IF Len(l) = 0 THEN NIL ELSE l[Len(l)]
        /\ n.lane[o.side][t].count = Len(l)
    BY <1>9, <2>1 DEF LevelHolds
  <2>8. LevelHolds(n, o.side, t, l)
    BY <2>3, <2>4, <2>5, <2>6, <2>7 DEF LevelHolds
  <2>. QED BY <2>8 DEF l
<1>15. \A d \in Sides, i \in Ticks : LevelHolds(n, d, i, q[d][i])
  BY <1>13, <1>14
<1>16. FreeHolds(n, f)
  <2>1. f \in Seq(Slots)
    BY <1>1 DEF FreeHolds, ListFrom
  <2>2. \A i \in 1..Len(f) : f[i] \in Slots
    BY <2>1, ElementOfSeq
  <2>3. ListFrom(n, n.freeHead, f)
    BY <1>1, <1>7, <1>10, <2>2 DEF FreeHolds, ListFrom
  <2>. QED BY <1>1, <1>7, <1>10, <2>3 DEF FreeHolds
<1>17. SlotsHold(n)
  <2>1. \A x \in Slots : n.pool[x].filled <= n.pool[x].qty
    <3>1. n.pool[s].filled <= n.pool[s].qty
      BY <1>4, <1>5, <1>6, <1>8
    <3>. QED BY <1>1, <1>7, <3>1 DEF SlotsHold
  <2>2. \A i \in DOMAIN n.idmap : n.idmap[i] \in Slots /\ n.pool[n.idmap[i]].id = i
    <3>1. \A i \in DOMAIN b.idmap : b.idmap[i] \in Slots
      BY <1>1, IdMapTyped
    <3>. QED BY <1>1, <1>7, <1>10, <3>1 DEF SlotsHold
  <2>3. \A x \in Slots : n.pool[x].id # 0 => /\ n.pool[x].id \in DOMAIN n.idmap
                                             /\ n.idmap[n.pool[x].id] = x
                                             /\ TickOf(n.pool[x].price) \in Ticks
                                             /\ x < n.hwm
    BY <1>1, <1>7, <1>10 DEF SlotsHold
  <2>. QED BY <2>1, <2>2, <2>3 DEF SlotsHold
<1>18. BestHolds(n)
  <2>1. \A d \in Sides, i \in Ticks : n.lane[d][i].head = b.lane[d][i].head
    BY <1>7, <1>9
  <2>2. \A d \in Sides : Occupied(n, d) = Occupied(b, d)
    BY <2>1 DEF Occupied
  <2>. QED BY <1>1, <1>7, <2>2 DEF BestHolds
<1>. QED BY <1>1, <1>7, <1>15, <1>16, <1>17, <1>18 DEF Holds, n

-----------------------------------------------------------------------------
(* Cancels and fills.                                                      *)

\* RepairBest leaves all but the best of one side, which is right.
BestStands(b, n, side) ==
    /\ n \in Books
    /\ IsBest(side, Occupied(n, side), n.best[side])
    /\ \A d \in Sides : d # side => n.best[d] = b.best[d]
    /\ n.pool = b.pool /\ n.lane = b.lane /\ n.hwm = b.hwm
    /\ n.freeHead = b.freeHead /\ n.idmap = b.idmap

\* Of the levels S of the side, at most level t has emptied.
OnlyEmptied(b, side, t, S) ==
    /\ S \in SUBSET Ticks /\ t \in S
    /\ IsBest(side, S, b.best[side])
    /\ \A i \in Ticks : i # t => (i \in S <=> b.lane[side][i].head # NIL)

\* A level of a side lost an order: the best of the side is right again after
\* RepairBest, if it was when the level was occupied.
LEMMA BestRepaired ==
    ASSUME NEW b \in Books, NEW side \in Sides, NEW t \in Ticks, NEW S,
           OnlyEmptied(b, side, t, S)
    PROVE  BestStands(b, RepairBest(b, side, t), side)
<1>. DEFINE behind   == IF side = BID THEN 0..t ELSE t..(Levels - 1)
            occupied == {i \in behind : b.lane[side][i].head # NIL}
            n        == RepairBest(b, side, t)
<1>s. /\ S \in SUBSET Ticks /\ t \in S
      /\ IsBest(side, S, b.best[side])
      /\ \A i \in Ticks : i # t => (i \in S <=> b.lane[side][i].head # NIL)
  BY DEF OnlyEmptied
<1>0. Repaired(b, n, side, t)
  BY RepairBestEffect
<1>. HIDE DEF n
<1>1. /\ n.pool = b.pool /\ n.lane = b.lane /\ n.hwm = b.hwm
      /\ n.freeHead = b.freeHead /\ n.idmap = b.idmap
      /\ \A d \in Sides : d # side => n.best[d] = b.best[d]
      /\ n.best[side] = IF b.best[side] # t \/ b.lane[side][t].head # NIL THEN b.best[side]
                        ELSE IF occupied = {} THEN NoLevel
                        ELSE IF side = BID THEN Max(occupied) ELSE Min(occupied)
      /\ n = [b EXCEPT !.best = n.best]
      /\ n.best = [d \in Sides |-> n.best[d]]
  BY <1>0 DEF Repaired
<1>2. Levels \in Nat /\ S # {} /\ \A i \in Ticks : i \in Nat /\ i < Levels
  BY <1>s, BookConfig DEF Ticks
<1>3. /\ b.best[side] \in S
      /\ side = BID => \A i \in S : i <= b.best[side]
      /\ side # BID => \A i \in S : b.best[side] <= i
  BY <1>s, <1>2 DEF IsBest
<1>4. Occupied(n, side) = {i \in Ticks : b.lane[side][i].head # NIL}
  BY <1>1 DEF Occupied
<1>5. IsBest(side, Occupied(n, side), n.best[side])
  <2>1. CASE b.lane[side][t].head # NIL
    <3>1. Occupied(n, side) = S
      BY <1>s, <1>4, <2>1
    <3>. QED BY <1>s, <1>1, <2>1, <3>1
  <2>2. CASE b.lane[side][t].head = NIL /\ b.best[side] # t
    <3>1. b.best[side] \in Occupied(n, side) /\ Occupied(n, side) \subseteq S
      BY <1>s, <1>3, <1>4, <2>2
    <3>2. n.best[side] = b.best[side]
      BY <1>1, <2>2
    <3>. QED BY <1>3, <3>1, <3>2 DEF IsBest
  <2>3. CASE b.lane[side][t].head = NIL /\ b.best[side] = t
    <3>1. Occupied(n, side) \subseteq behind
      <4>1. ASSUME NEW i \in Occupied(n, side) PROVE i \in behind
        <5>1. i \in Ticks /\ i \in S
          BY <1>s, <1>4, <2>3, <4>1
        <5>2. CASE side = BID
          BY <1>2, <1>3, <2>3, <5>1, <5>2
        <5>3. CASE side # BID
          BY <1>2, <1>3, <2>3, <5>1, <5>3
        <5>. QED BY <5>2, <5>3
      <4>. QED BY <4>1
    <3>2. behind \subseteq Ticks
      BY <1>2 DEF Ticks
    <3>3. occupied = Occupied(n, side)
      <4>. HIDE DEF behind
      <4>. QED BY <1>4, <3>1, <3>2
    <3>4. n.best[side] = IF occupied = {} THEN NoLevel
                         ELSE IF side = BID THEN Max(occupied) ELSE Min(occupied)
      BY <1>1, <2>3
    <3>5. occupied \in SUBSET Ticks
      <4>. HIDE DEF behind
      <4>. QED BY <3>2
    <3>. HIDE DEF occupied
    <3>6. CASE occupied = {}
      BY <3>3, <3>4, <3>6 DEF IsBest
    <3>7. CASE occupied # {}
      <4>1. CASE side = BID
        BY <3>3, <3>4, <3>5, <3>7, <4>1, MaxIs DEF IsBest
      <4>2. CASE side # BID
        BY <3>3, <3>4, <3>5, <3>7, <4>2, MinIs DEF IsBest
      <4>. QED BY <4>1, <4>2
    <3>. QED BY <3>6, <3>7
  <2>. QED BY <2>1, <2>2, <2>3
<1>6. n.best \in Bests
  <2>1. n.best[side] \in Ticks \cup {NoLevel}
    <3>1. Occupied(n, side) \in SUBSET Ticks
      BY <1>4
    <3>. QED BY <1>5, <3>1 DEF IsBest
  <2>2. b.best \in Bests
    BY DEF Books
  <2>3. \A d \in Sides : n.best[d] \in Ticks \cup {NoLevel}
    BY <1>1, <2>1, <2>2 DEF Bests
  <2>. QED BY <1>1, <2>3 DEF Bests
<1>7. n \in Books
  BY <1>1, <1>6 DEF Books
<1>8. BestStands(b, n, side)
  BY <1>1, <1>5, <1>7 DEF BestStands
<1>. QED BY <1>8 DEF n

\* What a departure does to the fields: slot s leaves its level and becomes
\* the head of the free list, its id leaves the id map.
Departed(b, n, id, rem) ==
    LET s   == b.idmap[id]
        o   == b.pool[s]
        t   == TickOf(o.price)
        old == b.lane[o.side][t]
    IN  /\ n \in Books
        /\ n.hwm = b.hwm /\ n.freeHead = s
        /\ n.pool[s] = [o EXCEPT !.id = 0, !.next = b.freeHead, !.prev = NIL]
        /\ \A x \in Slots \ {s} :
              /\ SameOrder(n, b, x)
              /\ n.pool[x].next = IF x = o.prev THEN o.next ELSE b.pool[x].next
              /\ n.pool[x].prev = IF x = o.next THEN o.prev ELSE b.pool[x].prev
        /\ n.lane[o.side][t] = [head     |-> IF old.head = s THEN o.next ELSE old.head,
                                tail     |-> IF old.tail = s THEN o.prev ELSE old.tail,
                                qtyTotal |-> old.qtyTotal - rem,
                                count    |-> old.count - 1]
        /\ \A d \in Sides, i \in Ticks :
              d # o.side \/ i # t => n.lane[d][i] = b.lane[d][i]
        /\ n.idmap = Restrict(b.idmap, DOMAIN b.idmap \ {id})
        /\ BestHolds(n)

\* Depart field by field.
LEMMA DepartEffect ==
    ASSUME NEW b \in Books, NEW id \in DOMAIN b.idmap, NEW rem \in Int, BestHolds(b),
           TickOf(b.pool[b.idmap[id]].price) \in Ticks,
           b.lane[b.pool[b.idmap[id]].side][TickOf(b.pool[b.idmap[id]].price)].head # NIL
    PROVE  Departed(b, Depart(b, id, rem), id, rem)
<1>. DEFINE s    == b.idmap[id]
            o    == b.pool[s]
            t    == TickOf(o.price)
            side == o.side
            ids  == Restrict(b.idmap, DOMAIN b.idmap \ {id})
            u    == [b EXCEPT !.idmap = Restrict(b.idmap, DOMAIN b.idmap \ {id})]
            v    == Unlink(u, s, side, t, rem)
            w    == FreeSlot(v, s)
            n    == RepairBest(w, side, t)
<1>1. s \in Slots /\ o \in Orders /\ side \in Sides /\ t \in Ticks
  <2>1. s \in Slots
    BY IdMapTyped
  <2>2. o \in Orders
    BY <2>1 DEF Books, Pools
  <2>. QED BY <2>1, <2>2 DEF Orders
<1>2. Depart(b, id, rem) = n
  BY DEF Depart
<1>3. ids \in IdMaps
  <2>1. ids \in [DOMAIN b.idmap \ {id} -> Slots]
    BY IdMapTyped DEF Restrict
  <2>2. DOMAIN b.idmap \ {id} \in SUBSET (Nat \ {0})
    BY IdMapTyped
  <2>. QED BY <2>1, <2>2 DEF IdMaps
<1>4. /\ u \in Books /\ u.pool = b.pool /\ u.lane = b.lane /\ u.hwm = b.hwm
      /\ u.best = b.best /\ u.freeHead = b.freeHead /\ u.idmap = ids
  BY <1>3 DEF Books
<1>. HIDE DEF ids, s, o, side, t, u
<1>5. Unlinked(u, v, s, side, t, rem)
  BY <1>1, <1>4, UnlinkEffect
<1>. HIDE DEF v
<1>7. u.pool[s] = o /\ u.lane[side][t] = b.lane[side][t]
  BY <1>4 DEF o
<1>a. v \in Books /\ v.hwm = b.hwm /\ v.freeHead = b.freeHead /\ v.best = b.best /\ v.idmap = ids
  BY <1>4, <1>5 DEF Unlinked
<1>b. \A x \in Slots : /\ SameOrder(v, u, x)
                       /\ v.pool[x].next = IF x = o.prev THEN o.next ELSE u.pool[x].next
                       /\ v.pool[x].prev = IF x = o.next THEN o.prev ELSE u.pool[x].prev
  BY <1>5, <1>7 DEF Unlinked
<1>c. /\ \A d \in Sides, i \in Ticks : d # side \/ i # t => v.lane[d][i] = u.lane[d][i]
      /\ v.lane[side][t] = [head     |-> IF b.lane[side][t].head = s THEN o.next ELSE b.lane[side][t].head,
                            tail     |-> IF b.lane[side][t].tail = s THEN o.prev ELSE b.lane[side][t].tail,
                            qtyTotal |-> b.lane[side][t].qtyTotal - rem,
                            count    |-> b.lane[side][t].count - 1]
  BY <1>5, <1>7 DEF Unlinked
<1>6. /\ w \in Books
      /\ w.lane = v.lane /\ w.hwm = v.hwm /\ w.best = v.best /\ w.idmap = v.idmap
      /\ w.freeHead = s
      /\ w.pool[s] = [v.pool[s] EXCEPT !.id = 0, !.next = v.freeHead, !.prev = NIL]
      /\ \A x \in Slots : x # s => w.pool[x] = v.pool[x]
  BY <1>1, <1>a, FreeSlotEffect
<1>. HIDE DEF w
<1>8. /\ \A d \in Sides, i \in Ticks : d # side \/ i # t => w.lane[d][i] = b.lane[d][i]
      /\ w.lane[side][t] = [head     |-> IF b.lane[side][t].head = s THEN o.next ELSE b.lane[side][t].head,
                            tail     |-> IF b.lane[side][t].tail = s THEN o.prev ELSE b.lane[side][t].tail,
                            qtyTotal |-> b.lane[side][t].qtyTotal - rem,
                            count    |-> b.lane[side][t].count - 1]
      /\ w.hwm = b.hwm /\ w.best = b.best /\ w.idmap = ids
  <2>1. \A d \in Sides, i \in Ticks : d # side \/ i # t => w.lane[d][i] = b.lane[d][i]
    <3>1. w.lane = v.lane /\ u.lane = b.lane
      BY <1>4, <1>6
    <3>2. \A d \in Sides, i \in Ticks : d # side \/ i # t => v.lane[d][i] = u.lane[d][i]
      BY <1>c
    <3>. QED BY <3>1, <3>2
  <2>2. w.lane[side][t] = v.lane[side][t] /\ w.hwm = b.hwm /\ w.best = b.best /\ w.idmap = ids
    BY <1>6, <1>a
  <2>. QED BY <1>c, <2>1, <2>2
<1>9. \A x \in Slots \ {s} :
         /\ SameOrder(w, b, x)
         /\ w.pool[x].next = IF x = o.prev THEN o.next ELSE b.pool[x].next
         /\ w.pool[x].prev = IF x = o.next THEN o.prev ELSE b.pool[x].prev
  <2>. TAKE x \in Slots \ {s}
  <2>1. x \in Slots /\ w.pool[x] = v.pool[x] /\ u.pool[x] = b.pool[x]
    BY <1>4, <1>6
  <2>2. SameOrder(w, b, x)
    <3>1. SameOrder(v, u, x)
      BY <1>b, <2>1
    <3>. QED BY <2>1, <3>1 DEF SameOrder
  <2>. QED BY <1>b, <2>1, <2>2
<1>10. w.pool[s] = [o EXCEPT !.id = 0, !.next = b.freeHead, !.prev = NIL]
  <2>1. v.pool[s] \in Orders /\ SameOrder(v, u, s)
    BY <1>1, <1>a, <1>b DEF Books, Pools
  <2>2. /\ v.pool[s].price = o.price /\ v.pool[s].qty = o.qty /\ v.pool[s].filled = o.filled
        /\ v.pool[s].side = o.side
    BY <1>7, <2>1 DEF SameOrder
  <2>3. [v.pool[s] EXCEPT !.id = 0, !.next = b.freeHead, !.prev = NIL]
          = [o EXCEPT !.id = 0, !.next = b.freeHead, !.prev = NIL]
    BY <1>1, <2>1, <2>2 DEF Orders
  <2>. QED BY <1>6, <1>a, <2>3
<1>11. /\ n \in Books
       /\ IsBest(side, Occupied(n, side), n.best[side])
       /\ \A d \in Sides : d # side => n.best[d] = w.best[d]
       /\ n.pool = w.pool /\ n.lane = w.lane /\ n.hwm = w.hwm
       /\ n.freeHead = w.freeHead /\ n.idmap = w.idmap
  <2>1. Occupied(b, side) \in SUBSET Ticks /\ t \in Occupied(b, side)
    BY <1>1 DEF Occupied, side, t, o, s
  <2>2. IsBest(side, Occupied(b, side), w.best[side])
    BY <1>1, <1>8 DEF BestHolds
  <2>3. \A i \in Ticks : i # t => (i \in Occupied(b, side) <=> w.lane[side][i].head # NIL)
    <3>1. \A i \in Ticks : i # t => w.lane[side][i] = b.lane[side][i]
      BY <1>1, <1>8
    <3>. QED BY <3>1 DEF Occupied
  <2>4. OnlyEmptied(w, side, t, Occupied(b, side))
    BY <2>1, <2>2, <2>3 DEF OnlyEmptied
  <2>5. BestStands(w, n, side)
    BY <1>1, <1>6, <2>4, BestRepaired
  <2>. HIDE DEF n
  <2>. QED BY <2>5 DEF BestStands
<1>. HIDE DEF n
<1>12. BestHolds(n)
  <2>1. \A d \in Sides : d # side => Occupied(n, d) = Occupied(b, d)
    <3>1. \A d \in Sides : d # side => \A i \in Ticks : n.lane[d][i] = b.lane[d][i]
      BY <1>8, <1>11
    <3>. QED BY <3>1 DEF Occupied
  <2>2. \A d \in Sides : d # side => n.best[d] = b.best[d]
    BY <1>8, <1>11
  <2>. QED BY <1>11, <2>1, <2>2 DEF BestHolds
<1>13. Departed(b, n, id, rem)
  <2>1. /\ n.hwm = b.hwm /\ n.freeHead = s /\ n.idmap = ids
        /\ n.pool[s] = [o EXCEPT !.id = 0, !.next = b.freeHead, !.prev = NIL]
    BY <1>6, <1>8, <1>10, <1>11
  <2>2. \A x \in Slots \ {s} :
           /\ SameOrder(n, b, x)
           /\ n.pool[x].next = IF x = o.prev THEN o.next ELSE b.pool[x].next
           /\ n.pool[x].prev = IF x = o.next THEN o.prev ELSE b.pool[x].prev
    <3>. TAKE x \in Slots \ {s}
    <3>1. n.pool[x] = w.pool[x]
      BY <1>11
    <3>2. /\ SameOrder(w, b, x)
          /\ w.pool[x].next = IF x = o.prev THEN o.next ELSE b.pool[x].next
          /\ w.pool[x].prev = IF x = o.next THEN o.prev ELSE b.pool[x].prev
      BY <1>9
    <3>3. SameOrder(n, b, x)
      BY <3>1, <3>2 DEF SameOrder
    <3>. QED BY <3>1, <3>2, <3>3
  <2>3. /\ \A d \in Sides, i \in Ticks : d # side \/ i # t => n.lane[d][i] = b.lane[d][i]
        /\ n.lane[side][t] = [head     |-> IF b.lane[side][t].head = s THEN o.next ELSE b.lane[side][t].head,
                              tail     |-> IF b.lane[side][t].tail = s THEN o.prev ELSE b.lane[side][t].tail,
                              qtyTotal |-> b.lane[side][t].qtyTotal - rem,
                              count    |-> b.lane[side][t].count - 1]
    BY <1>8, <1>11
  <2>. QED BY <1>11, <1>12, <2>1, <2>2, <2>3 DEF Departed, ids, side, t, o, s
<1>. QED BY <1>2, <1>13

\* The list l without its k-th slot.
Cut(l, k) == [i \in 1..(Len(l) - 1) |-> IF i < k THEN l[i] ELSE l[i + 1]]

\* A level lost the order at slot s: its neighbours are joined.
Shrunk(b, n, side, t, s) ==
    LET o   == b.pool[s]
        old == b.lane[side][t]
    IN  /\ \A x \in Slots \ {s} :
              /\ SameOrder(n, b, x)
              /\ n.pool[x].next = IF x = o.prev THEN o.next ELSE b.pool[x].next
              /\ n.pool[x].prev = IF x = o.next THEN o.prev ELSE b.pool[x].prev
        /\ n.lane[side][t] = [head     |-> IF old.head = s THEN o.next ELSE old.head,
                              tail     |-> IF old.tail = s THEN o.prev ELSE old.tail,
                              qtyTotal |-> old.qtyTotal - Open(o),
                              count    |-> old.count - 1]

\* A list without its k-th slot is a list, one shorter.
LEMMA CutList ==
    ASSUME NEW l \in Seq(Slots), NEW k \in 1..Len(l)
    PROVE  /\ Cut(l, k) \in Seq(Slots)
           /\ Len(Cut(l, k)) = Len(l) - 1
           /\ \A i \in 1..(Len(l) - 1) : Cut(l, k)[i] = IF i < k THEN l[i] ELSE l[i + 1]
<1>1. PICK n \in Nat : n = Len(l)
  OBVIOUS
<1>2. \A i \in 1..n : l[i] \in Slots
  BY <1>1, ElementOfSeq
<1>3. n - 1 \in Nat /\ k \in 1..n
  BY <1>1
<1>4. \A i \in 1..(n - 1) : (IF i < k THEN l[i] ELSE l[i + 1]) \in Slots
  <2>1. \A i \in 1..(n - 1) : i \in 1..n /\ i + 1 \in 1..n
    BY <1>3
  <2>. QED BY <1>2, <2>1
<1>5. Cut(l, k) = [i \in 1..(n - 1) |-> IF i < k THEN l[i] ELSE l[i + 1]]
  BY <1>1 DEF Cut
<1>6. Cut(l, k) \in [1..(n - 1) -> Slots]
  BY <1>4, <1>5
<1>7. Cut(l, k) \in Seq(Slots) /\ Len(Cut(l, k)) = n - 1
  BY <1>3, <1>6
<1>. QED BY <1>1, <1>5, <1>7

\* The level holds the list without the order that left.
LEMMA LevelShrunk ==
    ASSUME NEW b \in Books, NEW n \in Books, NEW side \in Sides, NEW t \in Ticks, NEW l,
           LevelHolds(b, side, t, l), NEW k \in 1..Len(l), NEW s, s = l[k],
           Shrunk(b, n, side, t, s),
           \A x \in Slots : RestsAt(n, x, side, t) <=> x # s /\ RestsAt(b, x, side, t)
    PROVE  LevelHolds(n, side, t, Cut(l, k))
<1>. DEFINE m   == Cut(l, k)
            o   == b.pool[s]
            old == b.lane[side][t]
<1>0. NIL \notin Slots
  BY BookConfig DEF NIL, Slots
<1>1. PICK N \in Nat : N = Len(l)
  <2>1. l \in Seq(Slots)
    BY DEF LevelHolds, ListFrom
  <2>. QED BY <2>1
<1>2. /\ l \in Seq(Slots) /\ k \in 1..N /\ k \in Nat /\ N # 0
      /\ \A i \in 1..N : l[i] \in Slots
      /\ \A i, j \in 1..N : l[i] = l[j] => i = j
  <2>1. l \in Seq(Slots)
    BY DEF LevelHolds, ListFrom
  <2>2. \A i \in 1..N : l[i] \in Slots
    BY <1>1, <2>1, ElementOfSeq
  <2>3. \A i, j \in 1..N : l[i] = l[j] => i = j
    BY <1>1 DEF LevelHolds, ListFrom
  <2>. QED BY <1>1, <2>1, <2>2, <2>3
<1>3. \A i \in 1..N : b.pool[l[i]].next = IF i = N THEN NIL ELSE l[i + 1]
  BY <1>1 DEF LevelHolds, ListFrom
<1>4. \A i \in 1..N : b.pool[l[i]].prev = IF i = 1 THEN NIL ELSE l[i - 1]
  BY <1>1 DEF LevelHolds
<1>5. /\ m \in Seq(Slots) /\ Len(m) = N - 1
      /\ \A i \in 1..(N - 1) : m[i] = IF i < k THEN l[i] ELSE l[i + 1]
  BY <1>1, <1>2, CutList
<1>6. /\ o.next = IF k = N THEN NIL ELSE l[k + 1]
      /\ o.prev = IF k = 1 THEN NIL ELSE l[k - 1]
  BY <1>2, <1>3, <1>4
<1>7. \A x \in Slots \ {s} :
         /\ SameOrder(n, b, x)
         /\ n.pool[x].next = IF x = o.prev THEN o.next ELSE b.pool[x].next
         /\ n.pool[x].prev = IF x = o.next THEN o.prev ELSE b.pool[x].prev
  BY DEF Shrunk
<1>8. /\ n.lane[side][t].head = IF old.head = s THEN o.next ELSE old.head
      /\ n.lane[side][t].tail = IF old.tail = s THEN o.prev ELSE old.tail
      /\ n.lane[side][t].qtyTotal = old.qtyTotal - Open(o)
      /\ n.lane[side][t].count = old.count - 1
  BY DEF Shrunk
<1>9. old.head = l[1] /\ old.tail = l[N]
  BY <1>1, <1>2 DEF LevelHolds, ListFrom
<1>10. \A i \in 1..N : i # k => l[i] \in Slots \ {s}
  BY <1>2
<1>. HIDE DEF m, o, old
<1>11. n.lane[side][t].head = IF Len(m) = 0 THEN NIL ELSE m[1]
  <2>1. CASE k = 1
    <3>1. n.lane[side][t].head = IF N = 1 THEN NIL ELSE l[2]
      BY <1>6, <1>8, <1>9, <2>1
    <3>2. N # 1 => 1 \in 1..(N - 1) /\ ~(1 < k)
      BY <1>2, <2>1
    <3>. QED BY <1>2, <1>5, <3>1, <3>2
  <2>2. CASE k # 1
    <3>1. 1 \in 1..(N - 1) /\ 1 < k /\ 1 \in 1..N
      BY <1>2, <2>2
    <3>2. n.lane[side][t].head = l[1]
      BY <1>8, <1>9, <1>10, <2>2, <3>1
    <3>. QED BY <1>5, <3>1, <3>2
  <2>. QED BY <2>1, <2>2
<1>12. n.lane[side][t].tail = IF Len(m) = 0 THEN NIL ELSE m[Len(m)]
  <2>1. CASE k = N
    <3>1. n.lane[side][t].tail = IF N = 1 THEN NIL ELSE l[N - 1]
      BY <1>6, <1>8, <1>9, <2>1
    <3>2. N # 1 => N - 1 \in 1..(N - 1) /\ N - 1 < k
      BY <1>2, <2>1
    <3>. QED BY <1>2, <1>5, <3>1, <3>2
  <2>2. CASE k # N
    <3>1. N - 1 \in 1..(N - 1) /\ ~(N - 1 < k) /\ N \in 1..N /\ (N - 1) + 1 = N
      BY <1>2, <2>2
    <3>2. n.lane[side][t].tail = l[N]
      BY <1>8, <1>9, <1>10, <2>2, <3>1
    <3>. QED BY <1>5, <3>1, <3>2
  <2>. QED BY <2>1, <2>2
<1>13. ASSUME NEW i \in 1..(N - 1)
       PROVE  n.pool[m[i]].next = IF i = N - 1 THEN NIL ELSE m[i + 1]
  <2>0. i \in Nat /\ i \in 1..N /\ i + 1 \in 1..N
    BY <1>2
  <2>1. CASE i < k - 1
    <3>1. /\ m[i] = l[i] /\ i # k /\ i # k - 1 /\ i # N /\ i # N - 1
          /\ i + 1 \in 1..(N - 1) /\ i + 1 < k /\ (k = 1 \/ k - 1 \in 1..N)
      BY <1>2, <1>5, <2>0, <2>1
    <3>2. l[i] \in Slots \ {s} /\ l[i] # o.prev
      BY <1>0, <1>2, <1>6, <1>10, <2>0, <3>1
    <3>. QED BY <1>3, <1>5, <1>7, <2>0, <3>1, <3>2
  <2>2. CASE i = k - 1
    <3>1. /\ m[i] = l[i] /\ i # k /\ k # 1 /\ (i = N - 1 <=> k = N)
          /\ i # N - 1 => i + 1 \in 1..(N - 1) /\ ~(i + 1 < k) /\ (i + 1) + 1 = k + 1
      BY <1>2, <1>5, <2>0, <2>2
    <3>2. l[i] \in Slots \ {s} /\ l[i] = o.prev
      BY <1>6, <1>10, <2>0, <2>2, <3>1
    <3>3. n.pool[m[i]].next = o.next
      BY <1>7, <3>1, <3>2
    <3>. QED BY <1>5, <1>6, <3>1, <3>3
  <2>3. CASE ~(i < k - 1) /\ i # k - 1
    <3>1. /\ m[i] = l[i + 1] /\ i + 1 # k /\ i + 1 # k - 1 /\ (i = N - 1 <=> i + 1 = N)
          /\ i # N - 1 => i + 1 \in 1..(N - 1) /\ ~(i + 1 < k)
          /\ (k = 1 \/ k - 1 \in 1..N)
      BY <1>2, <1>5, <2>0, <2>3
    <3>2. l[i + 1] \in Slots \ {s} /\ l[i + 1] # o.prev
      BY <1>0, <1>2, <1>6, <1>10, <2>0, <3>1
    <3>3. n.pool[m[i]].next = b.pool[l[i + 1]].next
      BY <1>7, <3>1, <3>2
    <3>4. b.pool[l[i + 1]].next = IF i + 1 = N THEN NIL ELSE l[(i + 1) + 1]
      BY <1>3, <2>0
    <3>. QED BY <1>5, <3>1, <3>3, <3>4
  <2>. QED BY <2>1, <2>2, <2>3
<1>14. ASSUME NEW i \in 1..(N - 1)
       PROVE  n.pool[m[i]].prev = IF i = 1 THEN NIL ELSE m[i - 1]
  <2>0. i \in Nat /\ i \in 1..N /\ i + 1 \in 1..N
    BY <1>2
  <2>1. CASE i < k
    <3>1. /\ m[i] = l[i] /\ i # k /\ i # k + 1
          /\ i # 1 => i - 1 \in 1..(N - 1) /\ i - 1 < k
          /\ (k = N \/ k + 1 \in 1..N)
      BY <1>2, <1>5, <2>0, <2>1
    <3>2. l[i] \in Slots \ {s} /\ l[i] # o.next
      BY <1>0, <1>2, <1>6, <1>10, <2>0, <3>1
    <3>3. n.pool[m[i]].prev = b.pool[l[i]].prev
      BY <1>7, <3>1, <3>2
    <3>. QED BY <1>4, <1>5, <2>0, <3>1, <3>3
  <2>2. CASE i = k
    <3>1. /\ m[i] = l[i + 1] /\ i + 1 # k /\ k # N
          /\ i # 1 => i - 1 \in 1..(N - 1) /\ i - 1 < k
      BY <1>2, <1>5, <2>0, <2>2
    <3>2. l[i + 1] \in Slots \ {s} /\ l[i + 1] = o.next
      BY <1>6, <1>10, <2>0, <2>2, <3>1
    <3>3. n.pool[m[i]].prev = o.prev
      BY <1>7, <3>1, <3>2
    <3>. QED BY <1>5, <1>6, <2>2, <3>1, <3>3
  <2>3. CASE i > k
    <3>1. /\ m[i] = l[i + 1] /\ i + 1 # k /\ i + 1 # k + 1 /\ i # 1 /\ i + 1 # 1
          /\ i - 1 \in 1..(N - 1) /\ ~(i - 1 < k) /\ (i - 1) + 1 = i /\ (i + 1) - 1 = i
          /\ (k = N \/ k + 1 \in 1..N)
      <4>1. m[i] = l[i + 1]
        BY <1>2, <1>5, <2>0, <2>3
      <4>. QED BY <1>2, <2>0, <2>3, <4>1
    <3>2. l[i + 1] \in Slots \ {s} /\ l[i + 1] # o.next
      BY <1>0, <1>2, <1>6, <1>10, <2>0, <3>1
    <3>3. n.pool[m[i]].prev = b.pool[l[i + 1]].prev
      BY <1>7, <3>1, <3>2
    <3>4. b.pool[l[i + 1]].prev = IF i + 1 = 1 THEN NIL ELSE l[(i + 1) - 1]
      BY <1>4, <2>0
    <3>. QED BY <1>5, <3>1, <3>3, <3>4
  <2>4. i < k \/ i = k \/ i > k
    BY <1>2, <2>0
  <2>. QED BY <2>1, <2>2, <2>3, <2>4
<1>15. \A i, j \in 1..(N - 1) : m[i] = m[j] => i = j
  <2>. TAKE i \in 1..(N - 1), j \in 1..(N - 1)
  <2>. HAVE m[i] = m[j]
  <2>. DEFINE u == IF i < k THEN i ELSE i + 1
              v == IF j < k THEN j ELSE j + 1
  <2>1. u \in 1..N /\ v \in 1..N /\ m[i] = l[u] /\ m[j] = l[v]
    BY <1>2, <1>5
  <2>2. u = v
    BY <1>2, <2>1
  <2>. QED BY <1>2, <2>2
<1>16. ASSUME NEW x \in Slots
       PROVE  (\E i \in 1..(N - 1) : m[i] = x) <=> RestsAt(n, x, side, t)
  <2>1. ASSUME NEW i \in 1..(N - 1), m[i] = x
        PROVE  x # s /\ \E j \in 1..N : l[j] = x
    <3>. DEFINE u == IF i < k THEN i ELSE i + 1
    <3>1. u \in 1..N /\ u # k /\ m[i] = l[u]
      BY <1>2, <1>5
    <3>. HIDE DEF u
    <3>. QED BY <1>10, <2>1, <3>1
  <2>2. ASSUME x # s, NEW j \in 1..N, l[j] = x
        PROVE  \E i \in 1..(N - 1) : m[i] = x
    <3>1. j # k
      BY <2>2
    <3>2. CASE j < k
      <4>1. j \in 1..(N - 1)
        BY <1>2, <3>2
      <4>. QED BY <1>5, <2>2, <3>2, <4>1
    <3>3. CASE ~(j < k)
      <4>1. j - 1 \in 1..(N - 1) /\ ~(j - 1 < k) /\ (j - 1) + 1 = j
        BY <1>2, <3>1, <3>3
      <4>. QED BY <1>5, <2>2, <4>1
    <3>. QED BY <3>2, <3>3
  <2>3. (\E j \in 1..N : l[j] = x) <=> RestsAt(b, x, side, t)
    BY <1>1 DEF LevelHolds
  <2>. QED BY <2>1, <2>2, <2>3
<1>17. n.lane[side][t].count = Len(m)
  BY <1>1, <1>5, <1>8 DEF LevelHolds, old
<1>18. n.lane[side][t].qtyTotal = OpenQty(n, m)
  <2>. DEFINE v == [i \in 1..Len(l) |-> Open(b.pool[l[i]])]
              w == [i \in 1..Len(m) |-> Open(n.pool[m[i]])]
  <2>1. v \in Seq(Int) /\ w \in Seq(Int)
    BY <1>2, <1>5, OpensTyped
  <2>2. Len(v) = N /\ Len(w) = N - 1 /\ k \in 1..Len(v)
    <3>1. N - 1 \in Nat
      BY <1>2
    <3>. QED BY <1>1, <1>2, <1>5, <3>1
  <2>3. v[k] = Open(o)
    BY <1>1, <1>2 DEF o
  <2>4. Without(N, k, v, w)
    <3>1. ASSUME NEW i \in 1..(N - 1)
          PROVE  w[i] = IF i < k THEN v[i] ELSE v[i + 1]
      <4>. DEFINE u == IF i < k THEN i ELSE i + 1
      <4>1. u \in 1..N /\ u # k /\ m[i] = l[u]
        BY <1>2, <1>5
      <4>2. SameOrder(n, b, l[u])
        <5>. HIDE DEF u
        <5>. QED BY <1>7, <1>10, <4>1
      <4>3. w[i] = Open(n.pool[l[u]])
        BY <1>5, <4>1
      <4>4. v[u] = Open(b.pool[l[u]])
        BY <1>1, <4>1
      <4>5. w[i] = v[u]
        BY <4>2, <4>3, <4>4 DEF SameOrder, Open
      <4>. HIDE DEF v, w
      <4>. QED BY <4>5
    <3>. QED BY <3>1 DEF Without
  <2>5. OpenQty(b, l) = Total(v) /\ OpenQty(n, m) = Total(w)
    BY DEF OpenQty
  <2>. HIDE DEF v, w
  <2>6. Total(w) = Total(v) - v[k]
    <3>1. Len(w) = Len(v) - 1 /\ Without(Len(v), k, v, w)
      BY <2>2, <2>4
    <3>. QED BY <2>1, <2>2, <3>1, TotalRemove
  <2>7. old.qtyTotal = OpenQty(b, l)
    BY DEF LevelHolds, old
  <2>. QED BY <1>8, <2>3, <2>5, <2>6, <2>7
<1>19. ListFrom(n, n.lane[side][t].head, m)
  BY <1>5, <1>11, <1>13, <1>15 DEF ListFrom
<1>. QED BY <1>5, <1>12, <1>14, <1>16, <1>17, <1>18, <1>19 DEF LevelHolds, m

\* What an order that leaves does to the fields of the book, whether it was
\* cancelled or filled: its level is debited by what was open of it.
Left(b, n, id) ==
    LET s == b.idmap[id]
        o == b.pool[s]
        t == TickOf(o.price)
    IN  /\ n \in Books
        /\ n.hwm = b.hwm /\ n.freeHead = s
        /\ n.pool[s].id = 0 /\ n.pool[s].next = b.freeHead
        /\ n.pool[s].filled <= n.pool[s].qty
        /\ n.pool[s].price = o.price /\ n.pool[s].qty = o.qty
        /\ Shrunk(b, n, o.side, t, s)
        /\ \A d \in Sides, i \in Ticks :
              d # o.side \/ i # t => n.lane[d][i] = b.lane[d][i]
        /\ n.idmap = Restrict(b.idmap, DOMAIN b.idmap \ {id})
        /\ BestHolds(n)

\* The order with this id is the k-th of the list of its level.
PlaceOf(b, q, id, k) ==
    LET s == b.idmap[id]
        l == q[b.pool[s].side][TickOf(b.pool[s].price)]
    IN  k \in 1..Len(l) /\ l[k] = s

\* Where an order of the id map rests: its slot is in the list of its level.
LEMMA OrderIsListed ==
    ASSUME NEW b, NEW q, NEW f, Holds(b, q, f), NEW id \in DOMAIN b.idmap
    PROVE  LET s == b.idmap[id]
               o == b.pool[s]
               t == TickOf(o.price)
           IN  /\ s \in Slots /\ o \in Orders /\ o.id = id /\ id \in Nat \ {0}
               /\ t \in Ticks /\ o.side \in Sides
               /\ RestsAt(b, s, o.side, t)
               /\ \E k : PlaceOf(b, q, id, k)
               /\ b.lane[o.side][t].head # NIL
<1>. DEFINE s == b.idmap[id]
            o == b.pool[s]
            t == TickOf(o.price)
            l == q[o.side][t]
<1>1. b \in Books /\ SlotsHold(b) /\ \A d \in Sides, i \in Ticks : LevelHolds(b, d, i, q[d][i])
  BY DEF Holds
<1>2. s \in Slots /\ id \in Nat \ {0}
  BY <1>1, IdMapTyped
<1>3. o \in Orders /\ o.side \in Sides
  BY <1>1, <1>2 DEF Books, Pools, Orders
<1>4. o.id = id /\ id # 0
  BY <1>1, <1>2 DEF SlotsHold
<1>5. t \in Ticks /\ s < b.hwm
  BY <1>1, <1>2, <1>4 DEF SlotsHold
<1>. HIDE DEF s
<1>6. RestsAt(b, s, o.side, t)
  BY <1>4, <1>5 DEF RestsAt
<1>7. LevelHolds(b, o.side, t, l)
  BY <1>1, <1>3, <1>5
<1>. HIDE DEF o, t, l
<1>8. PICK k \in 1..Len(l) : l[k] = s
  BY <1>2, <1>6, <1>7 DEF LevelHolds
<1>9. b.lane[o.side][t].head # NIL
  <2>1. l \in Seq(Slots) /\ Len(l) # 0 /\ 1 \in 1..Len(l)
    <3>1. l \in Seq(Slots)
      BY <1>7 DEF LevelHolds, ListFrom
    <3>. QED BY <1>8, <3>1
  <2>2. b.lane[o.side][t].head = l[1]
    BY <1>7, <2>1 DEF LevelHolds, ListFrom
  <2>3. NIL \notin Slots
    BY BookConfig DEF NIL, Slots
  <2>. QED BY <2>1, <2>2, <2>3, ElementOfSeq
<1>10. PlaceOf(b, q, id, k)
  BY <1>8 DEF PlaceOf, s, o, t, l
<1>. QED BY <1>2, <1>3, <1>4, <1>5, <1>6, <1>9, <1>10 DEF s, o, t

\* Cancel removes the order at its slot.
LEMMA CancelLeaves ==
    ASSUME NEW b, NEW q, NEW f, Holds(b, q, f), NEW id \in DOMAIN b.idmap
    PROVE  Left(b, Cancel(b, id), id)
<1>. DEFINE s   == b.idmap[id]
            o   == b.pool[s]
            t   == TickOf(o.price)
            rem == o.qty - o.filled
            n   == Cancel(b, id)
<1>1. b \in Books /\ BestHolds(b) /\ SlotsHold(b)
  BY DEF Holds
<1>2. s \in Slots /\ o \in Orders /\ t \in Ticks /\ o.side \in Sides /\ b.lane[o.side][t].head # NIL
  BY OrderIsListed
<1>3. rem \in Int /\ o.filled <= o.qty /\ rem = Open(o)
  <2>1. rem \in Int
    <3>. HIDE DEF o
    <3>. QED BY <1>2, SMTT(30) DEF Orders
  <2>2. o.filled <= o.qty
    BY <1>1, <1>2 DEF SlotsHold
  <2>. QED BY <2>1, <2>2 DEF Open
<1>4. Departed(b, n, id, rem)
  <2>1. n = Depart(b, id, rem)
    BY DEF Cancel
  <2>. HIDE DEF n, rem
  <2>. QED BY <1>1, <1>2, <1>3, <2>1, DepartEffect
<1>. HIDE DEF n, rem
<1>5. n.pool[s] = [o EXCEPT !.id = 0, !.next = b.freeHead, !.prev = NIL]
  BY <1>4 DEF Departed
<1>6. /\ n.pool[s].id = 0 /\ n.pool[s].next = b.freeHead /\ n.pool[s].filled <= n.pool[s].qty
      /\ n.pool[s].price = o.price /\ n.pool[s].qty = o.qty
  BY <1>2, <1>3, <1>5 DEF Orders
<1>7. Shrunk(b, n, o.side, t, s)
  BY <1>3, <1>4 DEF Shrunk, Departed
<1>8. /\ n \in Books /\ n.hwm = b.hwm /\ n.freeHead = s
      /\ \A d \in Sides, i \in Ticks : d # o.side \/ i # t => n.lane[d][i] = b.lane[d][i]
      /\ n.idmap = Restrict(b.idmap, DOMAIN b.idmap \ {id})
      /\ BestHolds(n)
  BY <1>4 DEF Departed
<1>. QED BY <1>6, <1>7, <1>8 DEF Left, n

\* Fill removes it too, with all of its quantity filled.
LEMMA FillLeaves ==
    ASSUME NEW b, NEW q, NEW f, Holds(b, q, f), NEW id \in DOMAIN b.idmap
    PROVE  Left(b, Fill(b, id), id)
<1>. DEFINE s   == b.idmap[id]
            o   == b.pool[s]
            t   == TickOf(o.price)
            rem == o.qty - o.filled
            e   == [o EXCEPT !.filled = o.qty]
            c   == [b EXCEPT !.pool[s].filled = o.qty]
            n   == Fill(b, id)
<1>1. b \in Books /\ BestHolds(b) /\ SlotsHold(b)
  BY DEF Holds
<1>2. s \in Slots /\ o \in Orders /\ t \in Ticks /\ o.side \in Sides /\ b.lane[o.side][t].head # NIL
  BY OrderIsListed
<1>3. rem \in Int /\ rem = Open(o)
  <2>. HIDE DEF o
  <2>. QED BY <1>2, SMTT(30) DEF Orders, Open
<1>4. /\ e \in Orders /\ e.id = o.id /\ e.price = o.price /\ e.qty = o.qty /\ e.filled = o.qty
      /\ e.side = o.side /\ e.next = o.next /\ e.prev = o.prev /\ o.qty \in Nat
  BY <1>2 DEF Orders
<1>5. /\ c \in Books /\ c.lane = b.lane /\ c.hwm = b.hwm /\ c.best = b.best
      /\ c.freeHead = b.freeHead /\ c.idmap = b.idmap
      /\ c.pool[s] = e /\ \A x \in Slots : x # s => c.pool[x] = b.pool[x]
  <2>1. c = [b EXCEPT !.pool = [b.pool EXCEPT ![s] = e]]
    BY <1>1, <1>2 DEF Books, Pools
  <2>. HIDE DEF c, e
  <2>2. b.pool \in Pools /\ [b.pool EXCEPT ![s] = e] \in Pools
    BY <1>1, <1>2, <1>4 DEF Books, Pools
  <2>3. c \in Books
    BY <1>1, <2>1, <2>2 DEF Books
  <2>4. /\ c.lane = b.lane /\ c.hwm = b.hwm /\ c.best = b.best
        /\ c.freeHead = b.freeHead /\ c.idmap = b.idmap
        /\ c.pool = [b.pool EXCEPT ![s] = e]
    BY <1>1, <2>1 DEF Books
  <2>5. c.pool[s] = e /\ \A x \in Slots : x # s => c.pool[x] = b.pool[x]
    BY <1>2, <2>2, <2>4 DEF Pools
  <2>. QED BY <2>3, <2>4, <2>5
<1>6. n = Depart(c, id, rem)
  BY DEF Fill
<1>. HIDE DEF c, e, n, rem
<1>7. BestHolds(c)
  BY <1>1, <1>5 DEF BestHolds, Occupied
<1>8. c.idmap[id] = s /\ c.pool[c.idmap[id]] = e /\ id \in DOMAIN c.idmap
  BY <1>5
<1>9. TickOf(e.price) = t
  BY <1>4
<1>. HIDE DEF t
<1>10. Departed(c, n, id, rem)
  BY <1>2, <1>3, <1>4, <1>5, <1>6, <1>7, <1>8, <1>9, DepartEffect
<1>11. n.pool[s] = [e EXCEPT !.id = 0, !.next = b.freeHead, !.prev = NIL]
  BY <1>5, <1>8, <1>10 DEF Departed
<1>12. /\ n.pool[s].id = 0 /\ n.pool[s].next = b.freeHead /\ n.pool[s].filled <= n.pool[s].qty
       /\ n.pool[s].price = o.price /\ n.pool[s].qty = o.qty
  BY <1>4, <1>11 DEF Orders
<1>13. \A x \in Slots \ {s} :
          /\ SameOrder(n, c, x)
          /\ n.pool[x].next = IF x = o.prev THEN o.next ELSE c.pool[x].next
          /\ n.pool[x].prev = IF x = o.next THEN o.prev ELSE c.pool[x].prev
  BY <1>4, <1>8, <1>10, SMTT(30) DEF Departed
<1>14. \A x \in Slots \ {s} :
          /\ SameOrder(n, b, x)
          /\ n.pool[x].next = IF x = o.prev THEN o.next ELSE b.pool[x].next
          /\ n.pool[x].prev = IF x = o.next THEN o.prev ELSE b.pool[x].prev
  <2>. TAKE x \in Slots \ {s}
  <2>1. c.pool[x] = b.pool[x]
    BY <1>5
  <2>2. SameOrder(n, c, x)
    BY <1>13
  <2>3. SameOrder(n, b, x)
    BY <2>1, <2>2 DEF SameOrder
  <2>. QED BY <1>13, <2>1, <2>3
<1>15. n.lane[o.side][t] =
          [head     |-> IF b.lane[o.side][t].head = s THEN o.next ELSE b.lane[o.side][t].head,
           tail     |-> IF b.lane[o.side][t].tail = s THEN o.prev ELSE b.lane[o.side][t].tail,
           qtyTotal |-> b.lane[o.side][t].qtyTotal - rem,
           count    |-> b.lane[o.side][t].count - 1]
  <2>. DEFINE z == c.lane[e.side][TickOf(e.price)]
  <2>1. n.lane[e.side][TickOf(e.price)] =
           [head     |-> IF z.head = s THEN e.next ELSE z.head,
            tail     |-> IF z.tail = s THEN e.prev ELSE z.tail,
            qtyTotal |-> z.qtyTotal - rem,
            count    |-> z.count - 1]
    BY <1>8, <1>10 DEF Departed
  <2>2. z = b.lane[o.side][t]
    BY <1>4, <1>5, <1>9
  <2>. HIDE DEF z
  <2>. QED BY <1>4, <1>9, <2>1, <2>2
<1>16. Shrunk(b, n, o.side, t, s)
  BY <1>3, <1>14, <1>15 DEF Shrunk
<1>17. /\ n \in Books /\ n.hwm = b.hwm /\ n.freeHead = s
       /\ n.idmap = Restrict(b.idmap, DOMAIN b.idmap \ {id})
       /\ BestHolds(n)
  BY <1>5, <1>8, <1>10 DEF Departed
<1>18. \A d \in Sides, i \in Ticks : d # o.side \/ i # t => n.lane[d][i] = b.lane[d][i]
  <2>1. \A d \in Sides, i \in Ticks :
           d # e.side \/ i # TickOf(e.price) => n.lane[d][i] = c.lane[d][i]
    BY <1>8, <1>10 DEF Departed
  <2>2. e.side = o.side /\ c.lane = b.lane
    BY <1>4, <1>5
  <2>. HIDE DEF o
  <2>. QED BY <1>9, <2>1, <2>2
<1>. QED BY <1>12, <1>16, <1>17, <1>18 DEF Left, t, n

\* The slot that became the head of the free list is its first.
Freed(f, s) == [i \in 1..(Len(f) + 1) |-> IF i = 1 THEN s ELSE f[i - 1]]

\* A slot given back: the free list has it in front.
LEMMA FreeListExtended ==
    ASSUME NEW b, NEW n, NEW f, FreeHolds(b, f), NEW s \in Slots, b.pool[s].id # 0, s < b.hwm,
           n.hwm = b.hwm, n.freeHead = s, n.pool[s].id = 0, n.pool[s].next = b.freeHead,
           \A x \in Slots \ {s} : n.pool[x].id = b.pool[x].id,
           \A x \in Slots : x < b.hwm /\ b.pool[x].id = 0 => n.pool[x].next = b.pool[x].next
    PROVE  FreeHolds(n, Freed(f, s))
<1>. DEFINE g == Freed(f, s)
<1>1. PICK N \in Nat : N = Len(f)
  <2>1. f \in Seq(Slots)
    BY DEF FreeHolds, ListFrom
  <2>. QED BY <2>1
<1>2. /\ f \in Seq(Slots)
      /\ \A i \in 1..N : f[i] \in Slots
      /\ \A i, j \in 1..N : f[i] = f[j] => i = j
      /\ \A i \in 1..N : b.pool[f[i]].next = IF i = N THEN NIL ELSE f[i + 1]
      /\ b.freeHead = IF N = 0 THEN NIL ELSE f[1]
  <2>1. f \in Seq(Slots)
    BY DEF FreeHolds, ListFrom
  <2>2. \A i \in 1..N : f[i] \in Slots
    BY <1>1, <2>1, ElementOfSeq
  <2>. QED BY <1>1, <2>1, <2>2 DEF FreeHolds, ListFrom
<1>3. \A x \in Slots : (\E i \in 1..N : f[i] = x) <=> x < b.hwm /\ b.pool[x].id = 0
  BY <1>1 DEF FreeHolds
<1>4. \A i \in 1..N : f[i] # s /\ n.pool[f[i]].next = b.pool[f[i]].next
  BY <1>2, <1>3
<1>5. g = [i \in 1..(N + 1) |-> IF i = 1 THEN s ELSE f[i - 1]]
  BY <1>1 DEF Freed
<1>6. g \in Seq(Slots) /\ Len(g) = N + 1
  <2>1. \A i \in 1..(N + 1) : (IF i = 1 THEN s ELSE f[i - 1]) \in Slots
    <3>1. \A i \in 1..(N + 1) : i = 1 \/ i - 1 \in 1..N
      BY <1>1
    <3>. QED BY <1>2, <3>1
  <2>2. g \in [1..(N + 1) -> Slots]
    BY <1>5, <2>1
  <2>. HIDE DEF g
  <2>. QED BY <1>1, <2>2
<1>7. 1 \in 1..(N + 1) /\ g[1] = s
  <2>1. 1 \in 1..(N + 1)
    BY <1>1
  <2>. QED BY <1>5, <2>1
<1>8. \A i \in 1..(N + 1) : i # 1 => i - 1 \in 1..N /\ g[i] = f[i - 1]
  BY <1>1, <1>5
<1>. HIDE DEF g
<1>9. ASSUME NEW i \in 1..(N + 1)
      PROVE  n.pool[g[i]].next = IF i = N + 1 THEN NIL ELSE g[i + 1]
  <2>1. CASE i = 1
    <3>1. N # 0 => 1 + 1 \in 1..(N + 1) /\ (1 + 1) - 1 = 1 /\ 1 + 1 # 1
      BY <1>1
    <3>2. N # 0 => g[1 + 1] = f[1]
      BY <1>8, <3>1
    <3>3. i = N + 1 <=> N = 0
      BY <1>1, <2>1
    <3>. QED BY <1>2, <1>7, <2>1, <3>2, <3>3
  <2>2. CASE i # 1
    <3>1. i - 1 \in 1..N /\ g[i] = f[i - 1] /\ (i = N + 1 <=> i - 1 = N)
      BY <1>1, <1>8, <2>2
    <3>2. n.pool[g[i]].next = IF i - 1 = N THEN NIL ELSE f[(i - 1) + 1]
      BY <1>2, <1>4, <3>1
    <3>3. i # N + 1 => i + 1 \in 1..(N + 1) /\ i + 1 # 1 /\ (i + 1) - 1 = (i - 1) + 1
      BY <1>1
    <3>4. i # N + 1 => g[i + 1] = f[(i - 1) + 1]
      BY <1>8, <3>3
    <3>. QED BY <3>1, <3>2, <3>4
  <2>. QED BY <2>1, <2>2
<1>10. ASSUME NEW i \in 1..(N + 1), NEW j \in 1..(N + 1), g[i] = g[j]
       PROVE  i = j
  <2>1. CASE i = 1 \/ j = 1
    BY <1>4, <1>7, <1>8, <1>10, <2>1
  <2>2. CASE i # 1 /\ j # 1
    <3>1. i - 1 = j - 1
      BY <1>2, <1>8, <1>10, <2>2
    <3>. QED BY <3>1
  <2>. QED BY <2>1, <2>2
<1>11. ASSUME NEW x \in Slots
       PROVE  (\E i \in 1..(N + 1) : g[i] = x) <=> x < n.hwm /\ n.pool[x].id = 0
  <2>1. CASE x = s
    BY <1>7, <2>1
  <2>2. CASE x # s
    <3>1. (\E i \in 1..(N + 1) : g[i] = x) => \E i \in 1..N : f[i] = x
      BY <1>7, <1>8, <2>2
    <3>2. ASSUME NEW i \in 1..N, f[i] = x PROVE \E j \in 1..(N + 1) : g[j] = x
      <4>1. i + 1 \in 1..(N + 1) /\ i + 1 # 1 /\ (i + 1) - 1 = i
        BY <1>1
      <4>. QED BY <1>8, <3>2, <4>1
    <3>. QED BY <1>3, <2>2, <3>1, <3>2
  <2>. QED BY <2>1, <2>2
<1>12. ListFrom(n, n.freeHead, g)
  <2>1. N + 1 # 0
    BY <1>1
  <2>. QED BY <1>6, <1>7, <1>9, <1>10, <2>1 DEF ListFrom
<1>13. \A x \in Slots : (\E i \in 1..Len(g) : g[i] = x) <=> x < n.hwm /\ n.pool[x].id = 0
  BY <1>6, <1>11
<1>. QED BY <1>12, <1>13 DEF FreeHolds, g

\* A departure keeps the lists: the order is cut out of the one of its level
\* and its slot is put in front of the free list.
LEMMA LeftHolds ==
    ASSUME NEW b, NEW q, NEW f, Holds(b, q, f), NEW id \in DOMAIN b.idmap, NEW n,
           Left(b, n, id),
           NEW k, PlaceOf(b, q, id, k)
    PROVE  LET o == b.pool[b.idmap[id]]
               t == TickOf(o.price)
           IN  Holds(n, [q EXCEPT ![o.side] = [q[o.side] EXCEPT ![t] = Cut(q[o.side][t], k)]],
                     Freed(f, b.idmap[id]))
<1>. DEFINE s    == b.idmap[id]
            o    == b.pool[s]
            t    == TickOf(o.price)
            side == o.side
            l    == q[side][t]
            z    == [q EXCEPT ![side] = [q[side] EXCEPT ![t] = Cut(l, k)]]
<1>1. /\ b \in Books /\ FreeHolds(b, f) /\ SlotsHold(b)
      /\ q \in [Sides -> [Ticks -> Seq(Slots)]]
      /\ \A d \in Sides, i \in Ticks : LevelHolds(b, d, i, q[d][i])
  BY DEF Holds
<1>2. /\ s \in Slots /\ o.id = id /\ id # 0 /\ t \in Ticks /\ side \in Sides
      /\ RestsAt(b, s, side, t)
  BY OrderIsListed
<1>3. /\ n \in Books /\ n.hwm = b.hwm /\ n.freeHead = s
      /\ n.pool[s].id = 0 /\ n.pool[s].next = b.freeHead
      /\ n.pool[s].filled <= n.pool[s].qty
      /\ Shrunk(b, n, side, t, s)
      /\ \A d \in Sides, i \in Ticks : d # side \/ i # t => n.lane[d][i] = b.lane[d][i]
      /\ n.idmap = Restrict(b.idmap, DOMAIN b.idmap \ {id})
      /\ BestHolds(n)
  BY DEF Left
<1>4. k \in 1..Len(l) /\ l[k] = s /\ LevelHolds(b, side, t, l)
  BY <1>1, <1>2 DEF PlaceOf
<1>5. s < b.hwm /\ TickOf(o.price) = t
  BY <1>2 DEF RestsAt
<1>. HIDE DEF s, o, t, side, l
<1>6. \A x \in Slots \ {s} :
         /\ SameOrder(n, b, x)
         /\ n.pool[x].next = IF x = o.prev THEN o.next ELSE b.pool[x].next
         /\ n.pool[x].prev = IF x = o.next THEN o.prev ELSE b.pool[x].prev
  BY <1>3 DEF Shrunk, o
<1>7. /\ o.next \in Slots => RestsAt(b, o.next, side, t)
      /\ o.prev \in Slots => RestsAt(b, o.prev, side, t)
  <2>1. PICK N \in Nat : N = Len(l)
    <3>1. l \in Seq(Slots)
      BY <1>4 DEF LevelHolds, ListFrom
    <3>. QED BY <3>1
  <2>2. /\ o.next = IF k = N THEN NIL ELSE l[k + 1]
        /\ o.prev = IF k = 1 THEN NIL ELSE l[k - 1]
    BY <1>4, <2>1 DEF LevelHolds, ListFrom, o
  <2>3. (k = N \/ k + 1 \in 1..N) /\ (k = 1 \/ k - 1 \in 1..N)
    BY <1>4, <2>1
  <2>4. \A x \in Slots : (\E i \in 1..N : l[i] = x) => RestsAt(b, x, side, t)
    BY <1>4, <2>1 DEF LevelHolds
  <2>5. NIL \notin Slots
    BY BookConfig DEF NIL, Slots
  <2>. QED BY <2>2, <2>3, <2>4, <2>5
<1>8. \A d \in Sides, i \in Ticks, x \in Slots :
         RestsAt(n, x, d, i) <=> x # s /\ RestsAt(b, x, d, i)
  <2>. TAKE d \in Sides, i \in Ticks, x \in Slots
  <2>1. CASE x = s
    BY <1>3, <2>1 DEF RestsAt
  <2>2. CASE x # s
    <3>1. SameOrder(n, b, x)
      BY <1>6, <2>2
    <3>. QED BY <1>3, <2>2, <3>1 DEF RestsAt, SameOrder
  <2>. QED BY <2>1, <2>2
<1>9. LevelHolds(n, side, t, Cut(l, k))
  BY <1>1, <1>2, <1>3, <1>4, <1>8, LevelShrunk, ZenonT(40)
<1>10. ASSUME NEW d \in Sides, NEW i \in Ticks, d # side \/ i # t
       PROVE  LevelHolds(n, d, i, q[d][i])
  <2>1. ~RestsAt(b, s, d, i)
    BY <1>2, <1>10 DEF RestsAt
  <2>2. \A x \in Slots : RestsAt(n, x, d, i) <=> RestsAt(b, x, d, i)
    BY <1>8, <2>1
  <2>3. ASSUME NEW x \in Slots, RestsAt(b, x, d, i)
        PROVE  SameOrder(n, b, x) /\ n.pool[x].next = b.pool[x].next /\ n.pool[x].prev = b.pool[x].prev
    <3>1. ~RestsAt(b, x, side, t)
      BY <1>10, <2>3 DEF RestsAt
    <3>2. x # s /\ x # o.next /\ x # o.prev
      BY <1>7, <2>1, <2>3, <3>1
    <3>. QED BY <1>6, <3>2
  <2>4. LevelHolds(b, d, i, q[d][i]) /\ n.lane[d][i] = b.lane[d][i]
    BY <1>1, <1>3, <1>10
  <2>. QED BY <1>1, <1>3, <2>2, <2>3, <2>4, LevelUntouched
<1>11. z \in [Sides -> [Ticks -> Seq(Slots)]]
       /\ \A d \in Sides, i \in Ticks : LevelHolds(n, d, i, z[d][i])
  <2>. DEFINE m == Cut(l, k)
  <2>1. m \in Seq(Slots)
    BY <1>4, CutList DEF LevelHolds, ListFrom
  <2>. HIDE DEF m
  <2>2. z \in [Sides -> [Ticks -> Seq(Slots)]]
    BY <1>1, <2>1 DEF m
  <2>3. z[side][t] = m /\ \A d \in Sides, i \in Ticks : d # side \/ i # t => z[d][i] = q[d][i]
    BY <1>1, <1>2 DEF m
  <2>. HIDE DEF z
  <2>. QED BY <1>9, <1>10, <2>2, <2>3 DEF m
<1>. HIDE DEF z
<1>12. FreeHolds(n, Freed(f, s))
  <2>1. b.pool[s].id # 0
    BY <1>2 DEF o
  <2>2. \A x \in Slots \ {s} : n.pool[x].id = b.pool[x].id
    BY <1>6 DEF SameOrder
  <2>3. ASSUME NEW x \in Slots, b.pool[x].id = 0
        PROVE  n.pool[x].next = b.pool[x].next
    <3>1. ~RestsAt(b, x, side, t)
      BY <2>3 DEF RestsAt
    <3>2. x # s /\ x # o.prev
      BY <1>7, <2>1, <2>3, <3>1
    <3>. QED BY <1>6, <3>2
  <2>4. \A x \in Slots : x < b.hwm /\ b.pool[x].id = 0 => n.pool[x].next = b.pool[x].next
    BY <2>3
  <2>5. /\ FreeHolds(b, f) /\ s \in Slots /\ s < b.hwm
        /\ n.hwm = b.hwm /\ n.freeHead = s /\ n.pool[s].id = 0 /\ n.pool[s].next = b.freeHead
    BY <1>1, <1>2, <1>3, <1>5
  <2>. QED BY <2>1, <2>2, <2>4, <2>5, FreeListExtended
<1>13. SlotsHold(n)
  <2>1. DOMAIN n.idmap = DOMAIN b.idmap \ {id} /\ \A i \in DOMAIN n.idmap : n.idmap[i] = b.idmap[i]
    BY <1>3 DEF Restrict
  <2>2. ASSUME NEW x \in Slots, n.pool[x].id # 0
        PROVE  /\ n.pool[x].id \in DOMAIN n.idmap
               /\ n.idmap[n.pool[x].id] = x
               /\ TickOf(n.pool[x].price) \in Ticks
               /\ x < n.hwm
    <3>1. x # s
      BY <1>3, <2>2
    <3>2. n.pool[x].id = b.pool[x].id /\ n.pool[x].price = b.pool[x].price
      BY <1>6, <3>1 DEF SameOrder
    <3>3. /\ b.pool[x].id \in DOMAIN b.idmap /\ b.idmap[b.pool[x].id] = x
          /\ TickOf(b.pool[x].price) \in Ticks /\ x < b.hwm
      BY <1>1, <2>2, <3>2 DEF SlotsHold
    <3>4. b.pool[x].id # id
      BY <3>1, <3>3 DEF s
    <3>. QED BY <1>3, <2>1, <3>2, <3>3, <3>4
  <2>3. ASSUME NEW i \in DOMAIN n.idmap PROVE n.pool[n.idmap[i]].id = i
    <3>1. i \in DOMAIN b.idmap /\ i # id /\ n.idmap[i] = b.idmap[i]
      BY <2>1
    <3>2. b.idmap[i] \in Slots /\ b.pool[b.idmap[i]].id = i
      BY <1>1, <3>1, IdMapTyped DEF SlotsHold
    <3>3. b.idmap[i] # s
      BY <1>2, <3>1, <3>2 DEF o
    <3>. QED BY <1>6, <3>1, <3>2, <3>3 DEF SameOrder
  <2>4. ASSUME NEW x \in Slots PROVE n.pool[x].filled <= n.pool[x].qty
    <3>1. CASE x = s
      BY <1>3, <3>1
    <3>2. CASE x # s
      <4>1. SameOrder(n, b, x) /\ b.pool[x].filled <= b.pool[x].qty
        BY <1>1, <1>6, <3>2 DEF SlotsHold
      <4>. QED BY <4>1 DEF SameOrder
    <3>. QED BY <3>1, <3>2
  <2>. QED BY <2>2, <2>3, <2>4 DEF SlotsHold
<1>14. Holds(n, z, Freed(f, s))
  BY <1>3, <1>11, <1>12, <1>13 DEF Holds
<1>. QED BY <1>14 DEF s, o, t, side, l, z

-----------------------------------------------------------------------------
(* The empty book.                                                         *)

\* No orders at any level.
NoQueues == [side \in Sides |-> [t \in Ticks |-> <<>>]]

\* The empty list.
LEMMA EmptyList ==
    ASSUME NEW b
    PROVE  ListFrom(b, NIL, <<>>)
BY DEF ListFrom

\* Nothing is open in it.
LEMMA EmptyTotal ==
    ASSUME NEW b
    PROVE  OpenQty(b, <<>>) = 0
<1>. DEFINE v == [i \in 1..Len(<<>>) |-> Open(b.pool[<<>>[i]])]
<1>1. v \in Seq(Int) /\ Len(v) = 0
  <2>1. 1..Len(<<>>) = {}
    OBVIOUS
  <2>2. v = <<>>
    BY <2>1
  <2>. QED BY <2>2
<1>2. IsSum(v, [n \in {0} |-> 0])
  <2>1. 0..Len(v) = {0}
    BY <1>1
  <2>. QED BY <2>1 DEF IsSum
<1>. HIDE DEF v
<1>3. Total(v) = 0
  BY <1>1, <1>2, TotalIsSum
<1>. QED BY <1>3 DEF OpenQty, v

\* A new book holds no orders and no freed slot.
LEMMA NewBookHolds == Holds(NewBook, NoQueues, <<>>)
<1>. DEFINE b == NewBook
<1>1. Cap \in Nat \ {0} /\ NIL \notin Slots /\ Sides = {0, 1} /\ NoLevel = NIL
  BY BookConfig DEF NIL, Slots, Sides, BID, ASK, NoLevel
<1>2. /\ b.pool = [s \in Slots |-> ZeroOrder]
      /\ b.lane = [side \in Sides |-> [t \in Ticks |-> EmptyLevel]]
      /\ b.hwm = 0 /\ b.best = [side \in Sides |-> NoLevel]
      /\ b.freeHead = NIL /\ b.idmap = [i \in {} |-> NIL]
  BY DEF NewBook
<1>3. b \in Books
  <2>1. ZeroOrder \in Orders
    BY DEF ZeroOrder, Orders, SlotOrNil, Sides
  <2>2. EmptyLevel \in PriceLevels
    BY DEF EmptyLevel, PriceLevels, SlotOrNil
  <2>3. b.pool \in Pools /\ b.lane \in Lanes /\ b.hwm \in 0..Cap /\ b.best \in Bests
    <3>1. b.pool \in Pools
      BY <1>2, <2>1 DEF Pools
    <3>2. b.lane \in Lanes
      BY <1>2, <2>2 DEF Lanes
    <3>3. b.hwm \in 0..Cap
      BY <1>1, <1>2
    <3>4. b.best \in Bests
      BY <1>2 DEF Bests
    <3>. QED BY <3>1, <3>2, <3>3, <3>4
  <2>4. b.freeHead \in SlotOrNil /\ b.idmap \in IdMaps
    <3>1. b.idmap \in [{} -> Slots] /\ {} \in SUBSET (Nat \ {0})
      BY <1>2
    <3>. QED BY <1>2, <3>1 DEF SlotOrNil, IdMaps
  <2>5. b = [pool |-> b.pool, lane |-> b.lane, hwm |-> b.hwm, best |-> b.best,
             freeHead |-> b.freeHead, idmap |-> b.idmap]
    BY DEF NewBook
  <2>. HIDE DEF b
  <2>. QED BY <2>3, <2>4, <2>5 DEF Books
<1>. HIDE DEF b
<1>4. \A x \in Slots : b.pool[x].id = 0 /\ b.pool[x].filled = 0 /\ b.pool[x].qty = 0
  BY <1>2 DEF ZeroOrder
<1>5. ASSUME NEW side \in Sides, NEW t \in Ticks
      PROVE  LevelHolds(b, side, t, NoQueues[side][t])
  <2>1. NoQueues[side][t] = <<>> /\ b.lane[side][t] = EmptyLevel
    BY <1>2 DEF NoQueues
  <2>2. /\ b.lane[side][t].head = NIL /\ b.lane[side][t].tail = NIL
        /\ b.lane[side][t].qtyTotal = 0 /\ b.lane[side][t].count = 0
    BY <2>1 DEF EmptyLevel
  <2>3. \A x \in Slots : ~RestsAt(b, x, side, t)
    BY <1>4 DEF RestsAt
  <2>4. Len(<<>>) = 0 /\ 1..Len(<<>>) = {}
    OBVIOUS
  <2>5. LevelHolds(b, side, t, <<>>)
    BY <2>2, <2>3, <2>4, EmptyList, EmptyTotal DEF LevelHolds
  <2>. QED BY <2>1, <2>5
<1>6. FreeHolds(b, <<>>)
  <2>1. \A x \in Slots : ~(x < b.hwm)
    BY <1>2 DEF Slots
  <2>2. 1..Len(<<>>) = {}
    OBVIOUS
  <2>. QED BY <1>2, <2>1, <2>2, EmptyList DEF FreeHolds
<1>7. SlotsHold(b)
  BY <1>2, <1>4 DEF SlotsHold
<1>8. BestHolds(b)
  <2>1. \A side \in Sides : Occupied(b, side) = {}
    BY <1>2 DEF Occupied, EmptyLevel
  <2>. QED BY <1>2, <2>1 DEF BestHolds, IsBest
<1>9. NoQueues \in [Sides -> [Ticks -> Seq(Slots)]]
  BY DEF NoQueues
<1>. QED BY <1>3, <1>5, <1>6, <1>7, <1>8, <1>9 DEF Holds, b

-----------------------------------------------------------------------------
(* Reading a book that holds lists.                                        *)

\* The links of a book lead to slots.
LEMMA LinksAreTyped ==
    ASSUME NEW b \in Books
    PROVE  LinksTyped(b)
<1>1. \A s \in Slots : b.pool[s] \in Orders
  BY DEF Books, Pools
<1>. QED BY <1>1 DEF LinksTyped, Orders, SlotOrNil

\* The walks along the links return the lists the book holds.
LEMMA HoldsIsRead ==
    ASSUME NEW b, NEW q, NEW f, Holds(b, q, f)
    PROVE  /\ FreeList(b) = f
           /\ \A side \in Sides, t \in Ticks : QueueOf(b, side, t) = q[side][t]
<1>1. LinksTyped(b)
  BY LinksAreTyped DEF Holds
<1>2. FreeList(b) = f
  BY <1>1, ChainIs DEF Holds, FreeHolds, FreeList
<1>3. ASSUME NEW side \in Sides, NEW t \in Ticks
      PROVE  QueueOf(b, side, t) = q[side][t]
  <2>1. ListFrom(b, b.lane[side][t].head, q[side][t])
    BY DEF Holds, LevelHolds
  <2>. QED BY <1>1, <2>1, ChainIs DEF QueueOf
<1>. QED BY <1>2, <1>3

\* The level of a price is the one it is the price of.
LEMMA TickOfPrice ==
    ASSUME NEW t \in Ticks
    PROVE  PriceOf(t) \in Int /\ TickOf(PriceOf(t)) = t
<1>1. t \in Int /\ TickSize \in Nat \ {0} /\ PriceMin \in Int
  BY BookConfig DEF Ticks
<1>2. t * TickSize \in Int
  BY <1>1
<1>3. (PriceMin + t * TickSize) - PriceMin = t * TickSize
  BY <1>1, <1>2
<1>4. (t * TickSize) \div TickSize = t
  BY <1>1
<1>. QED BY <1>1, <1>2, <1>3, <1>4 DEF PriceOf, TickOf

-----------------------------------------------------------------------------
(* What the operations do to the orders of a book.                         *)

\* An insert writes the order of one slot, which held none.
LEMMA InsertOrders ==
    ASSUME NEW b, NEW q, NEW f, Holds(b, q, f), ~Exhausted(b),
           NEW id \in Nat \ {0}, NEW price \in Int, NEW qty \in Nat, NEW side \in Sides,
           TickOf(price) \in Ticks
    PROVE  LET n == Insert(b, id, price, qty, side)
               s == NextSlot(b)
           IN  /\ s \in Slots /\ b.pool[s].id = 0
               /\ n.pool[s].id = id /\ n.pool[s].price = price
               /\ n.pool[s].qty = qty /\ n.pool[s].filled = 0
               /\ \A x \in Slots \ {s} : SameOrder(n, b, x)
               /\ DOMAIN n.idmap = DOMAIN b.idmap \cup {id}
<1>. DEFINE n == Insert(b, id, price, qty, side)
            s == NextSlot(b)
            t == TickOf(price)
            o == NewOrder(b, id, price, qty, side)
<1>1. s \in Slots /\ b.pool[s].id = 0 /\ \A d \in Sides, i \in Ticks : s # b.lane[d][i].tail
  BY NextSlotIsFree
<1>2. Inserted(b, n, s, t, o)
  BY InsertEffect DEF Holds
<1>3. o.id = id /\ o.price = price /\ o.qty = qty /\ o.filled = 0 /\ o.side = side
  BY DEF NewOrder
<1>4. s # b.lane[o.side][t].tail
  BY <1>1, <1>3
<1>. HIDE DEF n, s, t, o
<1>5. /\ n.pool[s] = o
      /\ \A x \in Slots \ {s} : SameOrder(n, b, x)
      /\ n.idmap = [i \in DOMAIN b.idmap \cup {o.id} |-> IF i = o.id THEN s ELSE b.idmap[i]]
  BY <1>2, <1>4 DEF Inserted
<1>. QED BY <1>1, <1>3, <1>5 DEF n, s

\* A partial fill writes what is filled of one order.
LEMMA UpdateOrders ==
    ASSUME NEW b, NEW q, NEW f, Holds(b, q, f), NEW id \in DOMAIN b.idmap, NEW fillQty \in Nat
    PROVE  LET n    == Update(b, id, fillQty)
               s    == b.idmap[id]
               o    == b.pool[s]
               open == o.qty - o.filled
           IN  /\ n.pool[s].id = o.id /\ n.pool[s].price = o.price /\ n.pool[s].qty = o.qty
               /\ n.pool[s].filled = o.filled + (IF fillQty < open THEN fillQty ELSE open)
               /\ \A x \in Slots \ {s} : SameOrder(n, b, x)
               /\ n.idmap = b.idmap
<1>. DEFINE n    == Update(b, id, fillQty)
            s    == b.idmap[id]
            o    == b.pool[s]
            open == Open(o)
            add  == IF fillQty < open THEN fillQty ELSE open
<1>1. s \in Slots /\ o \in Orders /\ TickOf(o.price) \in Ticks
  BY OrderIsListed
<1>2. b \in Books /\ o.filled <= o.qty
  <2>1. b \in Books /\ SlotsHold(b)
    BY DEF Holds
  <2>. QED BY <1>1, <2>1 DEF SlotsHold
<1>3. Updated(b, n, s, add)
  BY <1>1, <1>2, UpdateEffect
<1>. HIDE DEF n, s, add
<1>4. /\ n.pool[s] = [o EXCEPT !.filled = o.filled + add]
      /\ \A x \in Slots : x # s => n.pool[x] = b.pool[x]
      /\ n.idmap = b.idmap
  BY <1>3 DEF Updated
<1>5. n.pool[s].id = o.id /\ n.pool[s].price = o.price /\ n.pool[s].qty = o.qty
      /\ n.pool[s].filled = o.filled + add
  BY <1>1, <1>4 DEF Orders
<1>6. \A x \in Slots \ {s} : SameOrder(n, b, x)
  BY <1>4 DEF SameOrder
<1>. QED BY <1>4, <1>5, <1>6 DEF n, s, add, Open

-----------------------------------------------------------------------------
(* The book and its unused slots.                                          *)

\* The book holds lists, and slots that were never used are as they were made.
Intact(b) ==
    /\ \E q, f : Holds(b, q, f)
    /\ \A x \in Slots : x >= b.hwm => b.pool[x] = ZeroOrder

\* A book that keeps its lists is typed, its id map exact.
LEMMA IntactBooks ==
    ASSUME NEW b, Intact(b)
    PROVE  b \in Books /\ SlotsHold(b) /\ b.hwm \in 0..Cap
BY DEF Intact, Holds, Books

\* An order whose fields and links did not change is the same order.
LEMMA SameSlot ==
    ASSUME NEW b \in Books, NEW n \in Books, NEW x \in Slots, SameOrder(n, b, x),
           n.pool[x].next = b.pool[x].next, n.pool[x].prev = b.pool[x].prev
    PROVE  n.pool[x] = b.pool[x]
<1>1. n.pool[x] \in Orders /\ b.pool[x] \in Orders
  BY DEF Books, Pools
<1>. QED BY <1>1 DEF Orders, SameOrder

\* An insert takes a slot that was freed or the first unused one, and links it
\* to an order; the unused slots beyond are not touched.
LEMMA InsertIntact ==
    ASSUME NEW b, Intact(b), ~Exhausted(b),
           NEW id \in Nat \ {0}, id \notin DOMAIN b.idmap,
           NEW t \in Ticks, NEW qty \in Nat, NEW side \in Sides
    PROVE  LET n == Insert(b, id, PriceOf(t), qty, side)
           IN  /\ Intact(n)
               /\ DOMAIN n.idmap = DOMAIN b.idmap \cup {id}
               /\ n.hwm = IF b.freeHead = NIL THEN b.hwm + 1 ELSE b.hwm
<1>. DEFINE p == PriceOf(t)
            n == Insert(b, id, p, qty, side)
            s == NextSlot(b)
            o == NewOrder(b, id, p, qty, side)
<1>1. PICK q, f : Holds(b, q, f)
  BY DEF Intact
<1>2. p \in Int /\ TickOf(p) = t
  BY TickOfPrice
<1>. HIDE DEF p
<1>3. /\ s \in Slots /\ b.pool[s].id = 0
      /\ IF b.freeHead # NIL THEN s < b.hwm ELSE s = b.hwm
  BY <1>1, NextSlotIsFree
<1>4. s # b.lane[side][t].tail
  BY <1>1, <1>3, TailsHoldOrders
<1>5. Inserted(b, n, s, t, o) /\ b \in Books
  BY <1>1, <1>2, InsertEffect DEF Holds
<1>6. o.id = id /\ o.side = side
  BY DEF NewOrder
<1>7. \E z, g : Holds(n, z, g)
  BY <1>1, <1>2, InsertHolds
<1>. HIDE DEF n, s, o
<1>8. /\ n \in Books
      /\ n.hwm = IF b.freeHead = NIL THEN b.hwm + 1 ELSE b.hwm
      /\ DOMAIN n.idmap = DOMAIN b.idmap \cup {id}
  BY <1>5, <1>6 DEF Inserted
<1>9. \A x \in Slots \ {s} :
         /\ SameOrder(n, b, x)
         /\ n.pool[x].prev = b.pool[x].prev
         /\ n.pool[x].next = IF x = b.lane[side][t].tail THEN s ELSE b.pool[x].next
  BY <1>4, <1>5, <1>6 DEF Inserted
<1>10. ASSUME NEW x \in Slots, x >= n.hwm PROVE n.pool[x] = ZeroOrder
  <2>1. x # s /\ x >= b.hwm
    <3>1. b.hwm \in Int /\ n.hwm \in Int /\ x \in Int
      BY <1>5, <1>8 DEF Books, Slots
    <3>. QED BY <1>3, <1>8, <1>10, <3>1
  <2>2. b.pool[x] = ZeroOrder
    BY <2>1 DEF Intact
  <2>3. b.pool[x].id = 0
    BY <2>2 DEF ZeroOrder
  <2>4. x # b.lane[side][t].tail
    BY <1>1, <2>3, TailsHoldOrders
  <2>5. n.pool[x] = b.pool[x]
    BY <1>5, <1>8, <1>9, <2>1, <2>4, SameSlot
  <2>. QED BY <2>2, <2>5
<1>. QED BY <1>7, <1>8, <1>10 DEF Intact, n, p

\* The neighbours of an order in its queue are used slots.
LEMMA NeighboursUsed ==
    ASSUME NEW b \in Books, NEW side \in Sides, NEW t \in Ticks, NEW l,
           LevelHolds(b, side, t, l), NEW k \in 1..Len(l)
    PROVE  /\ b.pool[l[k]].prev # NIL => b.pool[l[k]].prev < b.hwm
           /\ b.pool[l[k]].next # NIL => b.pool[l[k]].next < b.hwm
<1>1. l \in Seq(Slots)
  BY DEF LevelHolds, ListFrom
<1>2. \A i \in 1..Len(l) : l[i] < b.hwm
  <2>1. \A i \in 1..Len(l) : l[i] \in Slots
    BY <1>1, ElementOfSeq
  <2>. QED BY <2>1 DEF LevelHolds, RestsAt
<1>3. b.pool[l[k]].prev = IF k = 1 THEN NIL ELSE l[k - 1]
  BY DEF LevelHolds
<1>4. b.pool[l[k]].next = IF k = Len(l) THEN NIL ELSE l[k + 1]
  BY DEF LevelHolds, ListFrom
<1>5. (k # 1 => k - 1 \in 1..Len(l)) /\ (k # Len(l) => k + 1 \in 1..Len(l))
  BY <1>1
<1>. QED BY <1>2, <1>3, <1>4, <1>5

\* An order that leaves is unlinked from its neighbours; unused slots are not
\* touched.
LEMMA LeftIntact ==
    ASSUME NEW b, Intact(b), NEW id \in DOMAIN b.idmap, NEW n,
           n \in {Fill(b, id), Cancel(b, id)}
    PROVE  Intact(n) /\ DOMAIN n.idmap = DOMAIN b.idmap \ {id} /\ n.hwm = b.hwm
<1>. DEFINE s == b.idmap[id]
            o == b.pool[s]
            t == TickOf(o.price)
<1>1. PICK q, f : Holds(b, q, f)
  BY DEF Intact
<1>2. Left(b, n, id)
  BY <1>1, FillLeaves, CancelLeaves
<1>3. PICK k : PlaceOf(b, q, id, k)
  BY <1>1, OrderIsListed
<1>4. \E z, g : Holds(n, z, g)
  BY <1>1, <1>2, <1>3, LeftHolds
<1>5. s \in Slots /\ t \in Ticks /\ o.side \in Sides /\ s < b.hwm
  BY <1>1, OrderIsListed DEF RestsAt
<1>6. (o.prev # NIL => o.prev < b.hwm) /\ (o.next # NIL => o.next < b.hwm)
  <2>1. b \in Books /\ LevelHolds(b, o.side, t, q[o.side][t])
    BY <1>1, <1>5 DEF Holds
  <2>2. k \in 1..Len(q[o.side][t]) /\ q[o.side][t][k] = s
    BY <1>3 DEF PlaceOf
  <2>. HIDE DEF s, t
  <2>. QED BY <1>5, <2>1, <2>2, NeighboursUsed
<1>. HIDE DEF s, o, t
<1>7. /\ n \in Books /\ n.hwm = b.hwm
      /\ n.idmap = Restrict(b.idmap, DOMAIN b.idmap \ {id})
      /\ Shrunk(b, n, o.side, t, s)
  BY <1>2 DEF Left, s, o, t
<1>8. \A x \in Slots \ {s} :
         /\ SameOrder(n, b, x)
         /\ n.pool[x].next = IF x = o.prev THEN o.next ELSE b.pool[x].next
         /\ n.pool[x].prev = IF x = o.next THEN o.prev ELSE b.pool[x].prev
  BY <1>7 DEF Shrunk, o
<1>9. ASSUME NEW x \in Slots, x >= n.hwm PROVE n.pool[x] = ZeroOrder
  <2>0. b \in Books /\ b.hwm \in Int /\ x \in Int /\ x # NIL
    BY <1>1 DEF Holds, Books, Slots, NIL
  <2>1. x # s /\ x >= b.hwm /\ x # o.prev /\ x # o.next
    BY <1>5, <1>6, <1>7, <1>9, <2>0
  <2>2. b.pool[x] = ZeroOrder
    BY <2>1 DEF Intact
  <2>3. n.pool[x] = b.pool[x]
    BY <1>7, <1>8, <2>0, <2>1, SameSlot
  <2>. QED BY <2>2, <2>3
<1>10. DOMAIN n.idmap = DOMAIN b.idmap \ {id}
  BY <1>7 DEF Restrict
<1>. QED BY <1>4, <1>7, <1>9, <1>10 DEF Intact

\* A partial fill keeps the id map and the high-water mark.
LEMMA UpdateIntact ==
    ASSUME NEW b, Intact(b), NEW id \in DOMAIN b.idmap, NEW fillQty \in Nat
    PROVE  LET n == Update(b, id, fillQty)
           IN  Intact(n) /\ n.idmap = b.idmap /\ n.hwm = b.hwm
<1>. DEFINE n   == Update(b, id, fillQty)
            s   == b.idmap[id]
            o   == b.pool[s]
            add == IF fillQty < Open(o) THEN fillQty ELSE Open(o)
<1>1. PICK q, f : Holds(b, q, f)
  BY DEF Intact
<1>2. Holds(n, q, f)
  BY <1>1, UpdateHolds
<1>3. s \in Slots /\ TickOf(o.price) \in Ticks /\ s < b.hwm /\ b \in Books /\ o.filled <= o.qty
  <2>1. b \in Books /\ SlotsHold(b)
    BY <1>1 DEF Holds
  <2>. QED BY <1>1, <2>1, OrderIsListed DEF RestsAt, SlotsHold
<1>4. Updated(b, n, s, add)
  BY <1>3, UpdateEffect
<1>. HIDE DEF n, add
<1>5. n.hwm = b.hwm /\ n.idmap = b.idmap /\ \A x \in Slots : x # s => n.pool[x] = b.pool[x]
  BY <1>4 DEF Updated
<1>6. ASSUME NEW x \in Slots, x >= n.hwm PROVE n.pool[x] = ZeroOrder
  <2>1. b.hwm \in Int /\ x \in Int /\ s \in Int
    BY <1>3 DEF Books, Slots
  <2>2. x # s /\ x >= b.hwm
    BY <1>3, <1>5, <1>6, <2>1
  <2>. QED BY <1>5, <2>2 DEF Intact
<1>. QED BY <1>2, <1>5, <1>6 DEF Intact, n

\* There are finitely many orders: each has a slot of its own.
LEMMA IdsFinite ==
    ASSUME NEW b \in Books, SlotsHold(b)
    PROVE  IsFiniteSet(DOMAIN b.idmap)
<1>1. b.idmap \in Injection(DOMAIN b.idmap, Slots)
  <2>1. b.idmap \in [DOMAIN b.idmap -> Slots]
    BY DEF Books, IdMaps
  <2>2. \A i, j \in DOMAIN b.idmap : b.idmap[i] = b.idmap[j] => i = j
    BY DEF SlotsHold
  <2>. QED BY <2>1, <2>2 DEF Injection, IsInjective
<1>2. IsFiniteSet(Slots)
  BY BookConfig, FS_Interval DEF Slots
<1>. QED BY <1>1, <1>2, FS_Injection

\* A book without a freed slot has an order in every slot it used.
LEMMA FullBook ==
    ASSUME NEW b, Intact(b), b.freeHead = NIL
    PROVE  b.hwm <= Cardinality(DOMAIN b.idmap)
<1>. DEFINE g == [i \in 1..b.hwm |-> b.pool[i - 1].id]
            ids == DOMAIN b.idmap
<1>1. PICK q, f : Holds(b, q, f)
  BY DEF Intact
<1>2. b \in Books /\ SlotsHold(b) /\ b.hwm \in Nat /\ b.hwm <= Cap
  BY IntactBooks
<1>3. f \in Seq(Slots) /\ NIL = IF Len(f) = 0 THEN NIL ELSE f[1]
  BY <1>1 DEF Holds, FreeHolds, ListFrom
<1>4. Len(f) = 0
  <2>1. CASE Len(f) # 0
    <3>1. 1 \in 1..Len(f)
      BY <1>3, <2>1
    <3>2. f[1] \in Slots
      BY <1>3, <3>1, ElementOfSeq
    <3>3. NIL \notin Slots
      BY BookConfig DEF Slots, NIL
    <3>. QED BY <1>3, <2>1, <3>2, <3>3
  <2>. QED BY <2>1
<1>5. \A x \in Slots : x < b.hwm => b.pool[x].id # 0
  <2>1. FreeHolds(b, f)
    BY <1>1 DEF Holds
  <2>. QED BY <1>4, <2>1 DEF FreeHolds
<1>6. \A i \in 1..b.hwm : i - 1 \in Slots /\ i - 1 < b.hwm
  BY <1>2, BookConfig DEF Slots
<1>7. ASSUME NEW i \in 1..b.hwm PROVE g[i] \in ids /\ b.idmap[g[i]] = i - 1
  <2>1. PICK x \in Slots : x = i - 1 /\ x < b.hwm
    BY <1>6
  <2>2. b.pool[x].id \in ids /\ b.idmap[b.pool[x].id] = x
    BY <1>2, <1>5, <2>1 DEF SlotsHold
  <2>3. g[i] = b.pool[x].id
    BY <2>1
  <2>. HIDE DEF g
  <2>. QED BY <2>1, <2>2, <2>3
<1>8. g \in Injection(1..b.hwm, ids)
  <2>1. g \in [1..b.hwm -> ids]
    BY <1>7
  <2>. HIDE DEF g
  <2>2. ASSUME NEW i \in 1..b.hwm, NEW j \in 1..b.hwm, g[i] = g[j] PROVE i = j
    <3>1. i - 1 = j - 1
      BY <1>7, <2>2
    <3>. QED BY <1>2, <3>1
  <2>. QED BY <2>1, <2>2 DEF Injection, IsInjective
<1>. HIDE DEF g
<1>9. IsFiniteSet(ids)
  BY <1>2, IdsFinite
<1>10. Cardinality(1..b.hwm) = b.hwm
  <2>1. PICK h \in Nat : h = b.hwm
    BY <1>2
  <2>2. Cardinality(1..h) = IF 1 > h THEN 0 ELSE h - 1 + 1
    BY FS_Interval, SMTT(30)
  <2>. QED BY <2>1, <2>2
<1>11. Cardinality(1..b.hwm) <= Cardinality(ids)
  BY <1>8, <1>9, FS_Injection
<1>. QED BY <1>10, <1>11

-----------------------------------------------------------------------------
(* The snapshot.                                                           *)

\* A group that fits its counter holds its elements.
LEMMA GroupIs ==
    ASSUME NEW n \in Nat, n <= GroupMax, NEW elems, elems = [i \in 1..n |-> elems[i]]
    PROVE  Group(elems) = elems /\ ~GroupPanics(elems)
<1>1. elems \in Seq({elems[i] : i \in 1..n}) /\ Len(elems) = n
  <2>1. [i \in 1..n |-> elems[i]] \in Seq({elems[i] : i \in 1..n})
    OBVIOUS
  <2>2. Len([i \in 1..n |-> elems[i]]) = n
    OBVIOUS
  <2>. QED BY <2>1, <2>2
<1>2. Wrapped(n) = n
  BY GroupMaxAssumption DEF Wrapped
<1>3. Group(elems) = [i \in 1..n |-> elems[i]]
  BY <1>1, <1>2 DEF Group
<1>4. ~GroupPanics(elems)
  <2>1. CASE n = 0
    <3>1. elems = <<>>
      BY <1>1, <2>1
    <3>. QED BY <3>1 DEF GroupPanics
  <2>2. CASE n # 0
    BY <1>1, <1>2, <2>2 DEF GroupPanics
  <2>. QED BY <2>1, <2>2
<1>. QED BY <1>3, <1>4

\* Of one hit the last is it.
LEMMA MaxOne ==
    ASSUME NEW k \in Int
    PROVE  Max({k}) = k
<1>1. \E x \in {k} : \A y \in {k} : x >= y
  OBVIOUS
<1>. QED BY <1>1 DEF Max

\* The k-th smallest element of a set of numbers.
Nth(P, k) == CHOOSE p \in P : Cardinality({i \in P : i < p}) = k - 1

\* Counting the elements of a finite set of numbers from the smallest up
\* reaches each of them once.
LEMMA NthEnumerates ==
    ASSUME NEW P \in SUBSET Int, IsFiniteSet(P)
    PROVE  /\ Cardinality(P) \in Nat
           /\ \A k \in 1..Cardinality(P) : Nth(P, k) \in P
           /\ \A p \in P : \E k \in 1..Cardinality(P) : Nth(P, k) = p
           /\ \A j, k \in 1..Cardinality(P) : Nth(P, j) = Nth(P, k) => j = k
           /\ \A j, k \in 1..Cardinality(P) : j < k => Nth(P, j) < Nth(P, k)
<1>. DEFINE c == Cardinality(P)
            below(p) == {i \in P : i < p}
            rank == [p \in P |-> Cardinality(below(p)) + 1]
<1>1. c \in Nat
  BY FS_CardinalityType
<1>2. \A p \in P : IsFiniteSet(below(p)) /\ Cardinality(below(p)) \in Nat
  <2>1. \A p \in P : below(p) \in SUBSET P
    OBVIOUS
  <2>. HIDE DEF below
  <2>. QED BY <2>1, FS_Subset, FS_CardinalityType
<1>3. ASSUME NEW S, IsFiniteSet(S), NEW T \in SUBSET S, T # S
      PROVE  Cardinality(T) < Cardinality(S)
  <2>1. IsFiniteSet(T) /\ Cardinality(T) <= Cardinality(S) /\ Cardinality(S) # Cardinality(T)
    BY <1>3, FS_Subset
  <2>2. Cardinality(T) \in Nat /\ Cardinality(S) \in Nat
    BY <1>3, <2>1, FS_CardinalityType
  <2>. QED BY <2>1, <2>2
<1>4. \A p \in P : rank[p] \in 1..c
  <2>1. ASSUME NEW p \in P PROVE Cardinality(below(p)) < c
    <3>1. below(p) \in SUBSET P /\ p \notin below(p)
      OBVIOUS
    <3>. HIDE DEF below
    <3>. QED BY <1>3, <3>1
  <2>. HIDE DEF below, c
  <2>. QED BY <1>1, <1>2, <2>1
<1>5. \A p, r \in P : p < r => rank[p] < rank[r]
  <2>1. ASSUME NEW p \in P, NEW r \in P, p < r PROVE Cardinality(below(p)) < Cardinality(below(r))
    <3>0. \A i \in P : i \in Int
      OBVIOUS
    <3>1. below(p) \in SUBSET below(r)
      <4>1. ASSUME NEW i \in P, i < p PROVE i < r
        BY <2>1, <3>0, <4>1
      <4>. QED BY <4>1
    <3>2. p \in below(r) /\ p \notin below(p)
      BY <2>1, <3>0
    <3>. HIDE DEF below
    <3>. QED BY <1>2, <1>3, <3>1, <3>2
  <2>. HIDE DEF below
  <2>. QED BY <1>2, <2>1
<1>6. rank \in Injection(P, 1..c)
  <2>1. rank \in [P -> 1..c]
    BY <1>4
  <2>. HIDE DEF rank, c
  <2>2. \A p, r \in P : rank[p] = rank[r] => p = r
    <3>1. \A p \in P : p \in Int /\ rank[p] \in Int
      BY <1>1, <2>1
    <3>. QED BY <1>5, <3>1
  <2>. QED BY <2>1, <2>2 DEF Injection, IsInjective
<1>7. IsFiniteSet(1..c) /\ Cardinality(1..c) = c
  <2>. HIDE DEF c
  <2>. QED BY <1>1, FS_Interval
<1>8. rank \in Surjection(P, 1..c)
  <2>. HIDE DEF rank
  <2>1. rank \in Surjection(P, 1..c) <=> Cardinality(P) = Cardinality(1..c)
    BY <1>6, <1>7, FS_Injection
  <2>. QED BY <1>7, <2>1
<1>9. \A k \in 1..c : \E p \in P : rank[p] = k
  <2>. HIDE DEF rank, c
  <2>. QED BY <1>8 DEF Surjection
<1>10. \A k \in 1..c : Nth(P, k) \in P /\ rank[Nth(P, k)] = k
  <2>1. ASSUME NEW k \in 1..c PROVE \E p \in P : Cardinality({i \in P : i < p}) = k - 1
    <3>1. PICK p \in P : rank[p] = k
      BY <1>9
    <3>2. Cardinality(below(p)) \in Nat /\ Cardinality(below(p)) + 1 = k
      BY <1>2, <3>1
    <3>3. Cardinality(below(p)) = k - 1
      <4>. HIDE DEF below, c
      <4>. QED BY <3>2
    <3>. QED BY <3>3
  <2>2. ASSUME NEW k \in 1..c
        PROVE  Nth(P, k) \in P /\ Cardinality(below(Nth(P, k))) = k - 1
    <3>. HIDE DEF c
    <3>. QED BY <2>1 DEF Nth
  <2>. HIDE DEF below, c
  <2>3. \A k \in 1..c : k \in Int
    BY <1>1
  <2>. QED BY <2>2, <2>3
<1>11. \A p \in P : Nth(P, rank[p]) = p /\ rank[p] \in 1..c
  <2>1. ASSUME NEW p \in P PROVE Nth(P, rank[p]) = p
    <3>. HIDE DEF rank, c
    <3>1. Nth(P, rank[p]) \in P /\ rank[Nth(P, rank[p])] = rank[p]
      BY <1>4, <1>10
    <3>. QED BY <1>6, <3>1 DEF Injection, IsInjective
  <2>. QED BY <1>4, <2>1
<1>12. ASSUME NEW j \in 1..c, NEW k \in 1..c, j < k PROVE Nth(P, j) < Nth(P, k)
  <2>1. Nth(P, j) \in P /\ Nth(P, k) \in P /\ rank[Nth(P, j)] = j /\ rank[Nth(P, k)] = k
    BY <1>10
  <2>. HIDE DEF rank, c
  <2>2. Nth(P, j) \in Int /\ Nth(P, k) \in Int /\ j \in Int /\ k \in Int
    <3>1. \A p \in P : p \in Int
      OBVIOUS
    <3>2. j \in Int /\ k \in Int
      BY <1>1
    <3>. QED BY <2>1, <3>1, <3>2
  <2>3. Nth(P, k) < Nth(P, j) => k < j
    BY <1>5, <2>1
  <2>4. Nth(P, k) # Nth(P, j)
    BY <1>12, <2>1, <2>2
  <2>. QED BY <1>12, <2>2, <2>3, <2>4
<1>. HIDE DEF rank
<1>. QED BY <1>1, <1>10, <1>11, <1>12

\* Numbers below a divisor, and as far above it, and their remainders.
LEMMA Remainder ==
    ASSUME NEW d \in Nat \ {0}, NEW r \in 0..(d - 1)
    PROVE  r % d = r /\ (d + r) % d = r
OBVIOUS

\* The place of a level among the elements of the levels group.
LevelPlace(side, t) == IF side = BID THEN t + 1 ELSE Levels + t + 1

\* Each level is at its place and at no other.
LEMMA LevelAtPlace ==
    ASSUME NEW b
    PROVE  /\ \A side \in Sides, t \in Ticks :
                 /\ LevelPlace(side, t) \in 1..(2 * Levels)
                 /\ LevelAt(b, LevelPlace(side, t)) =
                       [side |-> side, tick |-> t, level |-> b.lane[side][t]]
           /\ \A p \in 1..(2 * Levels) :
                 /\ LevelAt(b, p).side \in Sides /\ LevelAt(b, p).tick \in Ticks
                 /\ p = LevelPlace(LevelAt(b, p).side, LevelAt(b, p).tick)
<1>0. Levels \in Nat \ {0} /\ BID # ASK
  BY BookConfig DEF BID, ASK
<1>3. \A p \in 1..(2 * Levels) : p <= Levels =>
         LevelAt(b, p) = [side |-> BID, tick |-> (p - 1) % Levels, level |-> b.lane[BID][(p - 1) % Levels]]
  BY DEF LevelAt
<1>4. \A p \in 1..(2 * Levels) : ~(p <= Levels) =>
         LevelAt(b, p) = [side |-> ASK, tick |-> (p - 1) % Levels, level |-> b.lane[ASK][(p - 1) % Levels]]
  BY DEF LevelAt
<1>1. ASSUME NEW side \in Sides, NEW t \in Ticks
      PROVE  /\ LevelPlace(side, t) \in 1..(2 * Levels)
             /\ LevelAt(b, LevelPlace(side, t)) =
                   [side |-> side, tick |-> t, level |-> b.lane[side][t]]
  <2>. DEFINE p == LevelPlace(side, t)
  <2>1. t \in 0..(Levels - 1) /\ t \in Nat
    BY DEF Ticks
  <2>2. CASE side = BID
    <3>1. p = t + 1
      BY <2>2 DEF LevelPlace
    <3>. HIDE DEF p
    <3>2. p \in 1..(2 * Levels) /\ p <= Levels /\ p - 1 = t
      BY <1>0, <2>1, <3>1
    <3>3. (p - 1) % Levels = t
      BY <1>0, <2>1, <3>2, Remainder
    <3>4. LevelAt(b, p) = [side |-> BID, tick |-> t, level |-> b.lane[BID][t]]
      BY <3>2, <3>3, <1>3
    <3>. QED BY <2>2, <3>2, <3>4 DEF p
  <2>3. CASE side # BID
    <3>1. side = ASK /\ p = Levels + t + 1
      BY <2>3 DEF Sides, LevelPlace
    <3>. HIDE DEF p
    <3>2. p \in 1..(2 * Levels) /\ ~(p <= Levels) /\ p - 1 = Levels + t
      BY <1>0, <2>1, <3>1
    <3>3. (p - 1) % Levels = t
      BY <1>0, <2>1, <3>2, Remainder
    <3>4. LevelAt(b, p) = [side |-> ASK, tick |-> t, level |-> b.lane[ASK][t]]
      BY <3>2, <3>3, <1>4
    <3>. QED BY <3>1, <3>2, <3>4 DEF p
  <2>. QED BY <2>2, <2>3
<1>2. ASSUME NEW p \in 1..(2 * Levels)
      PROVE  /\ LevelAt(b, p).side \in Sides /\ LevelAt(b, p).tick \in Ticks
             /\ p = LevelPlace(LevelAt(b, p).side, LevelAt(b, p).tick)
  <2>1. LevelAt(b, p).side = (IF p <= Levels THEN BID ELSE ASK) /\ LevelAt(b, p).tick = (p - 1) % Levels
    BY DEF LevelAt
  <2>2. CASE p <= Levels
    <3>1. p - 1 \in 0..(Levels - 1)
      BY <1>0, <2>2
    <3>2. (p - 1) % Levels = p - 1
      BY <1>0, <3>1, Remainder
    <3>. QED BY <1>0, <2>1, <2>2, <3>1, <3>2 DEF Sides, Ticks, LevelPlace
  <2>3. CASE ~(p <= Levels)
    <3>1. p - 1 - Levels \in 0..(Levels - 1) /\ p - 1 = Levels + (p - 1 - Levels)
      BY <1>0, <2>3
    <3>2. (p - 1) % Levels = p - 1 - Levels
      BY <1>0, <3>1, Remainder
    <3>3. Levels + (p - 1 - Levels) + 1 = p
      BY <1>0
    <3>. QED BY <1>0, <2>1, <2>3, <3>1, <3>2, <3>3 DEF Sides, Ticks, LevelPlace
  <2>. QED BY <2>2, <2>3
<1>. QED BY <1>1, <1>2

\* The places of the occupied levels.
Places(b) == {p \in 1..(2 * Levels) : LevelAt(b, p).level.head # NIL}

\* The elements of the levels group are the occupied levels, each once.
LEMMA LevelElemsAre ==
    ASSUME NEW b
    PROVE  LET c == Cardinality(Places(b))
           IN  /\ c \in Nat
               /\ LevelElems(b) = [k \in 1..c |-> LevelAt(b, Nth(Places(b), k))]
               /\ \A k \in 1..c : Nth(Places(b), k) \in Places(b)
               /\ \A p \in Places(b) : \E k \in 1..c : Nth(Places(b), k) = p
               /\ \A j, k \in 1..c : Nth(Places(b), j) = Nth(Places(b), k) => j = k
<1>1. Places(b) \in SUBSET Int /\ IsFiniteSet(Places(b))
  <2>1. 2 * Levels \in Nat
    BY BookConfig
  <2>2. Places(b) \in SUBSET (1..(2 * Levels))
    BY DEF Places
  <2>3. IsFiniteSet(1..(2 * Levels))
    BY <2>1, FS_Interval
  <2>4. \A p \in 1..(2 * Levels) : p \in Int
    BY <2>1
  <2>5. IsFiniteSet(Places(b))
    BY <2>2, <2>3, FS_Subset
  <2>. QED BY <2>2, <2>4, <2>5
<1>2. LevelElems(b) = [k \in 1..Cardinality(Places(b)) |-> LevelAt(b, Nth(Places(b), k))]
  BY Zenon DEF LevelElems, Places, Nth
<1>. QED BY <1>1, <1>2, NthEnumerates

\* The head of an occupied level is an order that rests there.
LEMMA HeadRests ==
    ASSUME NEW b, NEW q, NEW f, Holds(b, q, f), NEW side \in Sides, NEW t \in Ticks,
           b.lane[side][t].head # NIL
    PROVE  b.lane[side][t].head \in Slots /\ RestsAt(b, b.lane[side][t].head, side, t)
<1>. DEFINE l == q[side][t]
<1>1. LevelHolds(b, side, t, l)
  BY DEF Holds
<1>2. l \in Seq(Slots) /\ Len(l) # 0 /\ b.lane[side][t].head = l[1]
  BY <1>1 DEF LevelHolds, ListFrom
<1>3. 1 \in 1..Len(l) /\ l[1] \in Slots
  BY <1>2
<1>. QED BY <1>1, <1>2, <1>3 DEF LevelHolds

\* There are no more occupied levels than used slots.
LEMMA LevelsFit ==
    ASSUME NEW b, Intact(b)
    PROVE  Len(LevelElems(b)) \in Nat /\ Len(LevelElems(b)) <= b.hwm
<1>. DEFINE P == Places(b)
            c == Cardinality(P)
            g == [k \in 1..c |-> LevelAt(b, Nth(P, k)).level.head]
<1>1. /\ c \in Nat
      /\ LevelElems(b) = [k \in 1..c |-> LevelAt(b, Nth(P, k))]
      /\ \A k \in 1..c : Nth(P, k) \in P
      /\ \A j, k \in 1..c : Nth(P, j) = Nth(P, k) => j = k
  BY LevelElemsAre
<1>2. PICK q, f : Holds(b, q, f)
  BY DEF Intact
<1>3. \A p \in P : /\ LevelAt(b, p).level.head \in Slots
                   /\ RestsAt(b, LevelAt(b, p).level.head, LevelAt(b, p).side, LevelAt(b, p).tick)
                   /\ p = LevelPlace(LevelAt(b, p).side, LevelAt(b, p).tick)
  <2>. SUFFICES ASSUME NEW p \in P
                PROVE  /\ LevelAt(b, p).level.head \in Slots
                       /\ RestsAt(b, LevelAt(b, p).level.head, LevelAt(b, p).side, LevelAt(b, p).tick)
                       /\ p = LevelPlace(LevelAt(b, p).side, LevelAt(b, p).tick)
    OBVIOUS
  <2>. DEFINE e == LevelAt(b, p)
  <2>1. p \in 1..(2 * Levels) /\ e.level.head # NIL
    BY DEF Places
  <2>2. e.side \in Sides /\ e.tick \in Ticks /\ p = LevelPlace(e.side, e.tick)
    BY <2>1, LevelAtPlace
  <2>3. e = LevelAt(b, LevelPlace(e.side, e.tick))
    BY <2>2
  <2>. HIDE DEF e
  <2>4. e.level = b.lane[e.side][e.tick]
    <3>1. LevelAt(b, LevelPlace(e.side, e.tick)) =
             [side |-> e.side, tick |-> e.tick, level |-> b.lane[e.side][e.tick]]
      BY <2>2, LevelAtPlace
    <3>. QED BY <2>3, <3>1
  <2>5. e.level.head \in Slots /\ RestsAt(b, e.level.head, e.side, e.tick)
    BY <1>2, <2>1, <2>2, <2>4, HeadRests
  <2>. QED BY <2>2, <2>5 DEF e
<1>. HIDE DEF P, c
<1>0. b.hwm \in Nat
  BY IntactBooks
<1>4. \A k \in 1..c : g[k] \in 0..(b.hwm - 1)
  <2>1. \A k \in 1..c : g[k] \in Slots /\ g[k] < b.hwm
    BY <1>1, <1>3 DEF RestsAt
  <2>. QED BY <1>0, <2>1 DEF Slots
<1>5. ASSUME NEW j \in 1..c, NEW k \in 1..c, g[j] = g[k] PROVE j = k
  <2>1. /\ Nth(P, j) \in P /\ Nth(P, k) \in P
        /\ g[j] = LevelAt(b, Nth(P, j)).level.head /\ g[k] = LevelAt(b, Nth(P, k)).level.head
    BY <1>1
  <2>. HIDE DEF g
  <2>2. LevelAt(b, Nth(P, j)).side = LevelAt(b, Nth(P, k)).side /\ LevelAt(b, Nth(P, j)).tick = LevelAt(b, Nth(P, k)).tick
    BY <1>3, <1>5, <2>1 DEF RestsAt
  <2>3. Nth(P, j) = Nth(P, k)
    BY <1>3, <2>1, <2>2
  <2>. QED BY <1>1, <2>3
<1>6. g \in Injection(1..c, 0..(b.hwm - 1))
  <2>1. g \in [1..c -> 0..(b.hwm - 1)]
    BY <1>4
  <2>. HIDE DEF g
  <2>. QED BY <1>5, <2>1 DEF Injection, IsInjective
<1>. HIDE DEF g
<1>7. IsFiniteSet(0..(b.hwm - 1)) /\ Cardinality(0..(b.hwm - 1)) = b.hwm /\ Cardinality(1..c) = c
  <2>. DEFINE last == b.hwm - 1
  <2>0. last \in Int /\ 0 \in Int
    BY <1>0
  <2>1. IsFiniteSet(0..last) /\ Cardinality(0..last) = IF 0 > last THEN 0 ELSE last - 0 + 1
    <3>. HIDE DEF last
    <3>. QED BY <2>0, FS_Interval
  <2>2. Cardinality(1..c) = IF 1 > c THEN 0 ELSE c - 1 + 1
    BY <1>1, FS_Interval
  <2>. QED BY <1>0, <1>1, <2>1, <2>2
<1>8. c <= b.hwm
  BY <1>6, <1>7, FS_Injection
<1>9. Len(LevelElems(b)) = c
  BY <1>1
<1>. QED BY <1>1, <1>8, <1>9

\* An empty level is as it was made.
LEMMA EmptyLevelIs ==
    ASSUME NEW b, NEW q, NEW f, Holds(b, q, f), NEW side \in Sides, NEW t \in Ticks,
           b.lane[side][t].head = NIL
    PROVE  b.lane[side][t] = EmptyLevel
<1>. DEFINE l == q[side][t]
            old == b.lane[side][t]
<1>1. LevelHolds(b, side, t, l)
  BY DEF Holds
<1>2. l \in Seq(Slots) /\ old.head = IF Len(l) = 0 THEN NIL ELSE l[1]
  BY <1>1 DEF LevelHolds, ListFrom
<1>3. Len(l) = 0
  <2>1. CASE Len(l) # 0
    <3>1. 1 \in 1..Len(l)
      BY <1>2, <2>1
    <3>2. l[1] \in Slots
      BY <1>2, <3>1, ElementOfSeq
    <3>3. NIL \notin Slots
      BY BookConfig DEF Slots, NIL
    <3>. QED BY <1>2, <2>1, <3>2, <3>3
  <2>. QED BY <2>1
<1>4. l = <<>>
  BY <1>2, <1>3
<1>5. old.tail = NIL /\ old.count = 0 /\ old.qtyTotal = 0
  <2>1. OpenQty(b, l) = 0
    BY <1>4, EmptyTotal
  <2>. QED BY <1>1, <1>3, <2>1 DEF LevelHolds
<1>6. old \in PriceLevels
  BY DEF Holds, Books, Lanes
<1>. HIDE DEF old
<1>7. old = EmptyLevel
  <2>1. old.head = NIL
    BY DEF old
  <2>. QED BY <1>5, <1>6, <2>1 DEF PriceLevels, EmptyLevel
<1>. QED BY <1>7 DEF old

\* The groups of the book fit their counters.
GroupsFit(b) == Len(OrderElems(b)) <= GroupMax /\ Len(LevelElems(b)) <= GroupMax

\* Then the groups of its image are its elements, and encode does not panic.
LEMMA ImageIs ==
    ASSUME NEW b, Intact(b), GroupsFit(b)
    PROVE  /\ ~EncodePanics(b)
           /\ Encode(b) = [hwm |-> b.hwm, best |-> b.best, freeHead |-> b.freeHead,
                           levels |-> LevelElems(b), orders |-> OrderElems(b)]
<1>1. b.hwm \in Nat
  BY IntactBooks
<1>2. Group(OrderElems(b)) = OrderElems(b) /\ ~GroupPanics(OrderElems(b))
  <2>1. /\ OrderElems(b) = [i \in 1..b.hwm |-> OrderElems(b)[i]]
        /\ Len(OrderElems(b)) = b.hwm
    BY <1>1 DEF OrderElems
  <2>2. b.hwm <= GroupMax
    BY <2>1 DEF GroupsFit
  <2>. QED BY <1>1, <2>1, <2>2, GroupIs
<1>3. Group(LevelElems(b)) = LevelElems(b) /\ ~GroupPanics(LevelElems(b))
  <2>. DEFINE c == Cardinality(Places(b))
  <2>1. c \in Nat /\ LevelElems(b) = [k \in 1..c |-> LevelAt(b, Nth(Places(b), k))]
    BY LevelElemsAre
  <2>. HIDE DEF c
  <2>2. LevelElems(b) = [k \in 1..c |-> LevelElems(b)[k]] /\ Len(LevelElems(b)) = c
    BY <2>1
  <2>3. c <= GroupMax
    BY <2>2 DEF GroupsFit
  <2>. QED BY <2>1, <2>2, <2>3, GroupIs
<1>. QED BY <1>2, <1>3 DEF EncodePanics, Encode

\* The element of a used slot.
LEMMA OrderElemIs ==
    ASSUME NEW b, b.hwm \in Nat
    PROVE  /\ DOMAIN OrderElems(b) = 1..b.hwm
           /\ \A i \in 1..b.hwm : /\ OrderElems(b)[i].slot = i - 1
                                  /\ OrderElems(b)[i].order = b.pool[OrderElems(b)[i].slot]
           /\ \A s \in 0..(b.hwm - 1) : /\ s + 1 \in 1..b.hwm
                                        /\ OrderElems(b)[s + 1].slot = s
<1>1. DOMAIN OrderElems(b) = 1..b.hwm
  BY DEF OrderElems
<1>2. \A i \in 1..b.hwm : OrderElems(b)[i] = [slot |-> i - 1, order |-> b.pool[i - 1]]
  BY DEF OrderElems
<1>3. \A i \in 1..b.hwm : /\ OrderElems(b)[i].slot = i - 1
                          /\ OrderElems(b)[i].order = b.pool[OrderElems(b)[i].slot]
  <2>. SUFFICES ASSUME NEW i \in 1..b.hwm
                PROVE  /\ OrderElems(b)[i].slot = i - 1
                       /\ OrderElems(b)[i].order = b.pool[OrderElems(b)[i].slot]
    OBVIOUS
  <2>1. PICK x : x = i - 1
    OBVIOUS
  <2>2. OrderElems(b)[i] = [slot |-> x, order |-> b.pool[x]]
    BY <1>2, <2>1, Zenon
  <2>. QED BY <2>1, <2>2
<1>4. ASSUME NEW s \in 0..(b.hwm - 1)
      PROVE  s + 1 \in 1..b.hwm /\ OrderElems(b)[s + 1].slot = s
  <2>1. s + 1 \in 1..b.hwm /\ s + 1 - 1 = s
    OBVIOUS
  <2>2. OrderElems(b)[s + 1].slot = s + 1 - 1
    BY <1>3, <2>1
  <2>. QED BY <2>1, <2>2
<1>. QED BY <1>1, <1>3, <1>4

\* Each used slot is restored from its element, the others are new.
LEMMA SlotRestored ==
    ASSUME NEW b, Intact(b), NEW img, img.orders = OrderElems(b), NEW s \in Slots
    PROVE  RestoreSlot(img, s) = b.pool[s]
<1>. DEFINE hits == {i \in DOMAIN img.orders : img.orders[i].slot = s}
<1>1. b.hwm \in Nat /\ b.hwm \in 0..Cap /\ s \in Nat
  BY IntactBooks DEF Slots
<1>2. /\ DOMAIN img.orders = 1..b.hwm
      /\ \A i \in 1..b.hwm : /\ img.orders[i].slot = i - 1
                             /\ img.orders[i].order = b.pool[img.orders[i].slot]
      /\ \A x \in 0..(b.hwm - 1) : x + 1 \in 1..b.hwm /\ img.orders[x + 1].slot = x
  BY <1>1, OrderElemIs
<1>3. RestoreSlot(img, s) = IF hits = {} THEN ZeroOrder ELSE img.orders[Max(hits)].order
  BY DEF RestoreSlot, LastWhere
<1>4. \A i \in 1..b.hwm : img.orders[i].slot = s <=> i = s + 1
  BY <1>1, <1>2
<1>5. hits = {i \in 1..b.hwm : i = s + 1}
  BY <1>2, <1>4
<1>. HIDE DEF hits
<1>6. CASE s < b.hwm
  <2>1. s \in 0..(b.hwm - 1)
    BY <1>1, <1>6
  <2>2. hits = {s + 1}
    BY <1>2, <1>5, <2>1
  <2>3. Max(hits) = s + 1
    BY <1>1, <2>2, MaxOne
  <2>4. img.orders[s + 1].order = b.pool[s]
    BY <1>2, <2>1
  <2>. QED BY <1>3, <2>2, <2>3, <2>4
<1>7. CASE ~(s < b.hwm)
  <2>1. hits = {}
    BY <1>1, <1>5, <1>7
  <2>2. b.pool[s] = ZeroOrder
    BY <1>1, <1>7 DEF Intact
  <2>. QED BY <1>3, <2>1, <2>2
<1>. QED BY <1>6, <1>7

\* Each occupied level is restored from its element, the others are new.
LEMMA LevelRestored ==
    ASSUME NEW b, Intact(b), NEW img, img.levels = LevelElems(b), NEW side \in Sides, NEW t \in Ticks
    PROVE  RestoreLevel(img, side, t) = b.lane[side][t]
<1>. DEFINE P == Places(b)
            c == Cardinality(P)
            place == LevelPlace(side, t)
            hits == {k \in DOMAIN img.levels : img.levels[k].side = side /\ img.levels[k].tick = t}
<1>1. /\ c \in Nat
      /\ LevelElems(b) = [k \in 1..c |-> LevelAt(b, Nth(P, k))]
      /\ \A k \in 1..c : Nth(P, k) \in P
      /\ \A p \in P : \E k \in 1..c : Nth(P, k) = p
      /\ \A j, k \in 1..c : Nth(P, j) = Nth(P, k) => j = k
  BY LevelElemsAre
<1>2. /\ place \in 1..(2 * Levels)
      /\ LevelAt(b, place) = [side |-> side, tick |-> t, level |-> b.lane[side][t]]
      /\ \A p \in 1..(2 * Levels) : LevelAt(b, p).side = side /\ LevelAt(b, p).tick = t => p = place
  BY LevelAtPlace
<1>3. RestoreLevel(img, side, t) = IF hits = {} THEN EmptyLevel ELSE img.levels[Max(hits)].level
  BY DEF RestoreLevel, LastWhere
<1>4. place \in P <=> b.lane[side][t].head # NIL
  <2>. HIDE DEF place
  <2>. QED BY <1>2 DEF Places
<1>5. \A p \in P : p \in 1..(2 * Levels)
  BY DEF Places
<1>6. DOMAIN img.levels = 1..c /\ \A k \in 1..c : img.levels[k] = LevelAt(b, Nth(P, k))
  <2>. HIDE DEF P, c
  <2>. QED BY <1>1
<1>. HIDE DEF P, c, place
<1>7. \A k \in 1..c : img.levels[k].side = side /\ img.levels[k].tick = t <=> Nth(P, k) = place
  <2>1. LevelAt(b, place).side = side /\ LevelAt(b, place).tick = t
    BY <1>2
  <2>. QED BY <1>1, <1>2, <1>5, <1>6, <2>1
<1>8. hits = {k \in 1..c : Nth(P, k) = place}
  BY <1>6, <1>7
<1>. HIDE DEF hits
<1>9. CASE place \in P
  <2>1. PICK k \in 1..c : Nth(P, k) = place
    BY <1>1, <1>9
  <2>2. hits = {k}
    BY <1>1, <1>8, <2>1
  <2>3. Max(hits) = k
    BY <2>2, MaxOne
  <2>4. img.levels[k].level = b.lane[side][t]
    BY <1>2, <1>6, <2>1
  <2>. QED BY <1>3, <2>2, <2>3, <2>4
<1>10. CASE place \notin P
  <2>1. hits = {}
    BY <1>1, <1>8, <1>10
  <2>2. b.lane[side][t] = EmptyLevel
    BY <1>4, <1>10, EmptyLevelIs DEF Intact
  <2>. QED BY <1>3, <2>1, <2>2
<1>. QED BY <1>9, <1>10

\* The id map is rebuilt as it was.
LEMMA IdsRestored ==
    ASSUME NEW b, Intact(b), NEW img, img.orders = OrderElems(b)
    PROVE  RestoreIds(img) = b.idmap
<1>. DEFINE ids == {img.orders[i].order.id : i \in DOMAIN img.orders} \ {0}
            hits(id) == {i \in DOMAIN img.orders : img.orders[i].order.id = id}
<1>0. b \in Books /\ SlotsHold(b) /\ b.hwm \in Nat /\ b.hwm <= Cap
  BY IntactBooks
<1>1. /\ DOMAIN img.orders = 1..b.hwm
      /\ \A i \in 1..b.hwm : /\ img.orders[i].slot = i - 1
                             /\ img.orders[i].order = b.pool[img.orders[i].slot]
      /\ \A x \in 0..(b.hwm - 1) : x + 1 \in 1..b.hwm /\ img.orders[x + 1].slot = x
  BY <1>0, OrderElemIs
<1>2. \A i \in 1..b.hwm : img.orders[i].slot \in Slots
  <2>1. \A i \in 1..b.hwm : i - 1 \in Slots
    BY <1>0, BookConfig DEF Slots
  <2>. QED BY <1>1, <2>1
<1>3. ASSUME NEW id \in DOMAIN b.idmap
      PROVE  /\ id \in ids
             /\ b.idmap[id] \in Int
             /\ hits(id) = {b.idmap[id] + 1}
             /\ img.orders[b.idmap[id] + 1].slot = b.idmap[id]
  <2>. DEFINE s == b.idmap[id]
  <2>1. s \in Slots /\ id # 0 /\ b.pool[s].id = id
    BY <1>0, IdMapTyped DEF SlotsHold
  <2>2. s < b.hwm /\ s \in Nat
    BY <1>0, <2>1 DEF SlotsHold, Slots
  <2>. HIDE DEF s
  <2>3. s \in 0..(b.hwm - 1)
    BY <1>0, <2>2
  <2>4. s + 1 \in 1..b.hwm /\ img.orders[s + 1].slot = s /\ img.orders[s + 1].order = b.pool[s]
    BY <1>1, <2>3
  <2>5. ASSUME NEW i \in 1..b.hwm, img.orders[i].order.id = id PROVE i = s + 1
    <3>1. b.pool[img.orders[i].slot].id = id /\ img.orders[i].slot \in Slots
      BY <1>1, <1>2, <2>5
    <3>2. img.orders[i].slot = s
      BY <1>0, <2>1, <3>1 DEF SlotsHold, s
    <3>3. i - 1 = s
      BY <1>1, <3>2
    <3>. QED BY <2>2, <3>3
  <2>6. hits(id) = {s + 1}
    BY <1>1, <2>1, <2>4, <2>5
  <2>7. id \in ids
    BY <1>1, <2>1, <2>4
  <2>. QED BY <2>2, <2>4, <2>6, <2>7 DEF s
<1>4. ASSUME NEW id \in ids PROVE id \in DOMAIN b.idmap
  <2>1. PICK i \in 1..b.hwm : img.orders[i].order.id = id /\ id # 0
    BY <1>1
  <2>2. b.pool[img.orders[i].slot].id = id /\ img.orders[i].slot \in Slots
    BY <1>1, <1>2, <2>1
  <2>. QED BY <1>0, <2>1, <2>2 DEF SlotsHold
<1>5. RestoreIds(img) = [id \in ids |-> IF hits(id) = {} THEN NIL ELSE img.orders[Max(hits(id))].slot]
  BY DEF RestoreIds, LastWhere
<1>. HIDE DEF ids, hits
<1>6. \A id \in DOMAIN b.idmap : hits(id) # {} /\ img.orders[Max(hits(id))].slot = b.idmap[id]
  <2>1. ASSUME NEW id \in DOMAIN b.idmap PROVE Max({b.idmap[id] + 1}) = b.idmap[id] + 1
    BY <1>3, MaxOne
  <2>. QED BY <1>3, <2>1
<1>7. ids = DOMAIN b.idmap
  BY <1>3, <1>4
<1>8. b.idmap = [id \in DOMAIN b.idmap |-> b.idmap[id]]
  BY <1>0 DEF Books, IdMaps
<1>. QED BY <1>5, <1>6, <1>7, <1>8

\* restore undoes encode: the whole book is in the image.
LEMMA RestoreOfEncode ==
    ASSUME NEW b, Intact(b), GroupsFit(b)
    PROVE  Restore(Encode(b)) = b
<1>. DEFINE img == Encode(b)
            r == Restore(img)
<1>1. /\ img.hwm = b.hwm /\ img.best = b.best /\ img.freeHead = b.freeHead
      /\ img.levels = LevelElems(b) /\ img.orders = OrderElems(b)
  BY ImageIs
<1>. HIDE DEF img
<1>2. r = [pool     |-> [s \in Slots |-> b.pool[s]],
           lane     |-> [side \in Sides |-> [t \in Ticks |-> b.lane[side][t]]],
           hwm      |-> b.hwm,
           best     |-> b.best,
           freeHead |-> b.freeHead,
           idmap    |-> b.idmap]
  <2>1. [s \in Slots |-> RestoreSlot(img, s)] = [s \in Slots |-> b.pool[s]]
    BY <1>1, SlotRestored
  <2>2. [side \in Sides |-> [t \in Ticks |-> RestoreLevel(img, side, t)]]
           = [side \in Sides |-> [t \in Ticks |-> b.lane[side][t]]]
    <3>1. \A side \in Sides : \A t \in Ticks : RestoreLevel(img, side, t) = b.lane[side][t]
      BY <1>1, LevelRestored
    <3>2. \A side \in Sides : [t \in Ticks |-> RestoreLevel(img, side, t)] = [t \in Ticks |-> b.lane[side][t]]
      BY <3>1
    <3>. QED BY <3>2
  <2>3. RestoreIds(img) = b.idmap
    BY <1>1, IdsRestored
  <2>. QED BY <1>1, <2>1, <2>2, <2>3 DEF Restore
<1>3. b \in Books
  BY IntactBooks
<1>4. [s \in Slots |-> b.pool[s]] = b.pool
  BY <1>3 DEF Books, Pools
<1>5. [side \in Sides |-> [t \in Ticks |-> b.lane[side][t]]] = b.lane
  <2>1. b.lane \in [Sides -> [Ticks -> PriceLevels]]
    BY <1>3 DEF Books, Lanes
  <2>. QED BY <2>1
<1>6. b = [pool |-> b.pool, lane |-> b.lane, hwm |-> b.hwm, best |-> b.best,
           freeHead |-> b.freeHead, idmap |-> b.idmap]
  BY <1>3 DEF Books
<1>. QED BY <1>2, <1>4, <1>5, <1>6 DEF img
=============================================================================
