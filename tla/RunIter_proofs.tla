-------------------------- MODULE RunIter_proofs ---------------------------
(***************************************************************************)
(* What run-iter reports was measured, proved for every number of samples, *)
(* iteration counts, frame size and metric values.  Inv says, part by      *)
(* part, who holds the port (PortIsServers), what travels between a client *)
(* and its server (RoundInFlight) and so what its samples are              *)
(* (SamplesSoFar), which step of the harness has which children running    *)
(* (InStage, ChildrenGuarded, ClientsServer), and what the series hold     *)
(* (SamplesTaken, PassIsMedian).  There is one lemma per action.  That the *)
(* lower median is in the middle of the samples (MedianIsMiddle) follows   *)
(* from the existence of a sorted arrangement (SortingExists), shown by    *)
(* induction on the number of samples through the least counterexample.    *)
(***************************************************************************)
EXTENDS RunIter, FiniteSetTheorems, SequenceTheorems, WellFoundedInduction, TLAPS

-----------------------------------------------------------------------------
(* Rows, sequences and frames.                                             *)

\* What the rows of the task table have in common: the primary metric is an
\* expected one, and the counts travel in the variables of the kind of task.
LEMMA RowFields ==
    \A s \in TaskRows :
        /\ s.kind = "network" => s.warmup_env = <<"RTT", "WARMUP">> /\ s.iters_env = <<"RTT", "ITERATIONS">>
        /\ s.primary \in s.expected
        /\ s.kind = "local" => s.iters_env # s.warmup_env
<1>. USE DEF NetworkRow, LatencyRow, ThroughputRow, Row
<1>1. \A l, e : NetworkRow(l, e).kind = "network" /\ NetworkRow(l, e).warmup_env = <<"RTT", "WARMUP">> /\ NetworkRow(l, e).iters_env = <<"RTT", "ITERATIONS">> /\ NetworkRow(l, e).primary \in NetworkRow(l, e).expected
  OBVIOUS
<1>2. \A l, e : LatencyRow(l, e).kind = "local" /\ LatencyRow(l, e).primary \in LatencyRow(l, e).expected /\ LatencyRow(l, e).iters_env # LatencyRow(l, e).warmup_env
  OBVIOUS
<1>3. \A l, e : ThroughputRow(l, e).kind = "local" /\ ThroughputRow(l, e).primary \in ThroughputRow(l, e).expected /\ ThroughputRow(l, e).iters_env # ThroughputRow(l, e).warmup_env
  OBVIOUS
<1>4. \A s \in TaskRows : \E l, e : s = NetworkRow(l, e) \/ s = LatencyRow(l, e) \/ s = ThroughputRow(l, e)
  BY ZenonT(40) DEF TaskRows, TcpRows, UdpRows, QuicRows, RustHandoffRows, GoHandoffRows, JavaHandoffRows, CondvarRows, ChannelRows
<1>. HIDE DEF NetworkRow, LatencyRow, ThroughputRow, Row
<1>. QED
  BY <1>1, <1>2, <1>3, <1>4

\* The counts a stage sets in the environment are those its artifact reads.
LEMMA CountsOfStage ==
    ASSUME spec \in TaskRows
    PROVE  /\ Env[spec.iters_env] = IF stage = "correctness" THEN SmokeIterations ELSE BenchIterations
           /\ spec.kind = "network" =>
                /\ Count(Env, <<"RTT", "WARMUP">>) \in Nat \ {0}
                /\ Count(Env, <<"RTT", "ITERATIONS">>) =
                     IF stage = "correctness" THEN SmokeIterations ELSE BenchIterations
  BY RowFields, RunIterAssumption DEF Env, Count

\* What is left of a sequence without its head.
LEMMA TailOf ==
    ASSUME NEW S, NEW s \in Seq(S), s # <<>>
    PROVE  /\ Tail(s) \in Seq(S) /\ Len(Tail(s)) = Len(s) - 1 /\ Len(s) \in Nat \ {0}
           /\ Head(s) = s[1] /\ Head(s) \in S
           /\ \A i \in 1..(Len(s) - 1) : Tail(s)[i] = s[i + 1]
  OBVIOUS

\* A sequence with one more element.
LEMMA AppendOf ==
    ASSUME NEW S, NEW s \in Seq(S), NEW e \in S
    PROVE  /\ Append(s, e) \in Seq(S) /\ Len(Append(s, e)) = Len(s) + 1 /\ Len(s) \in Nat
           /\ \A i \in 1..Len(s) : Append(s, e)[i] = s[i]
           /\ Append(s, e)[Len(s) + 1] = e
  OBVIOUS

\* A sequence of equal elements keeps them when its head is taken or another
\* one is appended.
LEMMA AllEqual ==
    ASSUME NEW S, NEW s \in Seq(S), NEW v, \A i \in 1..Len(s) : s[i] = v
    PROVE  /\ s # <<>> => Head(s) = v /\ \A i \in 1..Len(Tail(s)) : Tail(s)[i] = v
           /\ v \in S => \A i \in 1..Len(Append(s, v)) : Append(s, v)[i] = v
  BY TailOf, AppendOf

\* A sample measured against its own server with the counts of the bench stage
\* can be added to the measured ones.
LEMMA OneMoreMeasured ==
    ASSUME NEW ms \in Seq(Results),
           \A i \in 1..Len(ms) : ms[i].server /\ ms[i].rounds = BenchIterations
    PROVE  LET more == Append(ms, [server |-> TRUE, rounds |-> BenchIterations])
           IN  /\ more \in Seq(Results) /\ Len(more) = Len(ms) + 1 /\ Len(ms) \in Nat
               /\ \A i \in 1..Len(more) : more[i].server /\ more[i].rounds = BenchIterations
<1>. DEFINE r == [server |-> TRUE, rounds |-> BenchIterations]
<1>1. r \in Results /\ r.server /\ r.rounds = BenchIterations
  BY RunIterAssumption DEF Results
<1>. HIDE DEF r
<1>2. /\ Append(ms, r) \in Seq(Results) /\ Len(Append(ms, r)) = Len(ms) + 1 /\ Len(ms) \in Nat
      /\ \A i \in 1..Len(ms) : Append(ms, r)[i] = ms[i]
      /\ Append(ms, r)[Len(ms) + 1] = r
  BY <1>1, AppendOf
<1>3. \A i \in 1..(Len(ms) + 1) : Append(ms, r)[i].server /\ Append(ms, r)[i].rounds = BenchIterations
  BY <1>1, <1>2
<1>. QED
  BY <1>2, <1>3 DEF r

\* A frame has at least one unit.
LEMMA UnitsPositive == Units \in Nat \ {0}
  BY CellAssumption DEF Units

\* The fields of a client.
LEMMA ClientFields ==
    ASSUME NEW c \in Client
    PROVE  /\ c.warmup \in Nat /\ c.iterations \in Nat /\ c.round \in Nat /\ c.off \in Nat /\ c.filled \in Nat
           /\ c.got \in SUBSET Nat /\ c.samples \in Seq(SUBSET Nat) /\ c.server \in Int
           /\ c = [pc |-> c.pc, warmup |-> c.warmup, iterations |-> c.iterations, round |-> c.round,
                   off |-> c.off, filled |-> c.filled, got |-> c.got, samples |-> c.samples, server |-> c.server]
  BY DEF Client

\* Moving between send and recv keeps the type of a client.
LEMMA SendType ==
    ASSUME NEW c \in Client, NEW p \in {"send", "recv"}, NEW o \in Nat,
           NEW d, d = [c EXCEPT !.off = o, !.pc = p]
    PROVE  d \in Client
<1>. DEFINE Seqs == Seq(SUBSET Nat)
            Sets == SUBSET Nat
<1>1. /\ c \in [pc : {"off", "connect", "send", "recv", "ok", "failed", "hung"},
              warmup : Nat, iterations : Nat, round : Nat, off : Nat, filled : Nat,
              got : Sets, samples : Seqs, server : Int]
      /\ Client = [pc : {"off", "connect", "send", "recv", "ok", "failed", "hung"},
              warmup : Nat, iterations : Nat, round : Nat, off : Nat, filled : Nat,
              got : Sets, samples : Seqs, server : Int]
  BY Zenon DEF Client
<1>. HIDE DEF Seqs, Sets
<1>. QED
  BY <1>1

\* A step of the harness alone keeps what is said of the cell.
LEMMA CellFrame ==
    ASSUME CellTypeOK, PortIsServers, RoundInFlight, SamplesSoFar, UNCHANGED cellVars
    PROVE  CellTypeOK' /\ PortIsServers' /\ RoundInFlight' /\ SamplesSoFar'
<1>1. UNCHANGED <<transport, srv, sid, port, c2s, s2c, cl>>
  BY DEF cellVars
<1>2. CellTypeOK' /\ PortIsServers'
  BY <1>1 DEF CellTypeOK, PortIsServers
<1>3. RoundInFlight' /\ SamplesSoFar'
  BY <1>1 DEF RoundInFlight, SamplesSoFar, ClientRuns, Timed, Units
<1>. QED
  BY <1>2, <1>3

\* A step of the cell alone keeps what is said of the harness.
LEMMA HarnessFrame ==
    ASSUME TypeOK, InStage, SamplesTaken, PassIsMedian, UNCHANGED harnessVars, CellTypeOK'
    PROVE  TypeOK' /\ InStage' /\ SamplesTaken' /\ PassIsMedian'
<1>1. UNCHANGED <<args, spec, pc, stage, held, series, verdict, measured>>
  BY DEF harnessVars
<1>2. TypeOK' /\ InStage'
  BY <1>1 DEF TypeOK, InStage
<1>3. SamplesTaken' /\ PassIsMedian'
  BY <1>1 DEF SamplesTaken, PassIsMedian, Taken, SampleCount
<1>. QED
  BY <1>2, <1>3

\* Every set of natural numbers that is not empty has a least one: the finite
\* sets are well-founded under inclusion, so one of the intervals up to a
\* number of the set has no smaller one below it.
LEMMA LeastNumber ==
    ASSUME NEW S \in SUBSET Nat, S # {}
    PROVE  \E m \in S : \A j \in S : m <= j
<1>. DEFINE R == StrictSubsetOrdering(Nat)
            T == {0..n : n \in S}
<1>1. IsWellFoundedOn(R, FiniteSubsetsOf(Nat))
  BY FS_StrictSubsetOrderingWellFounded
<1>2. T \subseteq FiniteSubsetsOf(Nat) /\ T # {}
  <2>1. \A n \in S : IsFiniteSet(0..n) /\ 0..n \in SUBSET Nat
    BY FS_Interval
  <2>. QED
    BY <2>1 DEF FiniteSubsetsOf
<1>3. \E x \in T : \A y \in T : ~(<<y, x>> \in R)
  <2>. HIDE DEF R, T
  <2>. QED
    BY <1>1, <1>2, WFMin
<1>4. PICK m \in S : \A n \in S : ~(<<0..n, 0..m>> \in R)
  BY <1>3
<1>5. \A n \in S : n < m => 0..n \subseteq 0..m /\ 0..n # 0..m
  OBVIOUS
<1>6. \A n \in S : n < m => <<0..n, 0..m>> \in R
  BY <1>5 DEF StrictSubsetOrdering
<1>7. \A n \in S : n \in Nat
  OBVIOUS
<1>8. \A n \in S : ~(n < m)
  BY <1>4, <1>6
<1>. QED
  BY <1>7, <1>8

\* A list of numbers can be sorted: there are places to take its values from,
\* each place once, in which they ascend.  The least list that could not be
\* sorted would be one value longer than one that can, and that value has a
\* place in it.
LEMMA SortingExists ==
    ASSUME NEW n \in Nat, NEW xs \in [1..n -> Int]
    PROVE  \E p \in [1..n -> 1..n] :
              /\ \A i, j \in 1..n : p[i] = p[j] => i = j
              /\ \A i, j \in 1..n : i < j => xs[p[i]] <= xs[p[j]]
<1>. DEFINE Sorts(m, p) == /\ p \in [1..m -> 1..m]
                           /\ \A i, j \in 1..m : p[i] = p[j] => i = j
                           /\ \A i, j \in 1..m : i < j => xs[p[i]] <= xs[p[j]]
            Unsorted == {m \in 0..n : ~\E p : Sorts(m, p)}
<1>1. SUFFICES ASSUME Unsorted # {} PROVE FALSE
  <2>1. n \notin Unsorted
    BY <1>1
  <2>2. \E p : Sorts(n, p)
    <3>. HIDE DEF Sorts
    <3>. QED
      BY <2>1
  <2>. QED
    BY <2>2
<1>2. PICK m \in Unsorted : \A k \in Unsorted : m <= k
  <2>. HIDE DEF Unsorted
  <2>1. Unsorted \in SUBSET Nat
    BY DEF Unsorted
  <2>. QED
    BY <1>1, <2>1, LeastNumber
<1>3. m \in 1..n
  <2>1. [i \in 1..0 |-> 1] \in [1..0 -> 1..0] /\ Sorts(0, [i \in 1..0 |-> 1])
    OBVIOUS
  <2>2. 0 \notin Unsorted /\ m \in 0..n
    BY <1>2, <2>1
  <2>. QED
    BY <1>2, <2>2
<1>4. m - 1 \in 0..n /\ m - 1 \notin Unsorted
  <2>1. m - 1 \in 0..n /\ ~(m <= m - 1)
    BY <1>3
  <2>. HIDE DEF Unsorted
  <2>. QED
    BY <1>2, <2>1
<1>5. PICK p : Sorts(m - 1, p)
  BY <1>4
<1>a. /\ p \in [1..(m - 1) -> 1..(m - 1)]
      /\ \A i, j \in 1..(m - 1) : p[i] = p[j] => i = j
      /\ \A i, j \in 1..(m - 1) : i < j => xs[p[i]] <= xs[p[j]]
  BY <1>5
<1>b. /\ \A i \in 1..(m - 1) : p[i] \in 1..(m - 1) /\ p[i] \in 1..n /\ xs[p[i]] \in Int
      /\ xs[m] \in Int /\ m \in Nat
  BY <1>3, <1>a, SMTT(30)
<1>. DEFINE Above == {i \in 1..(m - 1) : xs[p[i]] > xs[m]} \cup {m}
<1>6. PICK k \in Above : \A i \in Above : k <= i
  <2>1. Above \in SUBSET Nat /\ Above # {}
    BY <1>3
  <2>. HIDE DEF Above
  <2>. QED
    BY <2>1, LeastNumber
<1>7. /\ k \in 1..m
      /\ \A i \in 1..(m - 1) : i < k => xs[p[i]] <= xs[m]
      /\ \A i \in 1..(m - 1) : k <= i => xs[p[i]] >= xs[m]
  <2>0. \A i \in 1..(m - 1) : p[i] \in 1..(m - 1) /\ xs[p[i]] \in Int /\ xs[m] \in Int
    BY <1>3, <1>5
  <2>1. k \in 1..m
    BY <1>3, <1>6
  <2>2. ASSUME NEW i \in 1..(m - 1), i < k PROVE xs[p[i]] <= xs[m]
    BY <1>6, <2>0, <2>1, <2>2
  <2>3. ASSUME NEW i \in 1..(m - 1), k <= i PROVE xs[p[i]] >= xs[m]
    <3>1. k \in 1..(m - 1) /\ xs[p[k]] > xs[m]
      BY <1>3, <1>6, <2>1, <2>3
    <3>2. xs[p[k]] <= xs[p[i]]
      <4>1. CASE k = i
        BY <1>b, <3>1, <4>1
      <4>2. CASE k # i
        <5>1. k < i
          BY <2>3, <3>1, <4>2
        <5>. QED
          BY <1>a, <2>3, <3>1, <5>1
      <4>. QED
        BY <4>1, <4>2
    <3>. QED
      BY <2>0, <3>1, <3>2
  <2>. QED
    BY <2>1, <2>2, <2>3
<1>. DEFINE q == [i \in 1..m |-> IF i < k THEN p[i] ELSE IF i = k THEN m ELSE p[i - 1]]
<1>. HIDE DEF Above
<1>8. \A i \in 1..m : /\ i < k => i \in 1..(m - 1) /\ q[i] = p[i]
                      /\ i = k => q[i] = m
                      /\ i > k => i - 1 \in 1..(m - 1) /\ q[i] = p[i - 1]
  BY <1>3, <1>7
<1>10. q \in [1..m -> 1..m]
  <2>1. ASSUME NEW i \in 1..m PROVE q[i] \in 1..m
    <3>1. i < k \/ i = k \/ i > k
      BY <1>3, <1>7
    <3>2. m \in 1..m /\ \A x \in 1..(m - 1) : p[x] \in 1..m
      BY <1>3, <1>b
    <3>. HIDE DEF q
    <3>. QED BY <1>8, <3>1, <3>2
  <2>. QED
    BY <2>1
<1>. HIDE DEF q
<1>11. ASSUME NEW i \in 1..m, NEW j \in 1..m, q[i] = q[j] PROVE i = j
  <2>1. \A u \in 1..m : u # k => q[u] \in 1..(m - 1) /\ q[u] # m
    <3>0. \A x \in 1..(m - 1) : p[x] \in 1..(m - 1) /\ p[x] # m
      BY <1>b
    <3>1. ASSUME NEW u \in 1..m, u < k PROVE q[u] \in 1..(m - 1) /\ q[u] # m
      <4>1. u \in 1..(m - 1) /\ q[u] = p[u]
        BY <1>8, <3>1
      <4>. QED
        BY <3>0, <4>1
    <3>2. ASSUME NEW u \in 1..m, u > k PROVE q[u] \in 1..(m - 1) /\ q[u] # m
      <4>1. u - 1 \in 1..(m - 1) /\ q[u] = p[u - 1]
        BY <1>8, <3>2
      <4>. QED
        BY <3>0, <4>1
    <3>. QED
      BY <1>7, <3>1, <3>2
  <2>2. CASE i = k \/ j = k
    BY <1>7, <1>8, <1>11, <2>1, <2>2
  <2>3. CASE i < k /\ j < k
    BY <1>8, <1>11, <1>a, <2>3
  <2>4. CASE i > k /\ j > k
    <3>1. i - 1 = j - 1
      BY <1>8, <1>11, <1>a, <2>4
    <3>. QED
      BY <3>1
  <2>5. ASSUME NEW u \in 1..m, NEW v \in 1..m, u < k, v > k PROVE q[u] # q[v]
    <3>1. u \in 1..(m - 1) /\ v - 1 \in 1..(m - 1) /\ u # v - 1
      BY <1>7, <1>8, <2>5
    <3>. QED
      BY <1>8, <1>a, <2>5, <3>1
  <2>. QED
    BY <1>7, <1>11, <2>2, <2>3, <2>4, <2>5
<1>12. ASSUME NEW i \in 1..m, NEW j \in 1..m, i < j PROVE xs[q[i]] <= xs[q[j]]
  <2>1. CASE j < k
    <3>1. i < k /\ i \in 1..(m - 1) /\ j \in 1..(m - 1)
      BY <1>7, <1>8, <1>12, <2>1
    <3>. QED
      BY <1>8, <1>12, <1>a, <2>1, <3>1
  <2>2. CASE j = k
    BY <1>7, <1>8, <1>12, <2>2
  <2>3. CASE i < k /\ j > k
    <3>1. xs[q[i]] <= xs[m] /\ xs[m] <= xs[q[j]]
      <4>1. i \in 1..(m - 1) /\ q[i] = p[i]
        BY <1>8, <2>3
      <4>2. j - 1 \in 1..(m - 1) /\ q[j] = p[j - 1] /\ k <= j - 1
        BY <1>7, <1>8, <2>3
      <4>. QED
        BY <1>7, <1>b, <2>3, <4>1, <4>2
    <3>2. xs[q[i]] \in Int /\ xs[q[j]] \in Int /\ xs[m] \in Int
      BY <1>8, <1>b, <2>3
    <3>. QED
      BY <3>1, <3>2
  <2>4. CASE i = k
    <3>1. j - 1 \in 1..(m - 1) /\ q[j] = p[j - 1] /\ k <= j - 1 /\ q[i] = m
      BY <1>7, <1>8, <1>12, <2>4
    <3>. QED
      BY <1>7, <1>b, <3>1
  <2>5. CASE i > k
    <3>1. i - 1 \in 1..(m - 1) /\ j - 1 \in 1..(m - 1) /\ i - 1 < j - 1
      BY <1>7, <1>8, <1>12, <2>5
    <3>2. q[i] = p[i - 1] /\ q[j] = p[j - 1]
      BY <1>7, <1>8, <1>12, <2>5
    <3>. QED
      BY <1>a, <3>1, <3>2
  <2>. QED
    BY <1>7, <2>1, <2>2, <2>3, <2>4, <2>5
<1>13. Sorts(m, q)
  BY <1>10, <1>11, <1>12
<1>. QED
  BY <1>2, <1>13

\* An interval from 1 to n has n elements.
LEMMA Finite == \A n \in Nat : IsFiniteSet(1..n) /\ Cardinality(1..n) = n
<1>. SUFFICES ASSUME NEW n \in Nat PROVE IsFiniteSet(1..n) /\ Cardinality(1..n) = n
  OBVIOUS
<1>1. 1 \in Int /\ n \in Int
  OBVIOUS
<1>2. IsFiniteSet(1..n) /\ Cardinality(1..n) = IF 1 > n THEN 0 ELSE n - 1 + 1
  BY <1>1, FS_Interval
<1>. QED
  BY <1>2

\* What sort and the index of median find: the value for which fewer than half
\* of the values are smaller and at least half are not larger.
LEMMA MedianIsMiddle ==
    ASSUME NEW xs \in Seq(Int), Len(xs) > 0
    PROVE  /\ 2 * Cardinality({i \in 1..Len(xs) : xs[i] < Median(xs)}) < Len(xs)
           /\ 2 * Cardinality({i \in 1..Len(xs) : xs[i] <= Median(xs)}) >= Len(xs)
<1>. DEFINE n == Len(xs)
            p == SortedPlaces(xs)
            h == ((n - 1) \div 2) + 1
            m == xs[p[h]]
            Below == {i \in 1..n : xs[i] < m}
            UpTo == {i \in 1..n : xs[i] <= m}
<1>1. n \in Nat \ {0} /\ DOMAIN xs = 1..n /\ xs \in [1..n -> Int]
  OBVIOUS
<1>2. /\ p \in [1..n -> 1..n]
      /\ \A i, j \in 1..n : p[i] = p[j] => i = j
      /\ \A i, j \in 1..n : i < j => xs[p[i]] <= xs[p[j]]
  <2>. HIDE DEF n
  <2>1. \E q \in [1..n -> 1..n] :
           /\ \A i, j \in 1..n : q[i] = q[j] => i = j
           /\ \A i, j \in 1..n : i < j => xs[q[i]] <= xs[q[j]]
    BY <1>1, SortingExists
  <2>2. p = CHOOSE q \in [1..n -> 1..n] :
              /\ \A i, j \in 1..n : q[i] = q[j] => i = j
              /\ \A i, j \in 1..n : i < j => xs[q[i]] <= xs[q[j]]
    BY Zenon, <1>1 DEF SortedPlaces
  <2>. HIDE DEF p
  <2>. QED
    BY <2>1, <2>2
<1>3. h \in 1..n /\ 2 * (h - 1) < n /\ 2 * h >= n
  BY <1>1
<1>4. Median(xs) = m
  BY DEF Median
<1>. HIDE DEF n, p, h
<1>5. \A i \in 1..n : p[i] \in 1..n /\ xs[i] \in Int /\ xs[p[i]] \in Int
  BY <1>1, <1>2
<1>6. \A i \in 1..n : \E j \in 1..n : p[j] = i
  <2>0. IsFiniteSet(1..n)
    BY <1>1, Finite
  <2>1. p \in Injection(1..n, 1..n) /\ IsFiniteSet(1..n)
    BY <1>2, <2>0 DEF Injection, IsInjective
  <2>2. p \in Surjection(1..n, 1..n)
    BY <2>1, FS_Injection
  <2>. QED
    BY <2>2 DEF Surjection
<1>7. IsFiniteSet(Below) /\ IsFiniteSet(UpTo)
  <2>1. IsFiniteSet(1..n) /\ Below \in SUBSET (1..n) /\ UpTo \in SUBSET (1..n)
    BY <1>1, Finite
  <2>. HIDE DEF Below, UpTo
  <2>. QED
    BY <2>1, FS_Subset
<1>8. Cardinality(Below) <= h - 1
  <2>. DEFINE g == [i \in Below |-> CHOOSE j \in 1..n : p[j] = i]
  <2>1. \A i \in Below : g[i] \in 1..n /\ p[g[i]] = i
    BY <1>6
  <2>. HIDE DEF g
  <2>2. ASSUME NEW i \in Below PROVE g[i] \in 1..(h - 1)
    <3>1. xs[p[g[i]]] < m /\ g[i] \in 1..n
      BY <2>1
    <3>2. ~(h < g[i]) /\ h # g[i]
      <4>1. xs[p[g[i]]] \in Int /\ xs[p[h]] \in Int
        BY <1>3, <1>5, <3>1
      <4>2. h < g[i] => xs[p[h]] <= xs[p[g[i]]]
        BY <1>2, <1>3, <3>1
      <4>. QED
        BY <3>1, <4>1, <4>2
    <3>. QED
      BY <1>1, <1>3, <3>1, <3>2
  <2>3. g \in Injection(Below, 1..(h - 1))
    <3>1. g \in [Below -> 1..(h - 1)]
      BY <2>2 DEF g
    <3>. QED
      BY <2>1, <3>1 DEF Injection, IsInjective
  <2>4. IsFiniteSet(1..(h - 1)) /\ Cardinality(1..(h - 1)) = h - 1
    BY <1>1, <1>3, Finite
  <2>5. Cardinality(Below) <= Cardinality(1..(h - 1))
    <3>. HIDE DEF Below
    <3>. QED
      BY <2>3, <2>4, FS_Injection
  <2>. QED
    BY <2>4, <2>5
<1>9. h <= Cardinality(UpTo)
  <2>. DEFINE g == [j \in 1..h |-> p[j]]
  <2>1. ASSUME NEW j \in 1..h PROVE j \in 1..n /\ p[j] \in UpTo
    <3>1. j \in 1..n /\ (j < h \/ j = h)
      BY <1>1, <1>3
    <3>2. xs[p[j]] <= m
      BY <1>2, <1>3, <1>5, <3>1
    <3>. QED
      BY <1>5, <3>1, <3>2
  <2>2. g \in Injection(1..h, UpTo)
    <3>1. g \in [1..h -> UpTo]
      <4>. HIDE DEF UpTo
      <4>. QED
        BY <2>1
    <3>. QED
      BY <1>2, <2>1, <3>1 DEF Injection, IsInjective
  <2>3. IsFiniteSet(1..h) /\ Cardinality(1..h) = h
    BY <1>1, <1>3, Finite
  <2>4. Cardinality(1..h) <= Cardinality(UpTo)
    <3>. HIDE DEF UpTo, g
    <3>. QED
      BY <1>7, <2>2, FS_Injection
  <2>. QED
    BY <2>3, <2>4
<1>10. Cardinality(Below) \in Nat /\ Cardinality(UpTo) \in Nat
  <2>. HIDE DEF Below, UpTo
  <2>. QED
    BY <1>7, FS_CardinalityType
<1>11. 2 * Cardinality(Below) < n /\ 2 * Cardinality(UpTo) >= n
  <2>. HIDE DEF Below, UpTo
  <2>. QED
    BY <1>1, <1>3, <1>8, <1>9, <1>10
<1>. QED
  BY <1>4, <1>11 DEF n

\* main reads the arguments and starts the build stage.
LEMMA MainKeeps ==
    ASSUME Inv, Main PROVE Inv'
<1>. USE DEF Inv, Free, Probe
<1>1. CellTypeOK' /\ PortIsServers' /\ RoundInFlight' /\ SamplesSoFar'
  BY CellFrame DEF Main, TypeOK
<1>2. TypeOK'
  BY <1>1 DEF Main, Emit, Goto, TypeOK, Labels
<1>3. InStage'
  BY DEF Main, Emit, Goto, TypeOK, InStage, Sampling, Guarded
<1>4. ChildrenGuarded'
  BY DEF Main, Emit, Goto, cellVars, ChildrenGuarded, ClientRuns, Guarded
<1>5. ClientsServer'
  BY DEF Main, cellVars, ClientsServer
<1>6. SamplesTaken'
  BY DEF Main, SamplesTaken, InStage
<1>7. PassIsMedian'
  BY DEF Main, Emit, Goto, PassIsMedian, Taken
<1>. QED
  BY <1>1, <1>2, <1>3, <1>4, <1>5, <1>6, <1>7

\* The build or test command exits, with a status or without starting.
LEMMA StageExitsKeeps ==
    ASSUME NEW ok \in BOOLEAN, Inv, StageExits(ok) PROVE Inv'
<1>. USE DEF Inv, Free, Probe
<1>1. CellTypeOK' /\ PortIsServers' /\ RoundInFlight' /\ SamplesSoFar'
  BY CellFrame DEF StageExits, TypeOK
<1>2. TypeOK'
  <2>1. CellTypeOK'
    BY DEF StageExits, cellVars, TypeOK, CellTypeOK
  <2>2. (args \in [json : BOOLEAN, samples : 0..MaxSamples])' /\ (spec \in TaskRows \cup {UnknownTask})'
    BY DEF StageExits, TypeOK
  <2>3. (pc \in Labels)' /\ (stage \in {"build", "correctness", "microbench", "tests"})'
    BY DEF StageExits, Emit, Goto, TypeOK, Labels
  <2>4. held' \in BOOLEAN
    BY Zenon DEF StageExits, TypeOK
  <2>5. (measured \in Seq(Results))'
    BY DEF StageExits, TypeOK
  <2>. QED
    BY <2>1, <2>2, <2>3, <2>4, <2>5 DEF TypeOK
<1>3. InStage'
  BY DEF StageExits, Emit, Goto, InStage, Sampling, Guarded
<1>4. ChildrenGuarded'
  BY DEF StageExits, Emit, Goto, cellVars, ChildrenGuarded, ClientRuns, Guarded
<1>5. ClientsServer'
  BY DEF StageExits, cellVars, ClientsServer
<1>6. SamplesTaken'
  BY DEF StageExits, SamplesTaken, Taken, SampleCount, InStage
<1>7. PassIsMedian'
  <2>1. stage = "tests" => spec \in TaskRows /\ Primary = Median(Taken)
    BY DEF SamplesTaken, Taken, SampleCount, Primary
  <2>. QED
    BY <2>1 DEF StageExits, Emit, Goto, FailStatus, InStage, PassIsMedian, Taken
<1>. QED
  BY <1>1, <1>2, <1>3, <1>4, <1>5, <1>6, <1>7

\* The build or test command outlives its budget and is killed.
LEMMA StageTimesOutKeeps ==
    ASSUME Inv, StageTimesOut PROVE Inv'
<1>. USE DEF Inv, Free, Probe
<1>1. CellTypeOK' /\ PortIsServers' /\ RoundInFlight' /\ SamplesSoFar'
  BY CellFrame DEF StageTimesOut, TypeOK
<1>2. TypeOK'
  <2>1. CellTypeOK'
    BY DEF StageTimesOut, cellVars, TypeOK, CellTypeOK
  <2>2. (args \in [json : BOOLEAN, samples : 0..MaxSamples])' /\ (spec \in TaskRows \cup {UnknownTask})'
    BY DEF StageTimesOut, TypeOK
  <2>3. (pc \in Labels)' /\ (stage \in {"build", "correctness", "microbench", "tests"})'
    BY DEF StageTimesOut, Goto, TypeOK, Labels
  <2>4. held' \in BOOLEAN
    BY Zenon DEF StageTimesOut, SharesPipes
  <2>5. (measured \in Seq(Results))'
    BY DEF StageTimesOut, TypeOK
  <2>. QED
    BY <2>1, <2>2, <2>3, <2>4, <2>5 DEF TypeOK
<1>3. InStage'
  BY DEF StageTimesOut, Goto, InStage, Sampling, Guarded
<1>4. ChildrenGuarded'
  BY DEF StageTimesOut, Goto, cellVars, ChildrenGuarded, ClientRuns, Guarded
<1>5. ClientsServer'
  BY DEF StageTimesOut, cellVars, ClientsServer
<1>6. SamplesTaken'
  BY DEF StageTimesOut, SamplesTaken, Taken, SampleCount, InStage
<1>7. PassIsMedian'
  BY DEF StageTimesOut, Goto, PassIsMedian, Taken
<1>. QED
  BY <1>1, <1>2, <1>3, <1>4, <1>5, <1>6, <1>7

\* The reader threads end once no process holds the pipes.
LEMMA JoinReadersKeeps ==
    ASSUME Inv, JoinReaders PROVE Inv'
<1>. USE DEF Inv, Free, Probe
<1>1. CellTypeOK' /\ PortIsServers' /\ RoundInFlight' /\ SamplesSoFar'
  BY CellFrame DEF JoinReaders, TypeOK
<1>2. TypeOK'
  BY <1>1 DEF JoinReaders, Emit, TypeOK, Labels
<1>3. InStage'
  BY DEF JoinReaders, Emit, InStage, Sampling, Guarded
<1>4. ChildrenGuarded'
  BY DEF JoinReaders, Emit, cellVars, ChildrenGuarded, ClientRuns, Guarded
<1>5. ClientsServer'
  BY DEF JoinReaders, cellVars, ClientsServer
<1>6. SamplesTaken'
  BY DEF JoinReaders, SamplesTaken, Taken, SampleCount, InStage
<1>7. PassIsMedian'
  BY DEF JoinReaders, Emit, PassIsMedian
<1>. QED
  BY <1>1, <1>2, <1>3, <1>4, <1>5, <1>6, <1>7

\* A sample of a network row starts with its server.
LEMMA SpawnServerKeeps ==
    ASSUME Inv, SpawnServer PROVE Inv'
<1>. USE DEF Inv, Free, Probe
<1>1. TypeOK'
  BY DEF SpawnServer, Goto, NoClient, TypeOK, CellTypeOK, Client, Labels
<1>2. PortIsServers'
  BY DEF SpawnServer, TypeOK, CellTypeOK, PortIsServers, ChildrenGuarded, Guarded
<1>3. RoundInFlight'
  BY DEF SpawnServer, NoClient, RoundInFlight, ClientRuns
<1>4. SamplesSoFar'
  BY DEF SpawnServer, NoClient, SamplesSoFar, ClientRuns
<1>5. InStage'
  BY DEF SpawnServer, Goto, InStage, Sampling
<1>6. ChildrenGuarded'
  BY DEF SpawnServer, Goto, NoClient, ChildrenGuarded, ClientRuns, Guarded
<1>7. ClientsServer'
  BY DEF SpawnServer, NoClient, ClientsServer
<1>8. SamplesTaken'
  BY DEF SpawnServer, Goto, SamplesTaken, Taken, SampleCount
<1>9. PassIsMedian'
  BY DEF SpawnServer, Goto, PassIsMedian, Taken
<1>. QED
  BY <1>1, <1>2, <1>3, <1>4, <1>5, <1>6, <1>7, <1>8, <1>9

\* The server artifact cannot be spawned.
LEMMA SpawnErrorKeeps ==
    ASSUME Inv, SpawnError PROVE Inv'
<1>. USE DEF Inv, Free, Probe
<1>1. CellTypeOK' /\ PortIsServers' /\ RoundInFlight' /\ SamplesSoFar'
  BY CellFrame DEF SpawnError, TypeOK
<1>2. TypeOK'
  BY <1>1 DEF SpawnError, FailSample, Emit, TypeOK, Labels
<1>3. InStage'
  BY DEF SpawnError, FailSample, Emit, InStage, Sampling, Guarded
<1>4. ChildrenGuarded'
  BY DEF SpawnError, FailSample, Emit, cellVars, ChildrenGuarded, ClientRuns, Guarded
<1>5. ClientsServer'
  BY DEF SpawnError, cellVars, ClientsServer
<1>6. SamplesTaken'
  BY DEF SpawnError, FailSample, Emit, SamplesTaken, Taken, SampleCount
<1>7. PassIsMedian'
  BY DEF SpawnError, FailSample, FailStatus, Emit, InStage, Sampling, PassIsMedian
<1>. QED
  BY <1>1, <1>2, <1>3, <1>4, <1>5, <1>6, <1>7

\* The readiness probe is answered.
LEMMA ProbeReadyKeeps ==
    ASSUME Inv, ProbeReady PROVE Inv'
<1>. USE DEF Inv, Free, Probe
<1>1. CellTypeOK' /\ PortIsServers' /\ RoundInFlight' /\ SamplesSoFar'
  BY CellFrame DEF ProbeReady, TypeOK
<1>2. TypeOK'
  BY <1>1 DEF ProbeReady, Goto, TypeOK, Labels
<1>3. InStage'
  BY DEF ProbeReady, Goto, InStage, Sampling, Guarded
<1>4. ChildrenGuarded'
  BY DEF ProbeReady, Goto, cellVars, PortIsServers, ChildrenGuarded, ClientRuns, Guarded
<1>5. ClientsServer'
  BY DEF ProbeReady, cellVars, ClientsServer
<1>6. SamplesTaken'
  BY DEF ProbeReady, Goto, SamplesTaken, Taken, SampleCount
<1>7. PassIsMedian'
  BY DEF ProbeReady, Goto, PassIsMedian, Taken
<1>. QED
  BY <1>1, <1>2, <1>3, <1>4, <1>5, <1>6, <1>7

\* The QUIC probe takes the port nobody has.
LEMMA ProbeBindKeeps ==
    ASSUME Inv, ProbeBind PROVE Inv'
<1>. USE DEF Inv, Free, Probe
<1>1. TypeOK'
  BY DEF ProbeBind, Goto, TypeOK, CellTypeOK, Labels
<1>2. PortIsServers'
  BY DEF ProbeBind, PortIsServers
<1>3. RoundInFlight'
  BY DEF ProbeBind, RoundInFlight, ClientRuns, ChildrenGuarded
<1>4. SamplesSoFar'
  BY DEF ProbeBind, SamplesSoFar, ClientRuns, Timed
<1>5. InStage'
  BY DEF ProbeBind, Goto, InStage, Sampling, Guarded
<1>6. ChildrenGuarded'
  BY DEF ProbeBind, Goto, ChildrenGuarded, ClientRuns, Guarded
<1>7. ClientsServer'
  BY DEF ProbeBind, ClientsServer
<1>8. SamplesTaken'
  BY DEF ProbeBind, Goto, SamplesTaken, Taken, SampleCount
<1>9. PassIsMedian'
  BY DEF ProbeBind, Goto, PassIsMedian, Taken
<1>. QED
  BY <1>1, <1>2, <1>3, <1>4, <1>5, <1>6, <1>7, <1>8, <1>9

\* The QUIC probe gives the port back.
LEMMA ProbeReleaseKeeps ==
    ASSUME Inv, ProbeRelease PROVE Inv'
<1>. USE DEF Inv, Free, Probe
<1>1. TypeOK'
  BY DEF ProbeRelease, Goto, TypeOK, CellTypeOK, Labels
<1>2. PortIsServers'
  BY DEF ProbeRelease, PortIsServers, ChildrenGuarded
<1>3. RoundInFlight'
  BY DEF ProbeRelease, RoundInFlight, ClientRuns, ChildrenGuarded
<1>4. SamplesSoFar'
  BY DEF ProbeRelease, SamplesSoFar, ClientRuns, Timed
<1>5. InStage'
  BY DEF ProbeRelease, Goto, InStage, Sampling, Guarded
<1>6. ChildrenGuarded'
  BY DEF ProbeRelease, Goto, ChildrenGuarded, ClientRuns, Guarded
<1>7. ClientsServer'
  BY DEF ProbeRelease, ClientsServer
<1>8. SamplesTaken'
  BY DEF ProbeRelease, Goto, SamplesTaken, Taken, SampleCount
<1>9. PassIsMedian'
  BY DEF ProbeRelease, Goto, PassIsMedian, Taken
<1>. QED
  BY <1>1, <1>2, <1>3, <1>4, <1>5, <1>6, <1>7, <1>8, <1>9

\* The server was not ready in time.
LEMMA NotReadyKeeps ==
    ASSUME Inv, NotReady PROVE Inv'
<1>. USE DEF Inv, Free, Probe
<1>1. CellTypeOK' /\ PortIsServers' /\ RoundInFlight' /\ SamplesSoFar'
  BY CellFrame DEF NotReady, TypeOK
<1>2. TypeOK'
  BY <1>1 DEF NotReady, Goto, TypeOK, Labels
<1>3. InStage'
  BY DEF NotReady, Goto, InStage, Sampling, Guarded
<1>4. ChildrenGuarded'
  BY DEF NotReady, Goto, cellVars, ChildrenGuarded, ClientRuns, Guarded
<1>5. ClientsServer'
  BY DEF NotReady, cellVars, ClientsServer
<1>6. SamplesTaken'
  BY DEF NotReady, Goto, SamplesTaken, Taken, SampleCount
<1>7. PassIsMedian'
  BY DEF NotReady, Goto, PassIsMedian, Taken
<1>. QED
  BY <1>1, <1>2, <1>3, <1>4, <1>5, <1>6, <1>7

\* What the exited server logged is read.
LEMMA DrainStderrKeeps ==
    ASSUME Inv, DrainStderr PROVE Inv'
<1>. USE DEF Inv, Free, Probe
<1>1. TypeOK'
  BY DEF DrainStderr, KillOnDrop, FailSample, Emit, TypeOK, CellTypeOK, Labels
<1>2. PortIsServers'
  BY DEF DrainStderr, KillOnDrop, PortIsServers
<1>3. RoundInFlight'
  BY DEF DrainStderr, RoundInFlight, ClientRuns, ChildrenGuarded
<1>4. SamplesSoFar'
  BY DEF DrainStderr, SamplesSoFar, ClientRuns, Timed
<1>5. InStage'
  BY DEF DrainStderr, FailSample, Emit, InStage, Sampling, Guarded
<1>6. ChildrenGuarded'
  <2>0. pc \in Guarded /\ ~ClientRuns
    BY DEF DrainStderr, Guarded, ChildrenGuarded
  <2>1. pc \in Guarded /\ port # Probe /\ port \in {Free, sid} /\ ~ClientRuns
    BY <2>0 DEF DrainStderr, TypeOK, CellTypeOK, PortIsServers, ChildrenGuarded
  <2>2. port' = Free /\ srv' = "exited" /\ pc' \in {"exited", "check"} /\ ~ClientRuns'
    BY <2>1 DEF DrainStderr, KillOnDrop, FailSample, Emit, ClientRuns
  <2>. QED
    BY <2>2 DEF ChildrenGuarded, Guarded
<1>7. ClientsServer'
  BY DEF DrainStderr, ChildrenGuarded, ClientRuns, ClientsServer
<1>8. SamplesTaken'
  BY DEF DrainStderr, FailSample, Emit, SamplesTaken, Taken, SampleCount
<1>9. PassIsMedian'
  BY DEF DrainStderr, FailSample, FailStatus, Emit, InStage, Sampling, PassIsMedian
<1>. QED
  BY <1>1, <1>2, <1>3, <1>4, <1>5, <1>6, <1>7, <1>8, <1>9

\* The client is started with the counts of the stage.
LEMMA StartClientKeeps ==
    ASSUME Inv, StartClient PROVE Inv'
<1>a. spec \in TaskRows /\ spec.kind = "network"
  BY DEF Inv, InStage, StartClient, Guarded
<1>b. PICK w \in Nat \ {0}, n \in Nat \ {0} :
        /\ cl' = [pc |-> "connect", warmup |-> w, iterations |-> n, round |-> 1, off |-> 0,
                  filled |-> 0, got |-> {}, samples |-> <<>>, server |-> 0]
        /\ n = IF stage = "correctness" THEN SmokeIterations ELSE BenchIterations
  BY <1>a, CountsOfStage, RunIterAssumption DEF StartClient, NewClient, NoClient, Free
<1>. USE DEF Inv, Free, Probe
<1>1. TypeOK'
  BY <1>b DEF StartClient, Goto, TypeOK, CellTypeOK, Client, Labels
<1>2. PortIsServers'
  BY DEF StartClient, PortIsServers
<1>3. RoundInFlight'
  <2>1. cl'.off = 0 /\ cl'.filled = 0 /\ cl'.pc = "connect" /\ Len(c2s') = 0 /\ Len(s2c') = 0
    BY <1>b DEF StartClient, ChildrenGuarded, Guarded
  <2>. QED
    BY <2>1, UnitsPositive DEF RoundInFlight, StartClient, Units
<1>4. SamplesSoFar'
  <2>1. cl'.samples = <<>> /\ cl'.got = {} /\ cl'.pc = "connect" /\ cl'.round = 1
        /\ cl'.warmup = w /\ cl'.iterations = n
    BY <1>b
  <2>2. 1 \in 1..(w + n) /\ (IF 1 > w THEN 1 - 1 - w ELSE 0) = 0
    OBVIOUS
  <2>. QED
    BY <2>1, <2>2 DEF SamplesSoFar, Timed
<1>5. InStage'
  BY DEF StartClient, Goto, InStage, Sampling, Guarded
<1>6. ChildrenGuarded'
  BY <1>b DEF StartClient, Goto, ChildrenGuarded, Guarded
<1>7. ClientsServer'
  BY <1>b DEF ClientsServer
<1>8. SamplesTaken'
  BY DEF StartClient, Goto, SamplesTaken, Taken, SampleCount
<1>9. PassIsMedian'
  BY DEF StartClient, Goto, PassIsMedian, Taken
<1>. QED
  BY <1>1, <1>2, <1>3, <1>4, <1>5, <1>6, <1>7, <1>8, <1>9

\* The client artifact cannot be spawned; the guard kills the server.
LEMMA ClientSpawnErrorKeeps ==
    ASSUME Inv, ClientSpawnError PROVE Inv'
<1>. USE DEF Inv, Free, Probe
<1>1. TypeOK'
  BY DEF ClientSpawnError, KillOnDrop, FailSample, Emit, TypeOK, CellTypeOK, Labels
<1>2. PortIsServers'
  BY DEF ClientSpawnError, KillOnDrop, PortIsServers, ChildrenGuarded
<1>3. RoundInFlight'
  BY DEF ClientSpawnError, RoundInFlight, ClientRuns, ChildrenGuarded
<1>4. SamplesSoFar'
  BY DEF ClientSpawnError, SamplesSoFar, ClientRuns, Timed
<1>5. InStage'
  BY DEF ClientSpawnError, FailSample, Emit, InStage, Sampling, Guarded
<1>6. ChildrenGuarded'
  <2>0. pc \in Guarded /\ ~ClientRuns
    BY DEF ClientSpawnError, Guarded, ChildrenGuarded
  <2>1. pc \in Guarded /\ port # Probe /\ port \in {Free, sid} /\ ~ClientRuns
    BY <2>0 DEF ClientSpawnError, TypeOK, CellTypeOK, PortIsServers, ChildrenGuarded
  <2>2. port' = Free /\ srv' = "exited" /\ pc' \in {"exited", "check"} /\ ~ClientRuns'
    BY <2>1 DEF ClientSpawnError, KillOnDrop, FailSample, Emit, ClientRuns
  <2>. QED
    BY <2>2 DEF ChildrenGuarded, Guarded
<1>7. ClientsServer'
  BY DEF ClientSpawnError, ChildrenGuarded, ClientRuns, ClientsServer
<1>8. SamplesTaken'
  BY DEF ClientSpawnError, FailSample, Emit, SamplesTaken, Taken, SampleCount
<1>9. PassIsMedian'
  BY DEF ClientSpawnError, FailSample, FailStatus, Emit, InStage, Sampling, PassIsMedian
<1>. QED
  BY <1>1, <1>2, <1>3, <1>4, <1>5, <1>6, <1>7, <1>8, <1>9

\* The client has exited; the guard kills the server.
LEMMA ClientExitsKeeps ==
    ASSUME Inv, ClientExits PROVE Inv'
<1>a. cl.pc = "ok" /\ stage = "microbench" => cl.server = sid /\ Len(cl.samples) = BenchIterations
  BY DEF Inv, ClientExits, ClientsServer, SamplesSoFar, ChildrenGuarded
<1>b. measured' = IF cl.pc = "ok" /\ stage = "microbench"
                  THEN Append(measured, [server |-> TRUE, rounds |-> BenchIterations]) ELSE measured
  <2>1. CASE cl.pc = "ok" /\ stage = "microbench"
    <3>1. (cl.server = sid) = TRUE
      BY <1>a, <2>1
    <3>. QED
      BY Zenon, <1>a, <2>1, <3>1 DEF ClientExits
  <2>. QED
    BY <2>1 DEF ClientExits
<1>. USE DEF Inv, Free, Probe
<1>1. TypeOK'
  <2>1. CellTypeOK'
    BY DEF ClientExits, KillOnDrop, TypeOK, CellTypeOK
  <2>2. (args \in [json : BOOLEAN, samples : 0..MaxSamples])' /\ (spec \in TaskRows \cup {UnknownTask})'
    BY DEF ClientExits, TypeOK
  <2>3. (pc \in Labels)' /\ (stage \in {"build", "correctness", "microbench", "tests"})'
    BY DEF ClientExits, FailSample, Emit, Goto, TypeOK, Labels
  <2>4. held' \in BOOLEAN
    BY Zenon DEF ClientExits, TypeOK
  <2>5. (measured \in Seq(Results))'
    <3>1. measured \in Seq(Results) /\ \A i \in 1..Len(measured) : measured[i].server /\ measured[i].rounds = BenchIterations
      BY DEF TypeOK, SamplesTaken
    <3>. QED
      BY <1>b, <3>1, OneMoreMeasured
  <2>. QED
    BY <2>1, <2>2, <2>3, <2>4, <2>5 DEF TypeOK
<1>2. PortIsServers'
  BY DEF ClientExits, KillOnDrop, PortIsServers, ChildrenGuarded
<1>3. RoundInFlight'
  BY DEF ClientExits, RoundInFlight, ClientRuns
<1>4. SamplesSoFar'
  BY DEF ClientExits, SamplesSoFar, ClientRuns
<1>5. InStage'
  BY DEF ClientExits, FailSample, Emit, Goto, InStage, Sampling, Guarded
<1>6. ChildrenGuarded'
  <2>0. pc \in Guarded /\ ~ClientRuns
    BY DEF ClientExits, ClientRuns, Guarded
  <2>1. pc \in Guarded /\ port # Probe /\ port \in {Free, sid} /\ ~ClientRuns
    BY <2>0 DEF ClientExits, TypeOK, CellTypeOK, PortIsServers, ChildrenGuarded
  <2>2. port' = Free /\ srv' = "exited" /\ pc' \in {"exited", "check"} /\ ~ClientRuns'
    BY <2>1 DEF ClientExits, KillOnDrop, FailSample, Emit, Goto, ClientRuns
  <2>. QED
    BY <2>2 DEF ChildrenGuarded, Guarded
<1>7. ClientsServer'
  BY DEF ClientExits, ClientsServer
<1>8. SamplesTaken'
  <2>0. measured \in Seq(Results) /\ \A i \in 1..Len(measured) : measured[i].server /\ measured[i].rounds = BenchIterations
    BY DEF TypeOK, SamplesTaken
  <2>1. /\ Len(measured') = IF (cl.pc = "ok") /\ stage = "microbench" THEN Len(measured) + 1 ELSE Len(measured)
        /\ \A i \in 1..Len(measured') : measured'[i].server /\ measured'[i].rounds = BenchIterations
        /\ ((cl.pc = "ok") /\ stage = "microbench") \/ measured' = measured
    BY <1>b, <2>0, OneMoreMeasured
  <2>2. /\ UNCHANGED <<args, spec, stage, series>> /\ pc' = (IF (cl.pc = "ok") THEN "check" ELSE "exited")
        /\ pc \in Sampling /\ pc # "check" /\ pc # "exited"
    BY DEF ClientExits, FailSample, Emit, Goto, Sampling
  <2>3. Taken' = Taken /\ SampleCount' = SampleCount /\ stage \in {"correctness", "microbench"}
    BY <2>2 DEF Taken, SampleCount, InStage
  <2>. QED
    BY <2>1, <2>2, <2>3 DEF SamplesTaken
<1>9. PassIsMedian'
  BY DEF ClientExits, FailSample, FailStatus, Emit, Goto, InStage, Sampling, PassIsMedian
<1>. QED
  BY <1>1, <1>2, <1>3, <1>4, <1>5, <1>6, <1>7, <1>8, <1>9

\* A local artifact is started.
LEMMA StartLocalKeeps ==
    ASSUME Inv, StartLocal PROVE Inv'
<1>. USE DEF Inv, Free, Probe
<1>1. CellTypeOK' /\ PortIsServers' /\ RoundInFlight' /\ SamplesSoFar'
  BY CellFrame DEF StartLocal, TypeOK
<1>2. TypeOK'
  BY <1>1 DEF StartLocal, Goto, TypeOK, Labels
<1>3. InStage'
  BY DEF StartLocal, Goto, InStage, Sampling, Guarded
<1>4. ChildrenGuarded'
  BY DEF StartLocal, Goto, cellVars, ChildrenGuarded, ClientRuns, Guarded
<1>5. ClientsServer'
  BY DEF StartLocal, cellVars, ClientsServer
<1>6. SamplesTaken'
  BY DEF StartLocal, Goto, SamplesTaken, Taken, SampleCount
<1>7. PassIsMedian'
  BY DEF StartLocal, Goto, PassIsMedian, Taken
<1>. QED
  BY <1>1, <1>2, <1>3, <1>4, <1>5, <1>6, <1>7

\* A local artifact runs to its end, or fails.
LEMMA LocalExitsKeeps ==
    ASSUME NEW ok \in BOOLEAN, Inv, LocalExits(ok) PROVE Inv'
<1>a. stage = "microbench" => Env[spec.iters_env] = BenchIterations
  BY CountsOfStage DEF Inv, InStage, LocalExits
<1>b. measured' = IF ok /\ stage = "microbench"
                  THEN Append(measured, [server |-> TRUE, rounds |-> BenchIterations]) ELSE measured
  BY <1>a DEF LocalExits
<1>. USE DEF Inv, Free, Probe
<1>1. CellTypeOK' /\ PortIsServers' /\ RoundInFlight' /\ SamplesSoFar'
  BY CellFrame DEF LocalExits, TypeOK
<1>2. TypeOK'
  <2>1. CellTypeOK'
    BY DEF LocalExits, cellVars, TypeOK, CellTypeOK
  <2>2. (args \in [json : BOOLEAN, samples : 0..MaxSamples])' /\ (spec \in TaskRows \cup {UnknownTask})'
    BY DEF LocalExits, TypeOK
  <2>3. (pc \in Labels)' /\ (stage \in {"build", "correctness", "microbench", "tests"})'
    BY DEF LocalExits, FailSample, Emit, Goto, TypeOK, Labels
  <2>4. held' \in BOOLEAN
    BY Zenon DEF LocalExits, TypeOK
  <2>5. (measured \in Seq(Results))'
    <3>1. measured \in Seq(Results) /\ \A i \in 1..Len(measured) : measured[i].server /\ measured[i].rounds = BenchIterations
      BY DEF TypeOK, SamplesTaken
    <3>. QED
      BY <1>b, <3>1, OneMoreMeasured
  <2>. QED
    BY <2>1, <2>2, <2>3, <2>4, <2>5 DEF TypeOK
<1>3. InStage'
  BY DEF LocalExits, FailSample, Emit, Goto, InStage, Sampling, Guarded
<1>4. ChildrenGuarded'
  BY DEF LocalExits, FailSample, Emit, Goto, cellVars, ChildrenGuarded, ClientRuns, Guarded
<1>5. ClientsServer'
  BY DEF LocalExits, cellVars, ClientsServer
<1>6. SamplesTaken'
  <2>0. measured \in Seq(Results) /\ \A i \in 1..Len(measured) : measured[i].server /\ measured[i].rounds = BenchIterations
    BY DEF TypeOK, SamplesTaken
  <2>1. /\ Len(measured') = IF ok /\ stage = "microbench" THEN Len(measured) + 1 ELSE Len(measured)
        /\ \A i \in 1..Len(measured') : measured'[i].server /\ measured'[i].rounds = BenchIterations
        /\ (ok /\ stage = "microbench") \/ measured' = measured
    BY <1>b, <2>0, OneMoreMeasured
  <2>2. /\ UNCHANGED <<args, spec, stage, series>> /\ pc' = (IF ok THEN "check" ELSE "exited")
        /\ pc \in Sampling /\ pc # "check" /\ pc # "exited"
    BY DEF LocalExits, FailSample, Emit, Goto, Sampling
  <2>3. Taken' = Taken /\ SampleCount' = SampleCount /\ stage \in {"correctness", "microbench"}
    BY <2>2 DEF Taken, SampleCount, InStage
  <2>. QED
    BY <2>1, <2>2, <2>3 DEF SamplesTaken
<1>7. PassIsMedian'
  BY DEF LocalExits, FailSample, FailStatus, Emit, Goto, InStage, Sampling, PassIsMedian
<1>. QED
  BY <1>1, <1>2, <1>3, <1>4, <1>5, <1>6, <1>7

\* The metrics of a sample are parsed, checked and recorded; after the last
\* sample of the bench stage the verdict is the median.
LEMMA CheckKeeps ==
    ASSUME NEW stdout \in Stdouts, Inv, Check(stdout) PROVE Inv'
<1>. DEFINE metrics == ParseContractMetrics(stdout)
<1>a. spec \in TaskRows /\ stage \in {"correctness", "microbench"} /\ pc = "check"
  BY DEF Inv, InStage, Sampling, Check
<1>b. spec.primary \in spec.expected
  BY <1>a, RowFields
<1>c. ExpectedOk(metrics) => \A k \in spec.expected : metrics[k] \in 1..MaxValue
  BY RunIterAssumption DEF ExpectedOk, ParseContractMetrics, Stdouts
<1>. USE DEF Inv, Free, Probe
<1>1. CellTypeOK' /\ PortIsServers' /\ RoundInFlight' /\ SamplesSoFar'
  BY CellFrame DEF Check, TypeOK
<1>2. TypeOK'
  <2>1. CellTypeOK'
    BY DEF Check, cellVars, TypeOK, CellTypeOK
  <2>2. (args \in [json : BOOLEAN, samples : 0..MaxSamples])' /\ (spec \in TaskRows \cup {UnknownTask})'
    BY DEF Check, TypeOK
  <2>3. (pc \in Labels)' /\ (stage \in {"build", "correctness", "microbench", "tests"})'
    BY DEF Check, FailSample, Emit, Goto, TypeOK, Labels
  <2>4. held' \in BOOLEAN
    BY Zenon DEF Check, TypeOK
  <2>5. (measured \in Seq(Results))'
    BY DEF Check, TypeOK
  <2>. QED
    BY <2>1, <2>2, <2>3, <2>4, <2>5 DEF TypeOK
<1>3. InStage'
  BY DEF Check, FailSample, Emit, Goto, InStage, Sampling, Guarded
<1>4. ChildrenGuarded'
  BY DEF Check, FailSample, Emit, Goto, cellVars, ChildrenGuarded, ClientRuns, Guarded
<1>5. ClientsServer'
  BY DEF Check, cellVars, ClientsServer
<1>6. SamplesTaken'
  <2>0. UNCHANGED <<args, spec, measured>> /\ SampleCount' = SampleCount /\ SampleCount \in Nat \ {0}
    BY DEF Check, SampleCount, TypeOK
  <2>1. CASE ~ExpectedOk(metrics)
    <3>1. pc' = "exited" /\ UNCHANGED <<stage, series>>
      BY <2>1 DEF Check, FailSample, Emit
    <3>. QED
      BY <1>a, <2>0, <3>1 DEF SamplesTaken, Taken
  <2>2. CASE ExpectedOk(metrics) /\ stage = "correctness"
    <3>1. pc' = "sample" /\ stage' = "microbench" /\ series' = series
      BY <2>2 DEF Check, Goto
    <3>2. series = <<>> /\ measured = <<>>
      BY <2>2 DEF SamplesTaken
    <3>. QED
      BY <2>0, <3>1, <3>2 DEF SamplesTaken, Taken
  <2>3. CASE ExpectedOk(metrics) /\ stage = "microbench"
    <3>1. series' = PushSample(metrics)
      BY <2>3 DEF Check
    <3>2. Len(measured) = Len(Taken) + 1 /\ Len(Taken) < SampleCount
      BY <1>a, <2>3 DEF SamplesTaken
    <3>3. \/ series = <<>>
          \/ series \in [spec.expected -> Seq(1..MaxValue)] /\ \A k \in spec.expected : Len(series[k]) = Len(Taken)
      BY DEF SamplesTaken
    <3>4. ASSUME NEW k \in spec.expected
          PROVE  LET old == IF series = <<>> THEN <<>> ELSE series[k]
                 IN  old \in Seq(1..MaxValue) /\ Len(old) = Len(Taken)
      <4>1. CASE series = <<>>
        BY <4>1 DEF Taken
      <4>2. CASE series # <<>>
        <5>1. series[k] \in Seq(1..MaxValue) /\ Len(series[k]) = Len(Taken)
          BY <3>3, <4>2
        <5>. QED
          BY <4>2, <5>1
      <4>. QED
        BY <4>1, <4>2
    <3>5. /\ series' \in [spec.expected -> Seq(1..MaxValue)]
          /\ \A k \in spec.expected : Len(series'[k]) = Len(Taken) + 1
      BY <1>c, <2>3, <3>1, <3>4, AppendOf DEF PushSample
    <3>6. series' # <<>> /\ Taken' = series'[spec.primary] /\ Len(Taken') = Len(Taken) + 1 /\ Len(Taken) \in Nat
      BY <1>b, <2>0, <3>4, <3>5 DEF Taken
    <3>7. /\ stage' = IF Len(Taken') < SampleCount THEN "microbench" ELSE "tests"
          /\ pc' = IF Len(Taken') < SampleCount THEN "sample" ELSE "stage"
      BY <2>3, <3>6 DEF Check, Goto
    <3>. QED
      BY <1>a, <2>0, <3>2, <3>5, <3>6, <3>7 DEF SamplesTaken
  <2>. QED
    BY <1>a, <2>1, <2>2, <2>3
<1>7. PassIsMedian'
  BY DEF Check, FailSample, FailStatus, Emit, Goto, InStage, Sampling, PassIsMedian
<1>. QED
  BY <1>1, <1>2, <1>3, <1>4, <1>5, <1>6, <1>7

\* A process that a killed command left behind exits.
LEMMA OrphanExitsKeeps ==
    ASSUME Inv, OrphanExits PROVE Inv'
<1>. USE DEF Inv, Free, Probe
<1>1. CellTypeOK' /\ PortIsServers' /\ RoundInFlight' /\ SamplesSoFar'
  BY CellFrame DEF OrphanExits, TypeOK
<1>2. TypeOK'
  <2>1. CellTypeOK'
    BY DEF OrphanExits, cellVars, TypeOK, CellTypeOK
  <2>2. (args \in [json : BOOLEAN, samples : 0..MaxSamples])' /\ (spec \in TaskRows \cup {UnknownTask})'
    BY DEF OrphanExits, TypeOK
  <2>3. (pc \in Labels)' /\ (stage \in {"build", "correctness", "microbench", "tests"})'
    BY DEF OrphanExits, TypeOK
  <2>4. held' \in BOOLEAN
    BY Zenon DEF OrphanExits
  <2>5. (measured \in Seq(Results))'
    BY DEF OrphanExits, TypeOK
  <2>. QED
    BY <2>1, <2>2, <2>3, <2>4, <2>5 DEF TypeOK
<1>3. InStage'
  BY DEF OrphanExits, InStage
<1>4. ChildrenGuarded'
  BY DEF OrphanExits, cellVars, ChildrenGuarded, ClientRuns
<1>5. ClientsServer'
  BY DEF OrphanExits, cellVars, ClientsServer
<1>6. SamplesTaken'
  BY DEF OrphanExits, SamplesTaken, Taken, SampleCount
<1>7. PassIsMedian'
  BY DEF OrphanExits, PassIsMedian, Taken
<1>. QED
  BY <1>1, <1>2, <1>3, <1>4, <1>5, <1>6, <1>7

\* The server binds the port.
LEMMA ServerBindKeeps ==
    ASSUME Inv, ServerBind, UNCHANGED harnessVars PROVE Inv'
<1>. USE DEF Inv, Free, Probe
<1>1. CellTypeOK'
  <2>1. srv' \in {"bound", "exited"} /\ port' \in {sid, port}
    BY DEF ServerBind
  <2>. QED
    BY <2>1 DEF ServerBind, TypeOK, CellTypeOK
<1>2. TypeOK' /\ InStage' /\ SamplesTaken' /\ PassIsMedian'
  BY <1>1, HarnessFrame
<1>3. PortIsServers'
  BY DEF ServerBind, TypeOK, CellTypeOK, PortIsServers
<1>4. RoundInFlight'
  BY DEF ServerBind, RoundInFlight, ClientRuns, ChildrenGuarded
<1>5. SamplesSoFar'
  BY DEF ServerBind, SamplesSoFar, ClientRuns, Timed
<1>6. ChildrenGuarded'
  <2>1. pc \in {"wait", "probing", "drain"} /\ sid > Free
    BY DEF ServerBind, PortIsServers, ChildrenGuarded, Guarded
  <2>2. \/ port = Free /\ srv' = "bound" /\ port' = sid
        \/ port # Free /\ srv' = "exited" /\ port' = port
    BY DEF ServerBind
  <2>. QED
    BY <2>1, <2>2 DEF ServerBind, harnessVars, ChildrenGuarded, ClientRuns
<1>7. ClientsServer'
  BY DEF ServerBind, ClientsServer
<1>. QED
  BY <1>1, <1>2, <1>3, <1>4, <1>5, <1>6, <1>7

\* The server dies by itself.
LEMMA ServerDiesKeeps ==
    ASSUME Inv, ServerDies, UNCHANGED harnessVars PROVE Inv'
<1>. USE DEF Inv, Free, Probe
<1>1. CellTypeOK'
  BY DEF ServerDies, TypeOK, CellTypeOK
<1>2. TypeOK' /\ InStage' /\ SamplesTaken' /\ PassIsMedian'
  BY <1>1, HarnessFrame
<1>3. PortIsServers'
  BY DEF ServerDies, PortIsServers
<1>4. RoundInFlight'
  BY DEF ServerDies, RoundInFlight, ClientRuns, Units
<1>5. SamplesSoFar'
  BY DEF ServerDies, SamplesSoFar, ClientRuns, Timed
<1>6. ChildrenGuarded'
  BY DEF ServerDies, harnessVars, PortIsServers, ChildrenGuarded, ClientRuns
<1>7. ClientsServer'
  BY DEF ServerDies, ClientsServer
<1>. QED
  BY <1>1, <1>2, <1>3, <1>4, <1>5, <1>6, <1>7

\* The server echoes a unit.
LEMMA EchoKeeps ==
    ASSUME Inv, Echo, UNCHANGED harnessVars PROVE Inv'
<1>a. c2s \in Seq(Nat) /\ s2c \in Seq(Nat) /\ c2s # <<>> /\ c2s' = Tail(c2s) /\ s2c' = Append(s2c, Head(c2s))
  BY DEF Inv, TypeOK, CellTypeOK, Echo
<1>b. /\ c2s' \in Seq(Nat) /\ Len(c2s') = Len(c2s) - 1 /\ Len(c2s) \in Nat \ {0}
      /\ s2c' \in Seq(Nat) /\ Len(s2c') = Len(s2c) + 1 /\ Len(s2c) \in Nat
  BY <1>a, TailOf, AppendOf
<1>c. ClientRuns => /\ \A i \in 1..Len(c2s') : c2s'[i] = cl.round
                    /\ \A i \in 1..Len(s2c') : s2c'[i] = cl.round
  <2>1. ClientRuns => cl.round \in Nat /\ Head(c2s) = cl.round
    BY <1>a, AllEqual DEF Inv, RoundInFlight
  <2>. QED
    BY <1>a, <2>1, AllEqual DEF Inv, RoundInFlight
<1>. USE DEF Inv, Free, Probe
<1>1. CellTypeOK'
  BY <1>b DEF Echo, TypeOK, CellTypeOK
<1>2. TypeOK' /\ InStage' /\ SamplesTaken' /\ PassIsMedian'
  BY <1>1, HarnessFrame
<1>3. PortIsServers'
  BY DEF Echo, PortIsServers
<1>4. RoundInFlight'
  <2>1. ClientRuns' = ClientRuns /\ Units' = Units /\ cl' = cl
    BY DEF Echo, ClientRuns, Units
  <2>2. cl.off \in Nat /\ cl.filled \in Nat
    <3>1. cl \in Client
      BY DEF TypeOK, CellTypeOK
    <3>. QED
      BY <3>1, ClientFields
  <2>3. ClientRuns => /\ Len(c2s') + Len(s2c') + cl.filled <= cl.off
                      /\ cl.pc = "connect" => cl.off = 0
                      /\ cl.pc = "recv" => cl.off = Units
                      /\ cl.pc # "recv" => cl.off < Units /\ cl.filled = 0
    BY <1>b, <2>2 DEF RoundInFlight
  <2>. HIDE DEF Inv
  <2>. QED
    BY <1>c, <2>1, <2>3 DEF RoundInFlight
<1>5. SamplesSoFar'
  BY DEF Echo, SamplesSoFar, ClientRuns, Timed
<1>6. ChildrenGuarded'
  BY DEF Echo, harnessVars, ChildrenGuarded
<1>7. ClientsServer'
  BY DEF Echo, PortIsServers, ClientsServer
<1>. QED
  BY <1>1, <1>2, <1>3, <1>4, <1>5, <1>6, <1>7

\* The network loses a unit.
LEMMA LoseKeeps ==
    ASSUME Inv, Lose, UNCHANGED harnessVars PROVE Inv'
<1>a. c2s \in Seq(Nat) /\ s2c \in Seq(Nat)
  BY DEF Inv, TypeOK, CellTypeOK
<1>b. \/ c2s # <<>> /\ c2s' = Tail(c2s) /\ s2c' = s2c
      \/ s2c # <<>> /\ s2c' = Tail(s2c) /\ c2s' = c2s
  BY DEF Lose
<1>c. /\ c2s' \in Seq(Nat) /\ Len(c2s') \in Nat /\ Len(c2s) \in Nat
      /\ s2c' \in Seq(Nat) /\ Len(s2c') \in Nat /\ Len(s2c) \in Nat
      /\ Len(c2s') + Len(s2c') = Len(c2s) + Len(s2c) - 1
      /\ s2c = <<>> => s2c' = <<>>
  <2>1. CASE c2s # <<>> /\ c2s' = Tail(c2s) /\ s2c' = s2c
    BY <1>a, <2>1, TailOf
  <2>2. CASE s2c # <<>> /\ s2c' = Tail(s2c) /\ c2s' = c2s
    BY <1>a, <2>2, TailOf
  <2>. QED
    BY <1>b, <2>1, <2>2
<1>d. ClientRuns => /\ \A i \in 1..Len(c2s') : c2s'[i] = cl.round
                    /\ \A i \in 1..Len(s2c') : s2c'[i] = cl.round
  <2>1. CASE c2s # <<>> /\ c2s' = Tail(c2s) /\ s2c' = s2c
    BY <1>a, <2>1, AllEqual DEF Inv, RoundInFlight
  <2>2. CASE s2c # <<>> /\ s2c' = Tail(s2c) /\ c2s' = c2s
    BY <1>a, <2>2, AllEqual DEF Inv, RoundInFlight
  <2>. QED
    BY <1>b, <2>1, <2>2
<1>. USE DEF Inv, Free, Probe
<1>1. CellTypeOK'
  BY <1>c DEF Lose, TypeOK, CellTypeOK
<1>2. TypeOK' /\ InStage' /\ SamplesTaken' /\ PassIsMedian'
  BY <1>1, HarnessFrame
<1>3. PortIsServers'
  BY DEF Lose, PortIsServers
<1>4. RoundInFlight'
  <2>1. ClientRuns' = ClientRuns /\ Units' = Units /\ cl' = cl
    BY DEF Lose, ClientRuns, Units
  <2>2. cl.off \in Nat /\ cl.filled \in Nat
    BY DEF TypeOK, CellTypeOK, Client
  <2>3. ClientRuns => /\ Len(c2s') + Len(s2c') + cl.filled <= cl.off
                      /\ cl.pc = "connect" => cl.off = 0
                      /\ cl.pc = "recv" => cl.off = Units
                      /\ cl.pc # "recv" => cl.off < Units /\ cl.filled = 0
    BY <1>c, <2>2 DEF RoundInFlight
  <2>. HIDE DEF Inv
  <2>. QED
    BY <1>d, <2>1, <2>3 DEF RoundInFlight
<1>5. SamplesSoFar'
  BY DEF Lose, SamplesSoFar, ClientRuns, Timed
<1>6. ChildrenGuarded'
  BY DEF Lose, harnessVars, ChildrenGuarded, ClientRuns
<1>7. ClientsServer'
  BY DEF Lose, ClientsServer
<1>. QED
  BY <1>1, <1>2, <1>3, <1>4, <1>5, <1>6, <1>7

\* The client connects.
LEMMA ClientConnectKeeps ==
    ASSUME Inv, ClientConnect, UNCHANGED harnessVars PROVE Inv'
<1>. USE DEF Inv, Free, Probe
<1>1. CellTypeOK'
  BY DEF ClientConnect, TypeOK, CellTypeOK, Client
<1>2. TypeOK' /\ InStage' /\ SamplesTaken' /\ PassIsMedian'
  BY <1>1, HarnessFrame
<1>3. PortIsServers'
  BY DEF ClientConnect, PortIsServers
<1>4. RoundInFlight'
  BY DEF ClientConnect, RoundInFlight, ClientRuns, Units
<1>5. SamplesSoFar'
  BY DEF ClientConnect, SamplesSoFar, ClientRuns, Timed
<1>6. ChildrenGuarded'
  BY DEF ClientConnect, harnessVars, ChildrenGuarded, ClientRuns
<1>7. ClientsServer'
  BY DEF ClientConnect, PortIsServers, ChildrenGuarded, RoundInFlight, ClientRuns, ClientsServer
<1>. QED
  BY <1>1, <1>2, <1>3, <1>4, <1>5, <1>6, <1>7

\* The client sends the next unit of its round.
LEMMA ClientSendKeeps ==
    ASSUME Inv, ClientSend, UNCHANGED harnessVars PROVE Inv'
<1>a. c2s \in Seq(Nat) /\ c2s' = Append(c2s, cl.round) /\ cl.round \in Nat /\ ClientRuns /\ cl \in Client
  BY DEF Inv, TypeOK, CellTypeOK, Client, ClientRuns, ClientSend
<1>b. c2s' \in Seq(Nat) /\ Len(c2s') = Len(c2s) + 1 /\ Len(c2s) \in Nat
  BY <1>a, AppendOf
<1>c. \A i \in 1..Len(c2s') : c2s'[i] = cl.round
  BY <1>a, AllEqual DEF Inv, RoundInFlight
<1>d. /\ cl'.off = cl.off + 1 /\ cl'.filled = cl.filled /\ cl'.round = cl.round
      /\ cl'.pc = IF cl.off + 1 = Units THEN "recv" ELSE "send"
  BY <1>a DEF ClientSend
<1>. USE DEF Inv, Free, Probe
<1>1. CellTypeOK'
  <2>1. (cl \in Client)'
    <3>1. cl.off + 1 \in Nat /\ (IF cl.off + 1 = Units THEN "recv" ELSE "send") \in {"recv", "send"}
      BY <1>a, ClientFields
    <3>2. cl' = [cl EXCEPT !.off = cl.off + 1, !.pc = IF cl.off + 1 = Units THEN "recv" ELSE "send"]
      BY Zenon, <1>a DEF ClientSend
    <3>. QED
      BY ZenonT(30), <1>a, <3>1, <3>2, SendType
  <2>2. transport \in {"tcp", "udp", "quic", "none"} /\ srv \in {"off", "starting", "bound", "exited"} /\ sid \in Nat /\ port \in Int /\ s2c \in Seq(Nat)
    BY DEF TypeOK, CellTypeOK
  <2>. QED
    BY <1>b, <2>1, <2>2 DEF CellTypeOK, ClientSend
<1>2. TypeOK' /\ InStage' /\ SamplesTaken' /\ PassIsMedian'
  BY <1>1, HarnessFrame
<1>3. PortIsServers'
  BY DEF ClientSend, PortIsServers
<1>4. RoundInFlight'
  <2>1. /\ Units' = Units /\ s2c' = s2c /\ cl.off \in Nat /\ cl.filled \in Nat /\ Len(s2c) \in Nat
    BY DEF ClientSend, Units, TypeOK, CellTypeOK, Client
  <2>2. /\ cl.off < Units /\ cl.filled = 0
        /\ Len(c2s) + Len(s2c) + cl.filled <= cl.off
        /\ \A i \in 1..Len(s2c) : s2c[i] = cl.round
    <3>1. cl.pc = "send"
      BY Zenon DEF ClientSend
    <3>. QED
      BY <1>a, <3>1 DEF RoundInFlight
  <2>3. /\ Len(c2s') + Len(s2c) + cl.filled <= cl.off + 1
        /\ cl.off + 1 # Units => cl.off + 1 < Units
    BY <1>b, <2>1, <2>2, UnitsPositive, SMTT(30)
  <2>. HIDE DEF Inv
  <2>. QED
    BY <1>c, <1>d, <2>1, <2>2, <2>3 DEF RoundInFlight
<1>5. SamplesSoFar'
  BY DEF ClientSend, SamplesSoFar, ClientRuns, Timed
<1>6. ChildrenGuarded'
  BY DEF ClientSend, harnessVars, ChildrenGuarded, ClientRuns
<1>7. ClientsServer'
  BY DEF ClientSend, ClientsServer
<1>. QED
  BY <1>1, <1>2, <1>3, <1>4, <1>5, <1>6, <1>7

\* The client receives a unit; with the last of a round the sample is taken and
\* the next round begins.
LEMMA ClientRecvKeeps ==
    ASSUME Inv, ClientRecv, UNCHANGED harnessVars PROVE Inv'
<1>a. /\ cl \in Client
      /\ s2c \in Seq(Nat) /\ s2c # <<>> /\ s2c' = Tail(s2c) /\ c2s' = c2s
      /\ cl.pc = "recv" /\ ClientRuns
  BY DEF Inv, TypeOK, CellTypeOK, ClientRuns, ClientRecv
<1>b. s2c' \in Seq(Nat) /\ Len(s2c') = Len(s2c) - 1 /\ Len(s2c) \in Nat \ {0}
  BY <1>a, TailOf
<1>c. Head(s2c) = cl.round /\ \A i \in 1..Len(s2c') : s2c'[i] = cl.round
  <2>1. \A i \in 1..Len(s2c) : s2c[i] = cl.round
    BY <1>a DEF Inv, RoundInFlight
  <2>. HIDE DEF Inv
  <2>. QED
    BY <1>a, <2>1, AllEqual
<1>d. cl.got \cup {Head(s2c)} = {cl.round} /\ {cl.round} \in SUBSET Nat
  BY <1>a, <1>c DEF Inv, SamplesSoFar
<1>m. cl.filled \in Nat /\ cl.filled + 1 \in Nat /\ cl.off \in Nat /\ cl.round \in Nat /\ cl.samples \in Seq(SUBSET Nat)
  BY <1>a, ClientFields
<1>. DEFINE more == [cl EXCEPT !.filled = @ + 1, !.got = {cl.round}]
<1>e. cl' = IF EchoComplete THEN NextRound({cl.round}) ELSE more
  BY <1>d DEF ClientRecv
<1>n. more \in Client
  <2>. DEFINE Seqs == Seq(SUBSET Nat)
              Sets == SUBSET Nat
  <2>1. /\ cl \in [pc : {"off", "connect", "send", "recv", "ok", "failed", "hung"},
              warmup : Nat, iterations : Nat, round : Nat, off : Nat, filled : Nat,
              got : Sets, samples : Seqs, server : Int]
        /\ {cl.round} \in Sets
        /\ Client = [pc : {"off", "connect", "send", "recv", "ok", "failed", "hung"},
              warmup : Nat, iterations : Nat, round : Nat, off : Nat, filled : Nat,
              got : Sets, samples : Seqs, server : Int]
    BY Zenon, <1>a, <1>d DEF Client
  <2>. HIDE DEF Seqs, Sets
  <2>. QED
    BY <1>m, <2>1
<1>f. /\ more.pc = "recv" /\ more.warmup = cl.warmup /\ more.iterations = cl.iterations
      /\ more.round = cl.round /\ more.off = cl.off /\ more.filled = cl.filled + 1
      /\ more.got = {cl.round} /\ more.samples = cl.samples /\ more.server = cl.server
  BY <1>a, <1>d, <1>m
<1>. DEFINE next == NextRound({cl.round})
            last == cl.round = cl.warmup + cl.iterations
<1>g. /\ Append(cl.samples, {cl.round}) \in Seq(SUBSET Nat)
      /\ Len(Append(cl.samples, {cl.round})) = Len(cl.samples) + 1 /\ Len(cl.samples) \in Nat
      /\ \A i \in 1..Len(cl.samples) : Append(cl.samples, {cl.round})[i] = cl.samples[i]
      /\ Append(cl.samples, {cl.round})[Len(cl.samples) + 1] = {cl.round}
  BY <1>d, <1>m, AppendOf
<1>h. /\ next.pc = (IF last THEN "ok" ELSE "send")
      /\ next.warmup = cl.warmup /\ next.iterations = cl.iterations
      /\ next.round = (IF last THEN cl.round ELSE cl.round + 1)
      /\ next.off = 0 /\ next.filled = 0 /\ next.got = {} /\ next.server = cl.server
      /\ next.samples = IF cl.round > cl.warmup THEN Append(cl.samples, {cl.round}) ELSE cl.samples
  BY <1>a, <1>m, ClientFields DEF NextRound
<1>o. next \in Client
  <2>. DEFINE Seqs == Seq(SUBSET Nat)
              Sets == SUBSET Nat
  <2>1. /\ cl \in [pc : {"off", "connect", "send", "recv", "ok", "failed", "hung"},
              warmup : Nat, iterations : Nat, round : Nat, off : Nat, filled : Nat,
              got : Sets, samples : Seqs, server : Int]
        /\ {} \in Sets /\ cl.samples \in Seqs /\ Append(cl.samples, {cl.round}) \in Seqs
        /\ Client = [pc : {"off", "connect", "send", "recv", "ok", "failed", "hung"},
              warmup : Nat, iterations : Nat, round : Nat, off : Nat, filled : Nat,
              got : Sets, samples : Seqs, server : Int]
    BY Zenon, <1>a, <1>g, <1>m DEF Client
  <2>. DEFINE s == IF cl.round > cl.warmup THEN Append(cl.samples, {cl.round}) ELSE cl.samples
              p == IF last THEN "ok" ELSE "send"
              r == IF last THEN cl.round ELSE cl.round + 1
  <2>. HIDE DEF Seqs, Sets, last
  <2>2. s \in Seqs /\ p \in {"ok", "send"} /\ r \in Nat
    BY <1>m, <2>1
  <2>3. next = [cl EXCEPT !.samples = s, !.pc = p, !.round = r, !.off = 0, !.filled = 0, !.got = {}]
    BY Zenon DEF NextRound, last
  <2>. HIDE DEF s, p, r, next
  <2>. QED
    BY <2>1, <2>2, <2>3
<1>. HIDE DEF more, next, last
<1>. USE DEF Inv, Free, Probe
<1>1. CellTypeOK'
  <2>1. (cl \in Client)'
    BY <1>e, <1>n, <1>o DEF next
  <2>2. transport \in {"tcp", "udp", "quic", "none"} /\ srv \in {"off", "starting", "bound", "exited"} /\ sid \in Nat /\ port \in Int /\ c2s \in Seq(Nat)
    BY DEF TypeOK, CellTypeOK
  <2>. QED
    BY <1>b, <2>1, <2>2 DEF CellTypeOK, ClientRecv
<1>2. TypeOK' /\ InStage' /\ SamplesTaken' /\ PassIsMedian'
  BY <1>1, HarnessFrame
<1>3. PortIsServers'
  BY DEF ClientRecv, PortIsServers
<1>4. RoundInFlight'
  <2>0. Units' = Units /\ cl.off = Units /\ cl.filled \in Nat /\ Len(c2s) \in Nat
        /\ Len(c2s) + Len(s2c) + cl.filled <= cl.off
        /\ \A i \in 1..Len(c2s) : c2s[i] = cl.round
    BY <1>a, <1>m DEF Units, ClientRecv, RoundInFlight
  <2>1. CASE EchoComplete
    <3>1. Len(c2s') = 0 /\ Len(s2c') = 0
      BY <1>a, <1>b, <2>0, <2>1 DEF EchoComplete
    <3>. QED
      BY <1>e, <1>h, <2>0, <2>1, <3>1, UnitsPositive DEF RoundInFlight, next
  <2>2. CASE ~EchoComplete
    <3>1. cl' = more
      BY <1>e, <2>2
    <3>2. Len(c2s) + Len(s2c') + (cl.filled + 1) <= cl.off
      BY <1>b, <2>0
    <3>. HIDE DEF Inv
    <3>. QED
      BY <1>a, <1>c, <1>f, <2>0, <3>1, <3>2 DEF RoundInFlight
  <2>. QED
    BY <2>1, <2>2
<1>5. SamplesSoFar'
  <2>0. /\ \A i \in 1..Len(cl.samples) : cl.samples[i] = {cl.warmup + i}
        /\ cl.round \in 1..(cl.warmup + cl.iterations) /\ Len(cl.samples) = Timed /\ cl.iterations > 0
        /\ cl.warmup \in Nat /\ cl.iterations \in Nat /\ cl.round \in Nat
    BY <1>a, <1>m, ClientFields DEF SamplesSoFar
  <2>1. CASE EchoComplete
    <3>1. cl.round > cl.warmup => Len(cl.samples) + 1 = cl.round - cl.warmup
      BY <2>0 DEF Timed
    <3>2. cl.round > cl.warmup =>
             \A i \in 1..(Len(cl.samples) + 1) : Append(cl.samples, {cl.round})[i] = {cl.warmup + i}
      BY <1>g, <2>0, <3>1
    <3>3. /\ \A i \in 1..Len(next.samples) : next.samples[i] = {cl.warmup + i}
          /\ Len(next.samples) = IF cl.round > cl.warmup THEN cl.round - cl.warmup ELSE 0
      <4>1. CASE cl.round > cl.warmup
        BY <1>g, <1>h, <3>1, <3>2, <4>1
      <4>2. CASE ~(cl.round > cl.warmup)
        <5>1. next.samples = cl.samples /\ Timed = 0
          BY <1>h, <4>2 DEF Timed
        <5>. QED
          BY <2>0, <4>2, <5>1
      <4>. QED
        BY <4>1, <4>2
    <3>. QED
      <4>1. cl' = next
        BY <1>e, <2>1 DEF next
      <4>2. last => cl.round > cl.warmup /\ cl.round - cl.warmup = cl.iterations
        BY <2>0 DEF last
      <4>3. ~last => /\ cl.round + 1 \in 1..(cl.warmup + cl.iterations)
                     /\ Timed' = IF cl.round > cl.warmup THEN cl.round - cl.warmup ELSE 0
        <5>1. ~last => cl'.round = cl.round + 1 /\ cl'.warmup = cl.warmup
          BY <1>h, <4>1
        <5>2. ~last => cl.round # cl.warmup + cl.iterations
          BY DEF last
        <5>3. ~last => Timed' = IF cl.round + 1 > cl.warmup THEN cl.round + 1 - 1 - cl.warmup ELSE 0
          BY <2>0, <5>1 DEF Timed
        <5>. QED
          BY <2>0, <5>2, <5>3
      <4>. HIDE DEF Inv
      <4>. QED
        BY <1>h, <2>0, <3>3, <4>1, <4>2, <4>3 DEF SamplesSoFar, ClientRuns
  <2>2. CASE ~EchoComplete
    <3>1. cl' = more
      BY <1>e, <2>2
    <3>2. Timed' = Timed
      BY <1>f, <3>1 DEF Timed
    <3>. QED
      BY <1>f, <2>0, <3>1, <3>2 DEF SamplesSoFar
  <2>. QED
    BY <2>1, <2>2
<1>6. ChildrenGuarded'
  <2>1. cl'.iterations = cl.iterations /\ (ClientRuns' => ClientRuns)
    BY <1>a, <1>e, <1>f, <1>h DEF next
  <2>. QED
    BY <1>a, <2>1 DEF ChildrenGuarded, ClientRecv, harnessVars
<1>7. ClientsServer'
  <2>1. cl'.server = cl.server /\ cl.server = sid
    BY <1>a, <1>e, <1>f, <1>h DEF next, ClientsServer
  <2>. QED
    BY <2>1 DEF ClientsServer, ClientRecv
<1>. QED
  BY <1>1, <1>2, <1>3, <1>4, <1>5, <1>6, <1>7

\* The client gives up waiting.
LEMMA ClientTimeoutKeeps ==
    ASSUME Inv, ClientTimeout, UNCHANGED harnessVars PROVE Inv'
<1>. USE DEF Inv, Free, Probe
<1>1. CellTypeOK'
  BY DEF ClientTimeout, TypeOK, CellTypeOK, Client
<1>2. TypeOK' /\ InStage' /\ SamplesTaken' /\ PassIsMedian'
  BY <1>1, HarnessFrame
<1>3. PortIsServers'
  BY DEF ClientTimeout, PortIsServers
<1>4. RoundInFlight'
  BY DEF ClientTimeout, RoundInFlight, ClientRuns
<1>5. SamplesSoFar'
  BY DEF ClientTimeout, SamplesSoFar, ClientRuns
<1>6. ChildrenGuarded'
  BY DEF ClientTimeout, harnessVars, ChildrenGuarded, ClientRuns
<1>7. ClientsServer'
  BY DEF ClientTimeout, ClientsServer
<1>. QED
  BY <1>1, <1>2, <1>3, <1>4, <1>5, <1>6, <1>7

\* The client sees its connection fail.
LEMMA ConnectionLostKeeps ==
    ASSUME Inv, ConnectionLost, UNCHANGED harnessVars PROVE Inv'
<1>. USE DEF Inv, Free, Probe
<1>1. CellTypeOK'
  BY DEF ConnectionLost, TypeOK, CellTypeOK, Client
<1>2. TypeOK' /\ InStage' /\ SamplesTaken' /\ PassIsMedian'
  BY <1>1, HarnessFrame
<1>3. PortIsServers'
  BY DEF ConnectionLost, PortIsServers
<1>4. RoundInFlight'
  BY DEF ConnectionLost, RoundInFlight, ClientRuns
<1>5. SamplesSoFar'
  BY DEF ConnectionLost, SamplesSoFar, ClientRuns
<1>6. ChildrenGuarded'
  BY DEF ConnectionLost, harnessVars, ChildrenGuarded, ClientRuns
<1>7. ClientsServer'
  BY DEF ConnectionLost, ClientsServer
<1>. QED
  BY <1>1, <1>2, <1>3, <1>4, <1>5, <1>6, <1>7

\* A write or read of the client fails.
LEMMA SocketErrorKeeps ==
    ASSUME Inv, SocketError, UNCHANGED harnessVars PROVE Inv'
<1>. USE DEF Inv, Free, Probe
<1>1. CellTypeOK'
  BY DEF SocketError, TypeOK, CellTypeOK, Client
<1>2. TypeOK' /\ InStage' /\ SamplesTaken' /\ PassIsMedian'
  BY <1>1, HarnessFrame
<1>3. PortIsServers'
  BY DEF SocketError, PortIsServers
<1>4. RoundInFlight'
  BY DEF SocketError, RoundInFlight, ClientRuns
<1>5. SamplesSoFar'
  BY DEF SocketError, SamplesSoFar, ClientRuns
<1>6. ChildrenGuarded'
  BY DEF SocketError, harnessVars, ChildrenGuarded, ClientRuns
<1>7. ClientsServer'
  BY DEF SocketError, ClientsServer
<1>. QED
  BY <1>1, <1>2, <1>3, <1>4, <1>5, <1>6, <1>7

\* The client or the local artifact hangs.
LEMMA ArtifactHangsKeeps ==
    ASSUME Inv, ArtifactHangs PROVE Inv'
<1>. USE DEF Inv, Free, Probe
<1>1. CellTypeOK'
  BY DEF ArtifactHangs, TypeOK, CellTypeOK, Client
<1>0. UNCHANGED harnessVars
  BY DEF ArtifactHangs
<1>2. TypeOK' /\ InStage' /\ SamplesTaken' /\ PassIsMedian'
  BY <1>0, <1>1, HarnessFrame
<1>3. PortIsServers'
  BY DEF ArtifactHangs, PortIsServers
<1>4. RoundInFlight'
  BY DEF ArtifactHangs, RoundInFlight, ClientRuns
<1>5. SamplesSoFar'
  BY DEF ArtifactHangs, SamplesSoFar, ClientRuns
<1>6. ChildrenGuarded'
  BY <1>0 DEF ArtifactHangs, harnessVars, ChildrenGuarded, ClientRuns
<1>7. ClientsServer'
  BY DEF ArtifactHangs, ClientsServer
<1>. QED
  BY <1>1, <1>2, <1>3, <1>4, <1>5, <1>6, <1>7

\* run-iter starts with nothing running and nothing measured.
LEMMA InitSound == Init => Inv
<1>. SUFFICES ASSUME Init PROVE Inv
  OBVIOUS
<1>. USE DEF Init, CellInit, Free, Probe, NoClient, NoVerdict
<1>0. cl \in Client /\ cl.pc = "off" /\ cl.samples = <<>> /\ cl.got = {}
  BY DEF Client
<1>1. TypeOK
  <2>1. transport \in {"tcp", "udp", "quic", "none"}
    BY DEF Experiments
  <2>2. <<>> \in Seq(Results) /\ <<>> \in Seq(Nat)
    OBVIOUS
  <2>3. CellTypeOK
    BY <1>0, <2>1, <2>2 DEF CellTypeOK
  <2>. QED
    BY <2>2, <2>3 DEF TypeOK, Labels
<1>2. PortIsServers /\ RoundInFlight /\ SamplesSoFar
  BY <1>0 DEF PortIsServers, RoundInFlight, SamplesSoFar, ClientRuns
<1>3. InStage /\ ChildrenGuarded /\ ClientsServer /\ SamplesTaken /\ PassIsMedian
  BY <1>0 DEF InStage, ChildrenGuarded, ClientsServer, SamplesTaken, PassIsMedian, ClientRuns, Guarded, Sampling
<1>. QED
  BY <1>1, <1>2, <1>3 DEF Inv

\* A step that changes nothing.
LEMMA StutterKeeps ==
    ASSUME Inv, UNCHANGED vars PROVE Inv'
<1>. USE DEF Inv
<1>0. UNCHANGED cellVars /\ UNCHANGED harnessVars
  BY DEF vars
<1>1. CellTypeOK' /\ PortIsServers' /\ RoundInFlight' /\ SamplesSoFar'
  BY <1>0, CellFrame DEF TypeOK
<1>2. TypeOK' /\ InStage' /\ SamplesTaken' /\ PassIsMedian'
  BY <1>0, <1>1, HarnessFrame
<1>3. ChildrenGuarded' /\ ClientsServer'
  BY <1>0 DEF ChildrenGuarded, ClientsServer, ClientRuns, cellVars, harnessVars
<1>. QED
  BY <1>1, <1>2, <1>3

\* Every step keeps the invariant.
LEMMA NextKeeps == Inv /\ [Next]_vars => Inv'
<1>. SUFFICES ASSUME Inv, [Next]_vars PROVE Inv'
  OBVIOUS
<1>1. CASE UNCHANGED vars
  BY <1>1, StutterKeeps
<1>2. CASE Ended
  BY <1>2, StutterKeeps DEF Ended
<1>3. CASE OrphanExits
  BY <1>3, OrphanExitsKeeps
<1>4. CASE Cell
  <2>1. UNCHANGED harnessVars /\ (ServerBind \/ ServerDies \/ Echo \/ Lose \/ ClientConnect
            \/ ClientSend \/ ClientRecv \/ ClientTimeout \/ ConnectionLost \/ SocketError)
    BY <1>4 DEF Cell, CellStep, ClientStep
  <2>. QED
    BY <2>1, ServerBindKeeps, ServerDiesKeeps, EchoKeeps, LoseKeeps, ClientConnectKeeps, ClientSendKeeps,
       ClientRecvKeeps, ClientTimeoutKeeps, ConnectionLostKeeps, SocketErrorKeeps
<1>5. CASE ArtifactHangs
  BY <1>5, ArtifactHangsKeeps
<1>6. CASE Harness
  <2>1. CASE \E ok \in BOOLEAN : StageExits(ok) \/ LocalExits(ok)
    BY <2>1, StageExitsKeeps, LocalExitsKeeps
  <2>2. CASE \E stdout \in Stdouts : Check(stdout)
    BY <2>2, CheckKeeps
  <2>3. CASE Main \/ StageTimesOut \/ JoinReaders \/ SpawnServer \/ SpawnError
    BY <2>3, MainKeeps, StageTimesOutKeeps, JoinReadersKeeps, SpawnServerKeeps, SpawnErrorKeeps
  <2>4. CASE ProbeReady \/ ProbeBind \/ ProbeRelease \/ NotReady \/ DrainStderr
    BY <2>4, ProbeReadyKeeps, ProbeBindKeeps, ProbeReleaseKeeps, NotReadyKeeps, DrainStderrKeeps
  <2>5. CASE StartClient \/ ClientSpawnError \/ ClientExits \/ StartLocal
    BY <2>5, StartLocalKeeps, StartClientKeeps, ClientSpawnErrorKeeps, ClientExitsKeeps
  <2>. QED
    BY <1>6, <2>1, <2>2, <2>3, <2>4, <2>5 DEF Harness
<1>. QED
  BY <1>1, <1>2, <1>3, <1>4, <1>5, <1>6 DEF Next

\* The invariant: who holds the port, what is in flight between the client and
\* its server, which children are guarded, and what the samples taken so far and
\* the verdict say, for every number of samples, frame size and metric value.
THEOREM RunSound == Spec => []Inv
<1>. QED
  BY InitSound, NextKeeps, PTL DEF Spec

\* Every round trip a client has timed is the echo of that round in full and of
\* no other, whatever the network loses and whenever servers die (round_trip).
THEOREM EchoesAreOwn == Spec => []OwnEcho
<1>1. Inv => OwnEcho
  BY DEF Inv, SamplesSoFar, OwnEcho
<1>. QED
  BY RunSound, <1>1, PTL

\* run_network_once leaves no server behind, and every sample was measured
\* against its own server with the counts of its stage.
THEOREM ServersAreKilled == Spec => []NoServerLeft
<1>1. Inv => NoServerLeft
  BY DEF Inv, ChildrenGuarded, SamplesTaken, NoServerLeft, Guarded
<1>. QED
  BY RunSound, <1>1, PTL

\* A verdict of pass comes with the asked number of samples, every expected
\* metric positive in each, and the lower median as the primary value.
THEOREM PassesAreEarned == Spec => []PassIsEarned
<1>1. Inv => PassIsEarned
  <2>. SUFFICES ASSUME Inv, verdict.status = "pass"
                PROVE  LET xs == series[spec.primary]
                           n  == Len(xs)
                       IN  /\ n = SampleCount /\ Len(measured) = n
                           /\ \A k \in spec.expected : \A i \in 1..n : series[k][i] > 0
                           /\ 2 * Cardinality({i \in 1..n : xs[i] < verdict.primary}) < n
                           /\ 2 * Cardinality({i \in 1..n : xs[i] <= verdict.primary}) >= n
    BY DEF PassIsEarned
  <2>1. spec \in TaskRows /\ stage = "tests" /\ verdict.primary = Median(Taken)
    BY DEF Inv, PassIsMedian
  <2>2. Len(Taken) = SampleCount /\ Len(measured) = Len(Taken) /\ SampleCount > 0
    BY <2>1 DEF Inv, SamplesTaken, SampleCount
  <2>3. Taken = series[spec.primary] /\ series # <<>>
    BY <2>2 DEF Taken
  <2>4. /\ series \in [spec.expected -> Seq(1..MaxValue)]
        /\ \A k \in spec.expected : Len(series[k]) = Len(Taken)
    BY <2>3 DEF Inv, SamplesTaken
  <2>5. \A k \in spec.expected : \A i \in 1..Len(Taken) : series[k][i] > 0
    BY <2>4, RunIterAssumption
  <2>6. Taken \in Seq(Int)
    <3>1. series[spec.primary] \in Seq(1..MaxValue)
      BY <2>1, <2>4, RowFields
    <3>. QED
      BY <2>3, <3>1, RunIterAssumption
  <2>7. /\ 2 * Cardinality({i \in 1..Len(Taken) : Taken[i] < Median(Taken)}) < Len(Taken)
        /\ 2 * Cardinality({i \in 1..Len(Taken) : Taken[i] <= Median(Taken)}) >= Len(Taken)
    BY <2>2, <2>6, MedianIsMiddle
  <2>. QED
    BY <2>1, <2>2, <2>3, <2>5, <2>7
<1>. QED
  BY RunSound, <1>1, PTL

=============================================================================
