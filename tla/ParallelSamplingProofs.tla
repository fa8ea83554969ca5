------------------------ MODULE ParallelSamplingProofs ------------------------
(***************************************************************************)
(* Proofs about ParallelSampling, for all numbers of samples, of workers   *)
(* and of threads and for every schedule: no two workers draw from the     *)
(* same stream, and what a successful call returns is every draw of every  *)
(* worker, in the workers' order.                                          *)
(***************************************************************************)
EXTENDS ParallelSampling, GraphLemmas

(***************************************************************************)
(* The inductive invariant.  A worker that has not ended holds the first   *)
(* of its own draws and nobody else's; the sum of one that has ended, with *)
(* what it has taken in, is all there is between its first draw and the    *)
(* next live worker's.                                                     *)
(***************************************************************************)
Draws(w) == [i \in 1..w.count |-> <<w.stream, i>>]

(* The draws of the first k workers.                                       *)
UpTo(ws) ==
  LET upTo[k \in 0..Len(ws)] ==
        IF k = 0 THEN << >>
        ELSE upTo[k - 1] \o [i \in 1..ws[k].count |-> <<ws[k].stream, i>>]
  IN  upTo

AreWorkers(ws) ==
  /\ Len(ws) \in Nat
  /\ ws = [k \in 1..Len(ws) |-> ws[k]]
  /\ \A k \in 1..Len(ws) : ws[k].count \in Nat
  /\ \A j, k \in 1..Len(ws) : ws[j].stream = ws[k].stream => j = k

Last == Len(workers)
AllDraws == {workers[k].stream : k \in 1..Last} \X Nat

WorkersInv ==
  /\ call \in Calls /\ pool \in PoolSizes
  /\ AreWorkers(workers)
  /\ Last > 0 => Len(UpTo(workers)[Last]) = call.samples

States == {"queued", "running", "walking", "waiting", "calling", "done", "failed", "skipped"}

ShapeInv ==
  /\ state \in [1..Last -> States]
  /\ sums \in [1..Last -> Seq(AllDraws)]
  /\ live \subseteq 1..Last
  /\ Last > 0 => 1 \in live

(* Worker k is on its own work still.                                      *)
OwnInv ==
  \A k \in 1..Last : state[k] # "done" =>
    /\ k \in live /\ (k = Last \/ k + 1 \in live)
    /\ Len(sums[k]) <= workers[k].count
    /\ state[k] \in {"walking", "waiting", "calling"} => Len(sums[k]) < workers[k].count
    /\ \A i \in 1..Len(sums[k]) : sums[k][i] = <<workers[k].stream, i>>

(* Nothing is between j and k: k is the next live worker, or the end.      *)
NextAfter(j, k) == j < k /\ \A i \in live : ~(j < i /\ i < k)

JoinedInv ==
  \A j \in live, k \in live \cup {Last + 1} :
    NextAfter(j, k) /\ state[j] = "done" => UpTo(workers)[j - 1] \o sums[j] = UpTo(workers)[k - 1]

ResultInv ==
  result = "ok" => live \subseteq {1} /\ \A k \in 1..Last : state[k] = "done"

IInv == WorkersInv /\ ShapeInv /\ OwnInv /\ JoinedInv /\ ResultInv
------------------------------------------------------------------------------
(* The workers of a call.                                                  *)

(* The slices are the samples, one after another.                          *)
LEMMA SlicesCover ==
  ASSUME NEW n \in Nat, NEW t \in Nat \ {0}
  PROVE  /\ Cut(n, t, 0) = 0 /\ Cut(n, t, t) = n
         /\ \A k \in 0..t : Cut(n, t, k) \in Nat
         /\ \A k \in 1..t : /\ Slice(n, t, k) \in Nat
                            /\ Cut(n, t, k) = Cut(n, t, k - 1) + Slice(n, t, k)
<1>1. Cut(n, t, 0) = 0
  BY DEF Cut
<1>2. Cut(n, t, t) = n
  BY DEF Cut
<1>3. ASSUME NEW k \in 0..t
      PROVE  Cut(n, t, k) \in Nat
  <2>1. n * k \in Nat
    OBVIOUS
  <2> DEFINE a == n * k
  <2> HIDE DEF a
  <2>2. a \in Nat /\ a <= a
    BY <2>1 DEF a
  <2>3. a \div t \in Nat
    BY <2>2, DivisionKeepsOrder
  <2> QED
    BY <2>3 DEF Cut, a
<1>4. ASSUME NEW k \in 1..t
      PROVE  Cut(n, t, k - 1) <= Cut(n, t, k)
  <2> DEFINE a == n * (k - 1)
             b == n * k
  <2>1. a \in Nat /\ b \in Nat /\ a <= b
    <3>1. k - 1 \in Nat /\ k \in Nat /\ n * k = n * (k - 1) + n
      OBVIOUS
    <3>2. n * (k - 1) \in Nat
      BY <3>1
    <3> QED
      BY <3>1, <3>2
  <2> HIDE DEF a, b
  <2>2. a \div t <= b \div t
    BY <2>1, DivisionKeepsOrder
  <2> QED
    BY <2>2 DEF Cut, a, b
<1>5. ASSUME NEW k \in 1..t
      PROVE  Slice(n, t, k) \in Nat /\ Cut(n, t, k) = Cut(n, t, k - 1) + Slice(n, t, k)
  <2>1. k \in 0..t /\ k - 1 \in 0..t
    OBVIOUS
  <2>2. Cut(n, t, k) \in Nat /\ Cut(n, t, k - 1) \in Nat /\ Cut(n, t, k - 1) <= Cut(n, t, k)
    BY <1>3, <1>4, <2>1
  <2>3. Slice(n, t, k) = Cut(n, t, k) - Cut(n, t, k - 1)
    BY DEF Slice
  <2> DEFINE c == Cut(n, t, k)
             d == Cut(n, t, k - 1)
  <2> HIDE DEF c, d
  <2>4. c \in Nat /\ d \in Nat /\ d <= c /\ Slice(n, t, k) = c - d
    BY <2>2, <2>3 DEF c, d
  <2>5. Slice(n, t, k) \in Nat /\ c = d + Slice(n, t, k)
    BY <2>4
  <2> QED
    BY <2>5 DEF c, d
<1> QED
  BY <1>1, <1>2, <1>3, <1>5

(* From a to b nothing is drawn if no slice in between has work.           *)
LEMMA CutsMeet ==
  ASSUME NEW n \in Nat, NEW t \in Nat \ {0}, NEW a \in 0..t, NEW b \in a..t,
         \A k \in 1..t : a < k /\ k <= b => ~HasWork(Slice(n, t, k))
  PROVE  Cut(n, t, a) = Cut(n, t, b)
<1> DEFINE d == b - a
           g == [k \in 0..d |-> Cut(n, t, a + k)]
           h == [k \in 0..d |-> Cut(n, t, a)]
<1>1. d \in Nat /\ d \in 0..d /\ 0 \in 0..d /\ a + 0 = a /\ a + d = b
  OBVIOUS
<1>2. ASSUME NEW k \in 1..d
      PROVE  g[k] = g[k - 1]
  <2>1. a + k \in 1..t /\ k \in 0..d /\ k - 1 \in 0..d /\ a + (k - 1) = (a + k) - 1
        /\ a < a + k /\ a + k <= b
    OBVIOUS
  <2>2. ~HasWork(Slice(n, t, a + k))
    BY <2>1
  <2> DEFINE x == a + k
  <2> HIDE DEF x
  <2>3. x \in 1..t /\ ~HasWork(Slice(n, t, x)) /\ x \in 0..t /\ x - 1 \in 0..t
    BY <2>1, <2>2 DEF x
  <2>4. Slice(n, t, x) \in Nat /\ Cut(n, t, x) = Cut(n, t, x - 1) + Slice(n, t, x)
        /\ Cut(n, t, x - 1) \in Nat
    BY <2>3, SlicesCover
  <2>5. Slice(n, t, x) = 0
    BY <2>3, <2>4 DEF HasWork
  <2>6. Cut(n, t, x) = Cut(n, t, x - 1)
    BY <2>4, <2>5
  <2>7. g[k] = Cut(n, t, x) /\ g[k - 1] = Cut(n, t, x - 1)
    BY <2>1 DEF x
  <2> QED
    BY <2>6, <2>7
<1>3. InStep(d, g, h)
  <2>1. g[0] = h[0]
    BY <1>1
  <2>2. \A k \in 1..d : h[k] = h[k - 1]
    OBVIOUS
  <2> HIDE DEF g, h, d
  <2> QED
    BY <1>2, <2>1, <2>2 DEF InStep
<1>4. g[d] = h[d]
  <2> HIDE DEF g, h, d
  <2> QED
    BY <1>1, <1>3, RecursionIsUnique
<1> QED
  BY <1>1, <1>4

(* Each worker takes up where the one before ends, and the last at n.      *)
EndAt(ws, n, e) ==
  /\ e \in [0..Len(ws) -> Nat]
  /\ e[0] = 0 /\ e[Len(ws)] = n
  /\ \A k \in 1..Len(ws) : e[k] = e[k - 1] + ws[k].count

(* The number of seeds.                                                    *)
LEMMA SeedsAreNumbers == 2^Width \in Nat
<1>1. Width \in Nat
  BY SizesAssumption
<1>2. IsFiniteSet(1..Width) /\ Cardinality(1..Width) = Width
  <2>1. IsFiniteSet(1..Width) /\ Cardinality(1..Width) = IF 1 > Width THEN 0 ELSE Width - 1 + 1
    BY <1>1, FS_Interval
  <2> QED
    BY <1>1, <2>1
<1>3. IsFiniteSet(SUBSET (1..Width)) /\ Cardinality(SUBSET (1..Width)) = 2^Width
  BY <1>2, FS_SUBSET
<1> QED
  BY <1>3, FS_CardinalityType

(* Streams of two workers of a seeded call.                                *)
LEMMA SeedsDiffer ==
  ASSUME NEW seed \in 0..(2^Width - 1),
         NEW j \in 0..(2^Width - 1), NEW k \in 0..(2^Width - 1),
         WorkerSeed(seed, j) = WorkerSeed(seed, k)
  PROVE  j = k
<1> DEFINE M == 2^Width
<1>1. M \in Nat
  BY SeedsAreNumbers
<1> DEFINE wrapped(x) == IF x < M THEN x ELSE x - M
<1> HIDE DEF M
<1>2. ASSUME NEW x \in 0..(2 * M - 2)
      PROVE  x % M = wrapped(x) /\ x % M \in 0..(M - 1)
  BY <1>1
<1>3. seed \in 0..(M - 1) /\ j \in 0..(M - 1) /\ k \in 0..(M - 1)
  BY DEF M
<1>4. seed + j \in 0..(2 * M - 2) /\ seed + k \in 0..(2 * M - 2)
  BY <1>1, <1>3
<1>5. Splitmix((seed + j) % M) = Splitmix((seed + k) % M)
  BY DEF WorkerSeed, M
<1>6. (seed + j) % M = (seed + k) % M
  <2>1. \A x, y \in 0..(M - 1) : Splitmix(x) = Splitmix(y) => x = y
    BY SplitmixAssumption DEF M
  <2>2. (seed + j) % M \in 0..(M - 1) /\ (seed + k) % M \in 0..(M - 1)
    BY <1>2, <1>4
  <2> QED
    BY <1>5, <2>1, <2>2
<1>7. wrapped(seed + j) = wrapped(seed + k)
  BY <1>2, <1>4, <1>6
<1> QED
  BY <1>1, <1>3, <1>7

(* The workers of a seeded call have streams of their own, and share out   *)
(* all the samples.                                                        *)
LEMMA SeededAreWorkers ==
  ASSUME NEW c \in Calls, c.seed # None, NEW size \in PoolSizes
  PROVE  LET ws == SeededWorkers(c, size)
         IN  AreWorkers(ws) /\ (Len(ws) > 0 => \E e : EndAt(ws, c.samples, e))
<1> DEFINE n == c.samples
           t == ThreadCount(c, size)
           busy == {k \in 1..t : HasWork(Slice(n, t, k))}
           b == Cardinality(busy)
           nth == [i \in 1..b |-> Nth(busy, i)]
           ws == SeededWorkers(c, size)
<1>1. /\ n \in Nat \ {0} /\ c.seed \in 0..(2^Width - 1)
      /\ t \in Nat /\ t \in 0..2^Width /\ 2^Width \in Int
  <2>1. c.samples \in Samples /\ c.seed \in Seeds /\ c.threads \in Threads \cup {None}
    BY DEF Calls
  <2> DEFINE M == 2^Width
  <2>2. M \in Nat
    BY SeedsAreNumbers
  <2>3. Threads \subseteq 0..M /\ PoolSizes \subseteq 1..M /\ Seeds \subseteq 0..(M - 1)
        /\ Samples \subseteq Nat \ {0}
    BY SizesAssumption
  <2> HIDE DEF M
  <2>4. t \in Threads \/ t \in PoolSizes
    BY <2>1 DEF ThreadCount
  <2>5. t \in 0..M /\ t \in Nat
    <3> HIDE DEF t
    <3>1. \A x \in 0..M : x \in Nat
      BY <2>2
    <3>2. \A x \in 1..M : x \in 0..M
      BY <2>2
    <3> QED
      BY <2>3, <2>4, <3>1, <3>2
  <2>6. n \in Nat \ {0}
    BY <2>1, <2>3
  <2>7. c.seed \in 0..(M - 1) /\ M \in Int
    <3>1. Seeds \subseteq 0..(M - 1) /\ c.seed \in Seeds
      BY <2>1, <2>3
    <3>2. c.seed \in 0..(M - 1)
      BY <3>1
    <3> QED
      BY <2>2, <3>2
  <2> HIDE DEF t, n
  <2> QED
    BY <2>5, <2>6, <2>7 DEF M
<1>2. ws = [i \in 1..b |-> [count |-> Slice(n, t, Nth(busy, i)),
                           stream |-> WorkerSeed(c.seed, Nth(busy, i) - 1)]]
  BY DEF SeededWorkers
<1> HIDE DEF t, ws
<1>3. busy \in SUBSET Nat /\ busy \in SUBSET (1..t) /\ IsFiniteSet(busy)
  <2>1. IsFiniteSet(1..t)
    BY <1>1, FS_Interval
  <2>2. busy \in SUBSET (1..t) /\ (1..t) \in SUBSET Nat
    BY <1>1
  <2> HIDE DEF busy
  <2> QED
    BY <2>1, <2>2, FS_Subset
<1>4. /\ b \in Nat
      /\ \A i \in 1..b : nth[i] \in busy
      /\ \A i, j \in 1..b : i < j => nth[i] < nth[j]
      /\ \A k \in busy : \E i \in 1..b : nth[i] = k
  <2> HIDE DEF busy
  <2> QED
    BY <1>3, NthInOrder
<1>5. /\ Len(ws) = b /\ ws = [i \in 1..Len(ws) |-> ws[i]]
      /\ \A i \in 1..b : /\ ws[i].count = Slice(n, t, nth[i])
                        /\ ws[i].stream = WorkerSeed(c.seed, nth[i] - 1)
  <2> HIDE DEF b, busy
  <2> QED
    BY <1>2, <1>4
<1> HIDE DEF nth, b
<1>6. \A i \in 1..b : /\ nth[i] \in 1..t /\ t # 0 /\ ws[i].count \in Nat
                      /\ nth[i] - 1 \in 0..(2^Width - 1)
  <2> SUFFICES ASSUME NEW i \in 1..b
               PROVE  /\ nth[i] \in 1..t /\ t # 0 /\ ws[i].count \in Nat
                      /\ nth[i] - 1 \in 0..(2^Width - 1)
    OBVIOUS
  <2> DEFINE M == 2^Width
             k == nth[i]
  <2>1. k \in 1..t
    BY <1>3, <1>4
  <2> HIDE DEF M, k
  <2>2. t \in 0..M /\ M \in Int /\ t \in Nat
    BY <1>1 DEF M
  <2>3. t # 0 /\ k - 1 \in 0..(M - 1)
    BY <2>1, <2>2
  <2>4. Slice(n, t, k) \in Nat
    BY <1>1, <2>1, <2>2, <2>3, SlicesCover
  <2> QED
    BY <1>5, <2>1, <2>3, <2>4 DEF k, M
<1>7. \A i, j \in 1..b : ws[i].stream = ws[j].stream => i = j
  <2> SUFFICES ASSUME NEW i \in 1..b, NEW j \in 1..b, ws[i].stream = ws[j].stream
               PROVE  i = j
    OBVIOUS
  <2>1. nth[i] - 1 = nth[j] - 1
    BY <1>1, <1>5, <1>6, SeedsDiffer
  <2>2. nth[i] = nth[j] /\ nth[i] \in Nat /\ nth[j] \in Nat
    <3>1. nth[i] \in 1..t /\ nth[j] \in 1..t
      BY <1>6
    <3> QED
      BY <1>1, <2>1, <3>1
  <2>3. i \in Nat /\ j \in Nat /\ ~(i < j) /\ ~(j < i)
    BY <1>4, <2>2
  <2> QED
    BY <2>3
<1>8. AreWorkers(ws)
  BY <1>4, <1>5, <1>6, <1>7 DEF AreWorkers
<1>9. ASSUME b > 0
      PROVE  \E e : EndAt(ws, n, e)
  <2> DEFINE e == [i \in 0..b |-> IF i = 0 THEN 0 ELSE Cut(n, t, nth[i])]
  <2>1. 1 \in 1..b /\ b \in 1..b /\ t \in Nat \ {0}
    BY <1>1, <1>4, <1>6, <1>9
  <2>2. \A k \in busy : k \in 1..t /\ \E i \in 1..b : nth[i] = k
    BY <1>3, <1>4
  <2>3. \A k \in 1..t : k \notin busy => ~HasWork(Slice(n, t, k))
    BY DEF busy
  <2> HIDE DEF busy
  <2>4. ASSUME NEW i \in 1..b
        PROVE  e[i] = e[i - 1] + ws[i].count
    <3> DEFINE last == IF i = 1 THEN 0 ELSE nth[i - 1]
               k == nth[i]
    <3>1. /\ k \in 1..t /\ last \in 0..t /\ last < k /\ k - 1 \in last..t /\ k \in 0..t
      <4>1. CASE i = 1
        BY <1>6, <2>1, <4>1
      <4>2. CASE i # 1
        <5>1. i - 1 \in 1..b /\ i - 1 < i
          BY <1>4, <4>2
        <5>2. nth[i - 1] < nth[i] /\ nth[i - 1] \in 1..t /\ nth[i] \in 1..t
          BY <1>4, <1>6, <5>1
        <5> QED
          BY <2>1, <4>2, <5>2
      <4> QED
        BY <4>1, <4>2
    <3>2. ASSUME NEW x \in 1..t, last < x, x <= k - 1
          PROVE  x \notin busy
      <4> SUFFICES ASSUME x \in busy
                   PROVE  FALSE
        OBVIOUS
      <4>1. PICK l \in 1..b : nth[l] = x
        BY <2>2
      <4>2. l \in Nat /\ i \in Nat /\ k \in Nat /\ x \in Nat /\ x < k
        BY <1>4, <2>1, <3>1, <3>2
      <4>3. ~(i <= l)
        <5>1. i = l => x = k
          BY <4>1
        <5>2. i < l => k < x
          BY <1>4, <4>1
        <5> QED
          BY <4>2, <5>1, <5>2
      <4>4. i # 1 /\ i - 1 \in 1..b /\ l <= i - 1
        BY <1>4, <4>2, <4>3
      <4>5. l = i - 1 \/ l < i - 1
        BY <4>2, <4>4
      <4>6. x <= nth[i - 1] /\ nth[i - 1] \in Nat
        <5>1. nth[i - 1] \in 1..t
          BY <1>6, <4>4
        <5>2. l < i - 1 => nth[l] < nth[i - 1]
          BY <1>4, <4>4
        <5> QED
          BY <2>1, <4>1, <4>2, <4>5, <5>1, <5>2
      <4> QED
        BY <3>2, <4>2, <4>4, <4>6
    <3>3. Cut(n, t, last) = Cut(n, t, k - 1)
      <4> HIDE DEF last, k
      <4>1. k - 1 \in last..t /\ last \in 0..t /\ n \in Nat
        BY <1>1, <3>1
      <4>2. \A x \in 1..t : last < x /\ x <= k - 1 => ~HasWork(Slice(n, t, x))
        BY <2>3, <3>2
      <4> DEFINE y == k - 1
      <4> HIDE DEF y
      <4>3. y \in last..t /\ \A x \in 1..t : last < x /\ x <= y => ~HasWork(Slice(n, t, x))
        BY <4>1, <4>2 DEF y
      <4>4. Cut(n, t, last) = Cut(n, t, y)
        BY <2>1, <4>1, <4>3, CutsMeet
      <4> QED
        BY <4>4 DEF y
    <3>4. Cut(n, t, k) = Cut(n, t, k - 1) + Slice(n, t, k) /\ Cut(n, t, 0) = 0
      <4> HIDE DEF k
      <4> QED
        BY <1>1, <2>1, <3>1, SlicesCover
    <3>5. e[i - 1] = Cut(n, t, last)
      <4>1. CASE i = 1
        BY <1>4, <3>4, <4>1
      <4>2. CASE i # 1
        <5>1. i - 1 \in 0..b /\ i - 1 # 0
          BY <1>4, <4>2
        <5> QED
          BY <4>2, <5>1
      <4> QED
        BY <4>1, <4>2
    <3>6. e[i] = Cut(n, t, k) /\ ws[i].count = Slice(n, t, k)
      BY <1>4, <1>5
    <3> QED
      BY <3>3, <3>4, <3>5, <3>6
  <2>5. e \in [0..b -> Nat]
    <3> SUFFICES ASSUME NEW i \in 0..b
                 PROVE  (IF i = 0 THEN 0 ELSE Cut(n, t, nth[i])) \in Nat
      OBVIOUS
    <3>1. CASE i # 0
      <4>1. i \in 1..b
        BY <1>4, <3>1
      <4>2. nth[i] \in 0..t
        BY <1>6, <2>1, <4>1
      <4>3. Cut(n, t, nth[i]) \in Nat
        BY <1>1, <2>1, <4>2, SlicesCover
      <4> QED
        BY <3>1, <4>3
    <3> QED
      BY <3>1
  <2>6. e[b] = n
    <3>1. nth[b] \in 1..t /\ nth[b] \in 0..t /\ t \in nth[b]..t
      BY <1>6, <2>1
    <3>2. ASSUME NEW x \in 1..t, nth[b] < x
          PROVE  x \notin busy
      <4> SUFFICES ASSUME x \in busy
                   PROVE  FALSE
        OBVIOUS
      <4>1. PICK l \in 1..b : nth[l] = x
        BY <2>2
      <4>2. l = b \/ l < b
        BY <1>4
      <4>3. l < b => x < nth[b]
        BY <1>4, <2>1, <4>1
      <4> QED
        BY <2>1, <3>1, <3>2, <4>1, <4>2, <4>3
    <3> DEFINE a == nth[b]
    <3> HIDE DEF a
    <3>3. a \in 0..t /\ t \in a..t /\ \A x \in 1..t : a < x /\ x <= t => ~HasWork(Slice(n, t, x))
      BY <2>3, <3>1, <3>2 DEF a
    <3>4. Cut(n, t, a) = Cut(n, t, t) /\ Cut(n, t, t) = n
      <4> HIDE DEF n, t, e
      <4>1. Cut(n, t, t) = n
        BY <1>1, <2>1, SlicesCover
      <4>2. Cut(n, t, a) = Cut(n, t, t)
        BY <1>1, <2>1, <3>3, CutsMeet
      <4> QED
        BY <4>1, <4>2
    <3>5. e[b] = Cut(n, t, a)
      BY <1>4, <2>1 DEF a
    <3> QED
      BY <3>4, <3>5
  <2>7. e[0] = 0
    BY <1>4
  <2> HIDE DEF e
  <2>8. EndAt(ws, n, e)
    BY <1>5, <2>4, <2>5, <2>6, <2>7 DEF EndAt
  <2> QED
    BY <2>8
<1> QED
  BY <1>5, <1>8, <1>9 DEF ws

(* So have the pieces of an unseeded one.                                  *)
LEMMA UnseededAreWorkers ==
  ASSUME NEW c \in Calls, NEW ws \in UnseededWorkers(c)
  PROVE  AreWorkers(ws) /\ \E e : EndAt(ws, c.samples, e)
<1>1. c.samples \in Nat
  BY SizesAssumption DEF Calls
<1>2. PICK n \in 1..c.samples :
        \E cut \in [0..n -> 0..c.samples] :
          /\ cut[0] = 0 /\ cut[n] = c.samples /\ \A k \in 1..n : cut[k - 1] < cut[k]
          /\ ws = [k \in 1..n |-> [count |-> cut[k] - cut[k - 1], stream |-> <<"entropy", k>>]]
  BY DEF UnseededWorkers
<1>3. PICK cut \in [0..n -> 0..c.samples] :
        /\ cut[0] = 0 /\ cut[n] = c.samples /\ \A k \in 1..n : cut[k - 1] < cut[k]
        /\ ws = [k \in 1..n |-> [count |-> cut[k] - cut[k - 1], stream |-> <<"entropy", k>>]]
  BY <1>2
<1>4. n \in Nat /\ \A k \in 1..n : k \in 0..n /\ k - 1 \in 0..n
  BY <1>1
<1>5. /\ Len(ws) = n /\ ws = [k \in 1..Len(ws) |-> ws[k]]
      /\ \A k \in 1..n : ws[k].count = cut[k] - cut[k - 1] /\ ws[k].stream = <<"entropy", k>>
  BY <1>3, <1>4
<1>6. \A k \in 0..n : cut[k] \in Nat
  BY <1>1
<1>7. \A k \in 1..n : ws[k].count \in Nat /\ cut[k] = cut[k - 1] + ws[k].count
  <2> SUFFICES ASSUME NEW k \in 1..n
               PROVE  ws[k].count \in Nat /\ cut[k] = cut[k - 1] + ws[k].count
    OBVIOUS
  <2>1. cut[k] \in Nat /\ cut[k - 1] \in Nat /\ cut[k - 1] < cut[k]
    BY <1>3, <1>4, <1>6
  <2>2. ws[k].count = cut[k] - cut[k - 1]
    BY <1>5
  <2> QED
    BY <2>1, <2>2
<1>8. AreWorkers(ws)
  BY <1>4, <1>5, <1>7 DEF AreWorkers
<1>9. EndAt(ws, c.samples, cut)
  BY <1>3, <1>4, <1>5, <1>6, <1>7 DEF EndAt
<1> QED
  BY <1>8, <1>9

(* The draws of the first k workers, worker by worker.                     *)
LEMMA UpToSteps ==
  ASSUME NEW ws, AreWorkers(ws), NEW S, \A k \in 1..Len(ws) : ws[k].stream \in S
  PROVE  /\ \A k \in 0..Len(ws) : UpTo(ws)[k] \in Seq(S \X Nat)
         /\ UpTo(ws)[0] = << >>
         /\ \A k \in 1..Len(ws) : /\ Draws(ws[k]) \in Seq(S \X Nat)
                                 /\ UpTo(ws)[k] = UpTo(ws)[k - 1] \o Draws(ws[k])
<1> DEFINE n == Len(ws)
           V == Seq(S \X Nat)
           step == [k \in 1..n |-> [x \in V |-> x \o Draws(ws[k])]]
           eq(g) == g = [k \in 0..n |-> IF k = 0 THEN << >> ELSE g[k - 1] \o Draws(ws[k])]
           up == CHOOSE g : eq(g)
<1>1. n \in Nat /\ \A k \in 1..n : k \in 0..n /\ k - 1 \in 0..n /\ k # 0
  BY DEF AreWorkers
<1>2. ASSUME NEW k \in 1..n
      PROVE  Draws(ws[k]) \in V
  <2>1. ws[k].count \in Nat /\ ws[k].stream \in S
    BY DEF AreWorkers
  <2>2. Draws(ws[k]) \in [1..ws[k].count -> S \X Nat]
    BY <2>1 DEF Draws
  <2> QED
    BY <2>1, <2>2
<1> HIDE DEF n
<1>3. IsStep(n, V, step)
  <2> SUFFICES ASSUME NEW k \in 1..n, NEW x \in V
               PROVE  step[k][x] \in V
    BY DEF IsStep
  <2>1. step[k][x] = x \o Draws(ws[k])
    OBVIOUS
  <2> DEFINE T == S \X Nat
             d == Draws(ws[k])
  <2>2. x \in Seq(T) /\ d \in Seq(T)
    BY <1>2
  <2> HIDE DEF T, d
  <2>3. x \o d \in Seq(T)
    BY <2>2, ConcatProperties
  <2> QED
    BY <2>1, <2>3 DEF T, d
<1>4. << >> \in V
  OBVIOUS
<1> HIDE DEF step, V
<1>5. PICK g : Follows(n, V, << >>, step, g)
  BY <1>1, <1>3, <1>4, RecursionExists
<1>6. /\ g \in [0..n -> V] /\ g[0] = << >>
      /\ \A k \in 1..n : g[k] = g[k - 1] \o Draws(ws[k])
  <2>1. /\ g \in [0..n -> V] /\ g[0] = << >>
        /\ \A k \in 1..n : g[k] = step[k][g[k - 1]]
    BY <1>5 DEF Follows
  <2>2. ASSUME NEW k \in 1..n
        PROVE  g[k] = g[k - 1] \o Draws(ws[k])
    <3>1. g[k - 1] \in V
      BY <1>1, <2>1
    <3> QED
      BY <2>1, <3>1 DEF step
  <2> QED
    BY <2>1, <2>2
<1>7. eq(g)
  <2>1. \A k \in 0..n : g[k] = IF k = 0 THEN << >> ELSE g[k - 1] \o Draws(ws[k])
    BY <1>1, <1>6
  <2> QED
    BY <1>6, <2>1
<1>8. eq(up)
  BY <1>7
<1>9. UpTo(ws) = up
  BY DEF UpTo, Draws, n
<1> HIDE DEF up
<1>10. up[0] = << >> /\ \A k \in 1..n : up[k] = up[k - 1] \o Draws(ws[k])
  <2> DEFINE body(k) == IF k = 0 THEN << >> ELSE up[k - 1] \o Draws(ws[k])
  <2>1. up = [k \in 0..n |-> body(k)]
    BY <1>8
  <2> HIDE DEF body
  <2>2. \A k \in 0..n : up[k] = body(k)
    BY <2>1
  <2>3. 0 \in 0..n
    BY <1>1
  <2> QED
    BY <1>1, <2>2, <2>3 DEF body
<1>11. \A k \in 0..n : up[k] = g[k]
  <2>1. InStep(n, up, g)
    BY <1>6, <1>10 DEF InStep
  <2> QED
    BY <1>1, <2>1, RecursionIsUnique
<1>12. \A k \in 0..n : up[k] \in V
  BY <1>6, <1>11
<1> QED
  BY <1>2, <1>9, <1>10, <1>12 DEF n, V

(* All of them are the draws in order.                                     *)
LEMMA InOrderIsUpTo ==
  ASSUME NEW ws
  PROVE  InOrder(ws) = UpTo(ws)[Len(ws)]
BY DEF InOrder, UpTo

(* They are as many as there are samples.                                  *)
LEMMA NumberOfDraws ==
  ASSUME NEW ws, AreWorkers(ws), NEW n, NEW e, EndAt(ws, n, e)
  PROVE  Len(UpTo(ws)[Len(ws)]) = n
<1> DEFINE l == Len(ws)
           S == {ws[k].stream : k \in 1..l}
           up == UpTo(ws)
           len == [k \in 0..l |-> Len(up[k])]
<1>1. l \in Nat /\ l \in 0..l /\ 0 \in 0..l /\ \A k \in 1..l : k \in 0..l /\ k - 1 \in 0..l
  BY DEF AreWorkers
<1>2. \A k \in 1..l : ws[k].stream \in S
  OBVIOUS
<1> HIDE DEF S
<1>3. /\ \A k \in 0..l : up[k] \in Seq(S \X Nat)
      /\ up[0] = << >>
      /\ \A k \in 1..l : Draws(ws[k]) \in Seq(S \X Nat) /\ up[k] = up[k - 1] \o Draws(ws[k])
  BY <1>2, UpToSteps
<1>4. e[0] = 0 /\ e[l] = n /\ \A k \in 1..l : e[k] = e[k - 1] + ws[k].count
  BY DEF EndAt
<1>5. ASSUME NEW k \in 1..l
      PROVE  len[k] = len[k - 1] + ws[k].count
  <2> DEFINE T == S \X Nat
             d == Draws(ws[k])
  <2>1. up[k - 1] \in Seq(T) /\ d \in Seq(T) /\ up[k] = up[k - 1] \o d
    BY <1>1, <1>3
  <2>2. Len(d) = ws[k].count
    <3>1. ws[k].count \in Nat
      BY DEF AreWorkers
    <3> QED
      BY <3>1 DEF Draws
  <2>3. len[k] = Len(up[k]) /\ len[k - 1] = Len(up[k - 1])
    BY <1>1
  <2> HIDE DEF T, d, up, len
  <2>4. Len(up[k - 1] \o d) = Len(up[k - 1]) + Len(d)
    BY <2>1, ConcatProperties
  <2> QED
    BY <2>1, <2>2, <2>3, <2>4
<1>6. len[0] = 0
  <2>1. Len(<< >>) = 0
    OBVIOUS
  <2> QED
    BY <1>1, <1>3, <2>1
<1> HIDE DEF len, up
<1>7. InStep(l, len, e)
  BY <1>4, <1>5, <1>6 DEF InStep
<1>8. len[l] = e[l]
  <2> HIDE DEF l
  <2> QED
    BY <1>1, <1>7, RecursionIsUnique
<1> QED
  BY <1>1, <1>4, <1>8 DEF len, up
------------------------------------------------------------------------------
(* One lemma for each group of steps.                                      *)

(* Before the launch there is neither a worker nor a sum.                  *)
LEMMA InitInv == Init => IInv
<1> SUFFICES ASSUME Init PROVE IInv
  OBVIOUS
<1>1. workers = << >> /\ state = << >> /\ sums = << >> /\ live = {} /\ result = None /\ Last = 0
  BY DEF Init, Last
<1>2. AreWorkers(workers)
  BY <1>1 DEF AreWorkers, Last
<1>3. WorkersInv
  BY <1>1, <1>2 DEF Init, WorkersInv
<1>4. ShapeInv
  BY <1>1 DEF ShapeInv
<1>5. OwnInv /\ JoinedInv
  BY <1>1 DEF OwnInv, JoinedInv
<1>6. ResultInv
  BY <1>1, SizesAssumption DEF ResultInv
<1> QED
  BY <1>3, <1>4, <1>5, <1>6 DEF IInv

(* The launch makes workers that share out the samples; none has drawn     *)
(* yet.                                                                    *)
LEMMA LaunchInv == IInv /\ Launch => IInv'
<1> SUFFICES ASSUME IInv, Launch PROVE IInv'
  OBVIOUS
<1>1. /\ call \in Calls /\ pool \in PoolSizes /\ call' = call /\ pool' = pool
      /\ result = None /\ result' = result
      /\ state' = [k \in DOMAIN workers' |-> "queued"]
      /\ sums' = [k \in DOMAIN workers' |-> << >>]
      /\ live' = DOMAIN workers'
  BY DEF IInv, WorkersInv, Launch
<1>2. AreWorkers(workers') /\ (Len(workers') > 0 => \E e : EndAt(workers', call.samples, e))
  <2>1. CASE call.seed = None
    <3>1. workers' \in UnseededWorkers(call)
      BY <2>1 DEF Launch
    <3> QED
      BY <1>1, <3>1, UnseededAreWorkers
  <2>2. CASE call.seed # None
    <3>1. workers' = SeededWorkers(call, pool)
      BY <2>2 DEF Launch
    <3> QED
      BY <1>1, <2>2, <3>1, SeededAreWorkers
  <2> QED
    BY <2>1, <2>2
<1> DEFINE n == Len(workers')
<1>3. n \in Nat /\ DOMAIN workers' = 1..n /\ Last' = n
  BY <1>2 DEF AreWorkers, Last
<1> HIDE DEF n
<1>4. WorkersInv'
  <2>1. n > 0 => Len(UpTo(workers')[n]) = call.samples
    BY <1>2, NumberOfDraws DEF n
  <2> QED
    BY <1>1, <1>2, <1>3, <2>1 DEF WorkersInv
<1>5. ShapeInv'
  <2>1. << >> \in Seq(AllDraws')
    OBVIOUS
  <2>2. state' \in [1..n -> States]
    BY <1>1, <1>3 DEF States
  <2> QED
    BY <1>1, <1>3, <2>1, <2>2 DEF ShapeInv
<1>6. OwnInv'
  <2> SUFFICES ASSUME NEW k \in 1..n
               PROVE  /\ k \in live' /\ (k = n \/ k + 1 \in live')
                      /\ Len(sums'[k]) <= workers'[k].count
                      /\ state'[k] = "queued"
                      /\ \A i \in 1..Len(sums'[k]) : sums'[k][i] = <<workers'[k].stream, i>>
    BY <1>3 DEF OwnInv
  <2>1. sums'[k] = << >> /\ Len(<< >>) = 0
    BY <1>1, <1>3
  <2>2. workers'[k].count \in Nat
    BY <1>2 DEF AreWorkers, n
  <2> QED
    BY <1>1, <1>3, <2>1, <2>2
<1>7. JoinedInv'
  BY <1>1, <1>3 DEF JoinedInv
<1>8. ResultInv'
  BY <1>1, SizesAssumption DEF ResultInv
<1> QED
  BY <1>4, <1>5, <1>6, <1>7, <1>8 DEF IInv

(* The caller returns with at most one sum left, or with the error.        *)
LEMMA ReturnInv == IInv /\ (ReturnOk \/ ReturnError) => IInv'
<1> SUFFICES ASSUME IInv, ReturnOk \/ ReturnError PROVE IInv'
  OBVIOUS
<1>1. /\ call' = call /\ pool' = pool /\ workers' = workers /\ state' = state /\ sums' = sums
      /\ live' = live
  BY DEF ReturnOk, ReturnError
<1>2. Last' = Last /\ AllDraws' = AllDraws
  BY <1>1 DEF Last, AllDraws
<1>3. ResultInv'
  <2> SUFFICES ASSUME result' = "ok"
               PROVE  live \subseteq {1} /\ \A k \in 1..Last : state[k] = "done"
    BY <1>1, <1>2 DEF ResultInv
  <2>1. ReturnOk
    BY DEF ReturnError
  <2>2. Cardinality(live) <= 1 /\ \A k \in DOMAIN state : state[k] = "done"
    BY <2>1 DEF ReturnOk
  <2>3. state \in [1..Last -> States] /\ live \subseteq 1..Last /\ (Last > 0 => 1 \in live)
    BY DEF IInv, ShapeInv
  <2>4. Last \in Nat
    BY DEF IInv, WorkersInv, AreWorkers, Last
  <2>5. IsFiniteSet(live)
    <3>1. IsFiniteSet(1..Last)
      BY <2>4, FS_Interval
    <3> QED
      BY <2>3, <3>1, FS_Subset
  <2>6. ASSUME NEW k \in live
        PROVE  k = 1
    <3>1. 1 \in live
      BY <2>3, <2>4, <2>6
    <3>2. live # {}
      BY <3>1
    <3>3. Cardinality(live) \in Nat /\ Cardinality(live) # 0
      BY <2>5, <3>2, FS_CardinalityType, FS_EmptySet
    <3>4. Cardinality(live) = 1
      BY <2>2, <3>3
    <3>5. PICK x : live = {x}
      BY <2>5, <3>4, FS_Singleton
    <3> QED
      BY <3>1, <3>5
  <2> QED
    BY <2>2, <2>3, <2>6
<1>4. WorkersInv' /\ ShapeInv' /\ OwnInv' /\ JoinedInv'
  BY <1>1, <1>2 DEF IInv, WorkersInv, ShapeInv, OwnInv, JoinedInv, NextAfter
<1> QED
  BY <1>3, <1>4 DEF IInv

(* What the workers and their draws are, once and for all.                 *)
LEMMA WorkersAre ==
  ASSUME IInv
  PROVE  /\ Last \in Nat /\ DOMAIN workers = 1..Last /\ Last = Len(workers)
         /\ \A k \in 1..Last : /\ workers[k].count \in Nat
                              /\ workers[k].stream \in {workers[i].stream : i \in 1..Last}
         /\ \A k \in 0..Last : UpTo(workers)[k] \in Seq(AllDraws)
         /\ UpTo(workers)[0] = << >>
         /\ \A k \in 1..Last : UpTo(workers)[k] = UpTo(workers)[k - 1] \o Draws(workers[k])
<1>1. AreWorkers(workers)
  BY DEF IInv, WorkersInv
<1>2. Last \in Nat /\ DOMAIN workers = 1..Last /\ Last = Len(workers)
      /\ \A k \in 1..Last : workers[k].count \in Nat
  BY <1>1 DEF AreWorkers, Last
<1> DEFINE S == {workers[i].stream : i \in 1..Last}
<1>3. \A k \in 1..Last : workers[k].stream \in S
  OBVIOUS
<1>4. AllDraws = S \X Nat
  BY DEF AllDraws
<1> HIDE DEF S
<1>5. /\ \A k \in 0..Last : UpTo(workers)[k] \in Seq(S \X Nat)
      /\ UpTo(workers)[0] = << >>
      /\ \A k \in 1..Last : UpTo(workers)[k] = UpTo(workers)[k - 1] \o Draws(workers[k])
  BY <1>1, <1>2, <1>3, UpToSteps
<1> QED
  BY <1>2, <1>3, <1>4, <1>5 DEF S

(* Worker k takes a step that does not end it.                             *)
OwnStep(k, to) ==
  /\ state[k] # "done" /\ to \in States \ {"done"}
  /\ state' = [state EXCEPT ![k] = to]
  /\ call' = call /\ pool' = pool /\ workers' = workers /\ live' = live /\ result' = result

(* Such a step keeps the invariant if it leaves the sums alone, or adds    *)
(* the worker's next draw.                                                 *)
LEMMA OwnStepInv ==
  ASSUME IInv, NEW k \in 1..Last, NEW to, OwnStep(k, to),
         \/ /\ sums' = sums
            /\ to \in {"walking", "waiting", "calling"} => Len(sums[k]) < workers[k].count
         \/ Absorb(k) /\ to = "running" /\ Len(sums[k]) < workers[k].count
  PROVE  IInv'
<1>1. /\ state \in [1..Last -> States] /\ sums \in [1..Last -> Seq(AllDraws)]
      /\ call' = call /\ pool' = pool /\ workers' = workers /\ live' = live /\ result' = result
      /\ state' = [state EXCEPT ![k] = to] /\ to \in States \ {"done"} /\ state[k] # "done"
  BY DEF IInv, ShapeInv, OwnStep
<1>2. /\ Last' = Last /\ AllDraws' = AllDraws
  BY <1>1 DEF Last, AllDraws
<1>3. /\ state' \in [1..Last -> States] /\ state'[k] = to
      /\ \A j \in 1..Last : j # k => state'[j] = state[j]
  BY <1>1
<1>4. /\ Last \in Nat /\ \A j \in 1..Last : workers[j].count \in Nat
      /\ workers[k].stream \in {workers[i].stream : i \in 1..Last}
  BY WorkersAre
<1>5. /\ k \in live /\ (k = Last \/ k + 1 \in live)
      /\ Len(sums[k]) <= workers[k].count
      /\ \A i \in 1..Len(sums[k]) : sums[k][i] = <<workers[k].stream, i>>
  BY <1>1 DEF IInv, OwnInv
<1>6. Len(sums[k]) \in Nat /\ sums[k] \in Seq(AllDraws)
  BY <1>1
<1>7. /\ sums' \in [1..Last -> Seq(AllDraws)]
      /\ \A j \in 1..Last : j # k => sums'[j] = sums[j]
      /\ Len(sums'[k]) <= workers[k].count
      /\ to \in {"walking", "waiting", "calling"} => Len(sums'[k]) < workers[k].count
      /\ \A i \in 1..Len(sums'[k]) : sums'[k][i] = <<workers[k].stream, i>>
  <2>1. CASE /\ sums' = sums
             /\ to \in {"walking", "waiting", "calling"} => Len(sums[k]) < workers[k].count
    BY <1>1, <1>5, <2>1
  <2>2. CASE Absorb(k) /\ to = "running" /\ Len(sums[k]) < workers[k].count
    <3> DEFINE l == Len(sums[k])
               d == <<workers[k].stream, l + 1>>
    <3>1. sums' = [sums EXCEPT ![k] = Append(sums[k], d)]
      BY <1>1, <2>2 DEF Absorb
    <3>2. d \in AllDraws
      BY <1>4, <1>6 DEF AllDraws
    <3> HIDE DEF d
    <3>3. /\ Append(sums[k], d) \in Seq(AllDraws) /\ Len(Append(sums[k], d)) = l + 1
          /\ \A i \in 1..l : Append(sums[k], d)[i] = sums[k][i]
          /\ Append(sums[k], d)[l + 1] = d
      BY <1>6, <3>2, AppendProperties
    <3>4. /\ sums' \in [1..Last -> Seq(AllDraws)] /\ sums'[k] = Append(sums[k], d)
          /\ \A j \in 1..Last : j # k => sums'[j] = sums[j]
      BY <1>1, <3>1, <3>3
    <3>5. ASSUME NEW i \in 1..(l + 1)
          PROVE  sums'[k][i] = <<workers[k].stream, i>>
      <4>1. CASE i = l + 1
        BY <3>3, <3>4, <4>1 DEF d
      <4>2. CASE i # l + 1
        <5>1. i \in 1..l
          BY <1>6, <4>2
        <5> QED
          BY <1>5, <3>3, <3>4, <5>1
      <4> QED
        BY <4>1, <4>2
    <3>6. Len(sums'[k]) = l + 1 /\ l + 1 <= workers[k].count
      BY <1>4, <1>6, <2>2, <3>3, <3>4
    <3> QED
      BY <2>2, <3>4, <3>5, <3>6
  <2> QED
    BY <2>1, <2>2
<1>8. OwnInv'
  <2> SUFFICES ASSUME NEW j \in 1..Last, state'[j] # "done"
               PROVE  /\ j \in live /\ (j = Last \/ j + 1 \in live)
                      /\ Len(sums'[j]) <= workers[j].count
                      /\ state'[j] \in {"walking", "waiting", "calling"}
                           => Len(sums'[j]) < workers[j].count
                      /\ \A i \in 1..Len(sums'[j]) : sums'[j][i] = <<workers[j].stream, i>>
    BY <1>1, <1>2 DEF OwnInv
  <2>1. CASE j = k
    BY <1>3, <1>5, <1>7, <2>1
  <2>2. CASE j # k
    <3>1. state[j] # "done" /\ state'[j] = state[j] /\ sums'[j] = sums[j]
      BY <1>3, <1>7, <2>2
    <3> QED
      BY <3>1 DEF IInv, OwnInv
  <2> QED
    BY <2>1, <2>2
<1>9. JoinedInv'
  <2> SUFFICES ASSUME NEW j \in live, NEW x \in live \cup {Last + 1},
                      NextAfter(j, x), state'[j] = "done"
               PROVE  UpTo(workers)[j - 1] \o sums'[j] = UpTo(workers)[x - 1]
    BY <1>1, <1>2 DEF JoinedInv, NextAfter
  <2>1. j \in 1..Last
    BY DEF IInv, ShapeInv
  <2>2. j # k
    BY <1>1, <1>3
  <2> QED
    BY <1>3, <1>7, <2>1, <2>2 DEF IInv, JoinedInv
<1>10. ResultInv'
  <2>1. result # "ok"
    BY <1>1 DEF IInv, ResultInv
  <2> QED
    BY <1>1, <2>1 DEF ResultInv
<1>11. WorkersInv' /\ ShapeInv'
  BY <1>1, <1>2, <1>3, <1>7 DEF IInv, WorkersInv, ShapeInv
<1> QED
  BY <1>8, <1>9, <1>10, <1>11 DEF IInv

(* When a worker ends, its sum is all of its draws.                        *)
LEMMA EndInv == ASSUME IInv, NEW k \in 1..Last, End(k) PROVE IInv'
<1>1. /\ state \in [1..Last -> States] /\ sums \in [1..Last -> Seq(AllDraws)]
      /\ live \subseteq 1..Last
      /\ call' = call /\ pool' = pool /\ workers' = workers /\ live' = live /\ result' = result
      /\ sums' = sums /\ state' = [state EXCEPT ![k] = "done"] /\ state[k] = "running"
      /\ Len(sums[k]) = workers[k].count
  BY DEF IInv, ShapeInv, End, Move
<1>2. /\ Last' = Last /\ AllDraws' = AllDraws
  BY <1>1 DEF Last, AllDraws
<1>3. /\ state' \in [1..Last -> States] /\ state'[k] = "done"
      /\ \A j \in 1..Last : j # k => state'[j] = state[j]
  BY <1>1 DEF States
<1>4. /\ Last \in Nat /\ workers[k].count \in Nat
      /\ UpTo(workers)[k] = UpTo(workers)[k - 1] \o Draws(workers[k])
  BY WorkersAre
<1>5. /\ k = Last \/ k + 1 \in live
      /\ \A i \in 1..Len(sums[k]) : sums[k][i] = <<workers[k].stream, i>>
  BY <1>1 DEF IInv, OwnInv
<1>6. sums[k] = Draws(workers[k])
  <2> DEFINE s == sums[k]
             c == workers[k].count
  <2>1. s \in Seq(AllDraws) /\ Len(s) = c
    BY <1>1
  <2>2. s = [i \in 1..c |-> s[i]]
    <3> HIDE DEF s, c
    <3> QED
      BY <2>1
  <2>3. \A i \in 1..c : s[i] = <<workers[k].stream, i>>
    BY <1>5, <2>1
  <2> HIDE DEF s
  <2>4. s = Draws(workers[k])
    BY <2>2, <2>3 DEF Draws
  <2> QED
    BY <2>4 DEF s
<1>7. JoinedInv'
  <2> SUFFICES ASSUME NEW j \in live, NEW x \in live \cup {Last + 1},
                      NextAfter(j, x), state'[j] = "done"
               PROVE  UpTo(workers)[j - 1] \o sums[j] = UpTo(workers)[x - 1]
    BY <1>1, <1>2 DEF JoinedInv, NextAfter
  <2>1. CASE j = k
    <3>1. k + 1 \in live => ~(k < k + 1 /\ k + 1 < x)
      BY <2>1 DEF NextAfter
    <3>2. x = k + 1
      <4>1. x \in Nat /\ k < x /\ x <= Last + 1
        BY <1>1, <1>4, <2>1 DEF NextAfter
      <4> QED
        BY <1>4, <1>5, <3>1, <4>1
    <3>3. x - 1 = k
      BY <3>2
    <3> QED
      BY <1>4, <1>6, <2>1, <3>3
  <2>2. CASE j # k
    <3>1. state[j] = "done"
      BY <1>1, <1>3, <2>2
    <3> QED
      BY <3>1 DEF IInv, JoinedInv
  <2> QED
    BY <2>1, <2>2
<1>8. OwnInv' /\ WorkersInv' /\ ShapeInv'
  <2>1. OwnInv'
    <3> SUFFICES ASSUME NEW j \in 1..Last, state'[j] # "done"
                 PROVE  /\ j \in live /\ (j = Last \/ j + 1 \in live)
                        /\ Len(sums[j]) <= workers[j].count
                        /\ state'[j] \in {"walking", "waiting", "calling"}
                             => Len(sums[j]) < workers[j].count
                        /\ \A i \in 1..Len(sums[j]) : sums[j][i] = <<workers[j].stream, i>>
      BY <1>1, <1>2 DEF OwnInv
    <3>1. state[j] # "done" /\ state'[j] = state[j]
      BY <1>3
    <3> QED
      BY <3>1 DEF IInv, OwnInv
  <2> QED
    BY <1>1, <1>2, <1>3, <2>1 DEF IInv, WorkersInv, ShapeInv
<1>9. ResultInv'
  <2>1. result # "ok"
    BY <1>1 DEF IInv, ResultInv
  <2> QED
    BY <1>1, <2>1 DEF ResultInv
<1> QED
  BY <1>7, <1>8, <1>9 DEF IInv

(* Every step of a worker keeps the invariant.                             *)
LEMMA WorkerStepInv == ASSUME IInv, NEW k \in DOMAIN workers, WorkerStep(k) PROVE IInv'
<1>1. k \in 1..Last /\ workers[k].count \in Nat
  BY WorkersAre
<1>2. /\ state \in [1..Last -> States] /\ Len(sums[k]) \in Nat /\ workers[k].count \in Nat
  <2>1. state \in [1..Last -> States] /\ sums \in [1..Last -> Seq(AllDraws)]
    BY DEF IInv, ShapeInv
  <2>2. sums[k] \in Seq(AllDraws)
    BY <1>1, <2>1
  <2> QED
    BY <1>1, <2>1, <2>2, LenProperties
<1>3. state[k] \in {"walking", "waiting", "calling"} => Len(sums[k]) < workers[k].count
  BY <1>1 DEF IInv, OwnInv
<1>4. CASE Start(k)
  <2>1. OwnStep(k, "running") /\ sums' = sums
    BY <1>4 DEF Start, Move, OwnStep, States
  <2> QED
    BY <1>1, <2>1, OwnStepInv
<1>5. CASE Skip(k)
  <2>1. OwnStep(k, "skipped") /\ sums' = sums
    BY <1>5 DEF Skip, Move, OwnStep, States
  <2> QED
    BY <1>1, <2>1, OwnStepInv
<1>6. CASE Draw(k)
  <2>1. OwnStep(k, "walking") /\ sums' = sums /\ Len(sums[k]) < workers[k].count
    BY <1>6 DEF Draw, Move, OwnStep, States
  <2> QED
    BY <1>1, <2>1, OwnStepInv
<1>7. CASE AllCached(k)
  <2>1. OwnStep(k, "running") /\ Absorb(k) /\ state[k] = "walking"
    BY <1>7 DEF AllCached, Move, OwnStep, States
  <2> QED
    BY <1>1, <1>3, <2>1, OwnStepInv
<1>8. CASE NeedValue(k)
  <2>1. OwnStep(k, "waiting") /\ sums' = sums /\ state[k] = "walking"
    BY <1>8 DEF NeedValue, Move, OwnStep, States
  <2> QED
    BY <1>1, <1>3, <2>1, OwnStepInv
<1>9. CASE Attach(k)
  <2>1. OwnStep(k, "calling") /\ sums' = sums /\ state[k] = "waiting"
    BY <1>9 DEF Attach, Move, OwnStep, States
  <2> QED
    BY <1>1, <1>3, <2>1, OwnStepInv
<1>10. CASE ValueReturned(k)
  <2>1. OwnStep(k, "running") /\ Absorb(k) /\ state[k] = "calling"
    BY <1>10 DEF ValueReturned, Move, OwnStep, States
  <2> QED
    BY <1>1, <1>3, <2>1, OwnStepInv
<1>11. CASE ValueRaised(k)
  <2>1. OwnStep(k, "failed") /\ sums' = sums
    BY <1>11 DEF ValueRaised, Move, OwnStep, States
  <2> QED
    BY <1>1, <2>1, OwnStepInv
<1>12. CASE End(k)
  BY <1>1, <1>12, EndInv
<1> QED
  BY <1>4, <1>5, <1>6, <1>7, <1>8, <1>9, <1>10, <1>11, <1>12 DEF WorkerStep

(* Two neighbouring sums are joined.                                       *)
LEMMA CombineInv == ASSUME IInv, NEW j \in live, NEW k \in live, Combine(j, k) PROVE IInv'
<1>1. /\ state \in [1..Last -> States] /\ sums \in [1..Last -> Seq(AllDraws)]
      /\ live \in SUBSET (1..Last) /\ 1 \in live
  <2>1. /\ state \in [1..Last -> States] /\ sums \in [1..Last -> Seq(AllDraws)]
        /\ live \in SUBSET (1..Last) /\ (Last > 0 => 1 \in live)
    BY DEF IInv, ShapeInv
  <2>2. Last > 0
    BY <2>1, WorkersAre
  <2> QED
    BY <2>1, <2>2
<1>2. /\ Last \in Nat /\ UpTo(workers)[0] = << >>
      /\ \A i \in 0..Last : UpTo(workers)[i] \in Seq(AllDraws)
  BY WorkersAre
<1>3. /\ j \in 1..Last /\ k \in 1..Last /\ j < k /\ \A i \in live : ~(j < i /\ i < k)
      /\ \A i \in 1..Last : Owner(i) \in {j, k} => state[i] = "done"
      /\ sums' = [sums EXCEPT ![j] = sums[j] \o sums[k]]
      /\ live' = live \ {k}
      /\ call' = call /\ pool' = pool /\ workers' = workers /\ state' = state
      /\ result' = result
  BY <1>1 DEF Combine, Neighbours
<1>4. /\ Last' = Last /\ AllDraws' = AllDraws
      /\ workers' = workers /\ state' = state
  BY <1>3 DEF Last, AllDraws
<1>5. state[j] = "done" /\ state[k] = "done"
  <2>1. ASSUME NEW i \in live
        PROVE  Owner(i) = i
    <3> DEFINE S == {x \in live : x <= i}
    <3>1. /\ S \in SUBSET Nat /\ S \in SUBSET (1..Last) /\ i \in Nat /\ i \in S
          /\ \A x \in S : x <= i
      <4>1. i \in 1..Last /\ i \in Nat /\ i <= i
        BY <1>1, <1>2
      <4>2. S \subseteq live /\ \A x \in S : x <= i
        OBVIOUS
      <4>3. i \in S
        BY <4>1
      <4> HIDE DEF S
      <4>4. \A x \in 1..Last : x \in Nat
        BY <1>2
      <4>5. S \in SUBSET (1..Last) /\ S \in SUBSET Nat
        BY <1>1, <4>2, <4>4
      <4> QED
        BY <4>1, <4>2, <4>3, <4>5
    <3>2. IsFiniteSet(1..Last)
      BY <1>2, FS_Interval
    <3> HIDE DEF S
    <3>3. IsFiniteSet(S) /\ S # {}
      BY <3>1, <3>2, FS_Subset
    <3>4. Max(S) \in S /\ \A x \in S : Max(S) >= x
      BY <3>1, <3>3, MaxOfFinite
    <3>5. Max(S) = i
      <4>1. Max(S) <= i /\ Max(S) >= i /\ Max(S) \in Nat
        BY <3>1, <3>4
      <4> QED
        BY <3>1, <4>1
    <3> QED
      BY <3>5 DEF Owner, S
  <2> QED
    BY <1>3, <2>1
<1> DEFINE joined == sums[j] \o sums[k]
<1>6. joined \in Seq(AllDraws) /\ sums[j] \in Seq(AllDraws) /\ sums[k] \in Seq(AllDraws)
  <2>1. sums[j] \in Seq(AllDraws) /\ sums[k] \in Seq(AllDraws)
    BY <1>1, <1>3
  <2>2. joined \in Seq(AllDraws)
    BY <2>1, ConcatProperties
  <2> QED
    BY <2>1, <2>2
<1> HIDE DEF joined
<1>7. /\ sums' \in [1..Last -> Seq(AllDraws)] /\ sums'[j] = joined
      /\ \A i \in 1..Last : i # j => sums'[i] = sums[i]
  BY <1>1, <1>3, <1>6 DEF joined
<1>8. WorkersInv' /\ ShapeInv'
  <2>1. 1 \in live'
    BY <1>1, <1>2, <1>3
  <2>2. live' \subseteq 1..Last
    BY <1>1, <1>3
  <2> QED
    BY <1>1, <1>3, <1>4, <1>7, <2>1, <2>2 DEF IInv, WorkersInv, ShapeInv
<1>9. OwnInv'
  <2> SUFFICES ASSUME NEW i \in 1..Last, state[i] # "done"
               PROVE  /\ i \in live' /\ (i = Last \/ i + 1 \in live')
                      /\ Len(sums'[i]) <= workers[i].count
                      /\ state[i] \in {"walking", "waiting", "calling"}
                           => Len(sums'[i]) < workers[i].count
                      /\ \A d \in 1..Len(sums'[i]) : sums'[i][d] = <<workers[i].stream, d>>
    BY <1>4 DEF OwnInv
  <2>1. /\ i \in live /\ (i = Last \/ i + 1 \in live)
        /\ Len(sums[i]) <= workers[i].count
        /\ state[i] \in {"walking", "waiting", "calling"} => Len(sums[i]) < workers[i].count
        /\ \A d \in 1..Len(sums[i]) : sums[i][d] = <<workers[i].stream, d>>
    BY DEF IInv, OwnInv
  <2>2. i # j /\ i # k
    BY <1>5
  <2>3. i + 1 # k
    BY <1>2, <1>3, <2>1, <2>2
  <2>4. i \in live' /\ (i = Last \/ i + 1 \in live')
    BY <1>3, <2>1, <2>2, <2>3
  <2>5. sums'[i] = sums[i]
    BY <1>7, <2>2
  <2> QED
    BY <2>1, <2>4, <2>5
<1>10. JoinedInv'
  <2> SUFFICES ASSUME NEW x \in live', NEW y \in live' \cup {Last + 1}, x < y,
                      \A i \in live' : ~(x < i /\ i < y), state[x] = "done"
               PROVE  UpTo(workers)[x - 1] \o sums'[x] = UpTo(workers)[y - 1]
    BY <1>4 DEF JoinedInv, NextAfter
  <2>1. /\ x \in live /\ x # k /\ y \in live \cup {Last + 1} /\ y # k
        /\ x \in 1..Last /\ y \in 1..(Last + 1)
        /\ \A i \in live : i # k => ~(x < i /\ i < y)
    <3>1. live' = live \ {k} /\ k \in 1..Last
      BY <1>3
    <3>2. x \in live /\ x # k /\ y \in live \cup {Last + 1}
      BY <3>1
    <3>3. x \in 1..Last
      BY <1>1, <3>2
    <3>4. y # k /\ y \in 1..(Last + 1)
      <4>1. y \in live' \/ y = Last + 1
        OBVIOUS
      <4>2. y \in live' => y # k /\ y \in 1..Last
        BY <1>1, <3>1
      <4>3. Last + 1 # k /\ Last + 1 \in 1..(Last + 1)
        BY <1>2, <3>1
      <4> QED
        BY <1>2, <4>1, <4>2, <4>3
    <3>5. ASSUME NEW i \in live, i # k
          PROVE  ~(x < i /\ i < y)
      BY <3>1, <3>5
    <3> QED
      BY <3>2, <3>3, <3>4, <3>5
  <2>2. CASE x = j
    <3>1. NextAfter(j, k) /\ NextAfter(k, y)
      <4>1. NextAfter(j, k)
        BY <1>3 DEF NextAfter
      <4>2. k < y
        <5>1. y \in live \/ y = Last + 1
          BY <2>1
        <5>2. ~(y < k)
          BY <1>2, <1>3, <2>1, <2>2, <5>1
        <5> QED
          BY <1>2, <1>3, <2>1, <5>2
      <4>3. ASSUME NEW i \in live, k < i, i < y
            PROVE  FALSE
        <5>1. i \in 1..Last
          BY <1>1
        <5>2. j < i /\ i # k
          BY <1>2, <1>3, <4>3, <5>1
        <5> QED
          BY <2>1, <2>2, <4>3, <5>2
      <4> QED
        BY <4>1, <4>2, <4>3 DEF NextAfter
    <3>2. UpTo(workers)[j - 1] \o sums[j] = UpTo(workers)[k - 1]
      BY <1>5, <3>1 DEF IInv, JoinedInv
    <3>3. UpTo(workers)[k - 1] \o sums[k] = UpTo(workers)[y - 1]
      BY <1>5, <2>1, <3>1 DEF IInv, JoinedInv
    <3>4. UpTo(workers)[j - 1] \in Seq(AllDraws)
      <4>1. j - 1 \in 0..Last
        BY <1>2, <1>3
      <4> QED
        BY <1>2, <4>1
    <3> DEFINE u == UpTo(workers)[j - 1]
               T == AllDraws
               sj == sums[j]
               sk == sums[k]
    <3>5. u \in Seq(T) /\ sj \in Seq(T) /\ sk \in Seq(T)
      BY <1>6, <3>4
    <3> HIDE DEF u, T, sj, sk
    <3>6. (u \o sj) \o sk = u \o (sj \o sk)
      BY <3>5, ConcatAssociative
    <3>7. u \o joined = UpTo(workers)[y - 1]
      BY <3>2, <3>3, <3>6 DEF u, sj, sk, joined
    <3> QED
      BY <1>7, <2>2, <3>7 DEF u
  <2>3. CASE x # j
    <3>1. ~(x < k /\ k < y)
      <4> SUFFICES ASSUME x < k, k < y
                   PROVE  FALSE
        OBVIOUS
      <4>1. x < j
        BY <1>3, <2>1, <2>3
      <4>2. j < y
        BY <1>2, <1>3, <2>1
      <4>3. j # k
        BY <1>2, <1>3
      <4> QED
        BY <2>1, <4>1, <4>2, <4>3
    <3>2. NextAfter(x, y)
      BY <2>1, <3>1 DEF NextAfter
    <3>3. UpTo(workers)[x - 1] \o sums[x] = UpTo(workers)[y - 1]
      BY <2>1, <3>2 DEF IInv, JoinedInv
    <3> QED
      BY <1>7, <2>1, <2>3, <3>3
  <2> QED
    BY <2>2, <2>3
<1>11. ResultInv'
  <2>1. result # "ok"
    <3> SUFFICES ASSUME result = "ok"
                 PROVE  FALSE
      OBVIOUS
    <3>1. live \subseteq {1}
      BY DEF IInv, ResultInv
    <3>2. j = k
      BY <3>1
    <3> QED
      BY <1>2, <1>3, <3>2
  <2> QED
    BY <1>3, <2>1 DEF ResultInv
<1> QED
  BY <1>8, <1>9, <1>10, <1>11 DEF IInv

(* The invariant holds in every behaviour.                                 *)
LEMMA Invariant == Spec => []IInv
<1>1. Init => IInv
  BY InitInv
<1>2. IInv /\ [Next]_vars => IInv'
  <2> SUFFICES ASSUME IInv, [Next]_vars
               PROVE  IInv'
    OBVIOUS
  <2>1. CASE CallerStep
    BY <2>1, LaunchInv, ReturnInv DEF CallerStep
  <2>2. CASE \E k \in DOMAIN workers : WorkerStep(k)
    BY <2>2, WorkerStepInv
  <2>3. CASE \E j, k \in live : Combine(j, k)
    BY <2>3, CombineInv
  <2>4. CASE UNCHANGED vars
    <3>1. /\ call' = call /\ pool' = pool /\ workers' = workers /\ state' = state
          /\ sums' = sums /\ live' = live /\ result' = result
      BY <2>4 DEF vars
    <3>2. Last' = Last /\ AllDraws' = AllDraws
      BY <3>1 DEF Last, AllDraws
    <3> QED
      BY <3>1, <3>2 DEF IInv, WorkersInv, ShapeInv, OwnInv, JoinedInv, ResultInv, NextAfter
  <2> QED
    BY <2>1, <2>2, <2>3, <2>4 DEF Next
<1> QED
  BY <1>1, <1>2, PTL DEF Spec
------------------------------------------------------------------------------
(* No two workers of a call, seeded or not, draw from the same stream.     *)
THEOREM WorkersHaveOwnStreams == Spec => []StreamsDiffer
<1>1. IInv => StreamsDiffer
  <2> SUFFICES ASSUME IInv
               PROVE  StreamsDiffer
    OBVIOUS
  <2>1. \A j, k \in 1..Last : workers[j].stream = workers[k].stream => j = k
    BY DEF IInv, WorkersInv, AreWorkers, Last
  <2>2. DOMAIN workers = 1..Last
    BY WorkersAre
  <2> QED
    BY <2>1, <2>2 DEF StreamsDiffer
<1> QED
  BY <1>1, Invariant, PTL

(* What a successful call returns is every draw of every worker, once and  *)
(* in the workers' order, whatever the schedule; and as many draws as      *)
(* samples were asked for, if there was a worker at all.                   *)
THEOREM ResultIsAllDraws == Spec => []ResultIsComplete
<1>1. IInv => ResultIsComplete
  <2> SUFFICES ASSUME IInv, result = "ok"
               PROVE  /\ Total = InOrder(workers)
                      /\ workers # << >> => Len(Total) = call.samples
    BY DEF ResultIsComplete
  <2>1. /\ live \subseteq {1} /\ \A k \in 1..Last : state[k] = "done"
        /\ live \subseteq 1..Last /\ (Last > 0 => 1 \in live)
        /\ Last > 0 => Len(UpTo(workers)[Last]) = call.samples
        /\ sums \in [1..Last -> Seq(AllDraws)]
    BY DEF IInv, ResultInv, ShapeInv, WorkersInv
  <2>2. /\ Last \in Nat /\ UpTo(workers)[0] = << >> /\ DOMAIN workers = 1..Last
        /\ InOrder(workers) = UpTo(workers)[Last]
    BY WorkersAre, InOrderIsUpTo
  <2>3. CASE Last = 0
    <3>1. live = {}
      BY <2>1, <2>3
    <3>2. Total = << >>
      BY <3>1 DEF Total
    <3>3. workers = << >>
      <4>1. AreWorkers(workers)
        BY DEF IInv, WorkersInv
      <4> QED
        BY <2>3, <4>1 DEF AreWorkers, Last
    <3> QED
      BY <2>2, <2>3, <3>2, <3>3
  <2>4. CASE Last > 0
    <3>1. live = {1}
      BY <2>1, <2>4
    <3>2. Min({1}) = 1
      <4>1. {1} \in SUBSET Nat /\ {1} # {}
        OBVIOUS
      <4>2. Min({1}) \in {1}
        BY <4>1, MinOfNaturals
      <4> QED
        BY <4>2
    <3>3. Total = sums[1]
      BY <3>1, <3>2 DEF Total
    <3>4. NextAfter(1, Last + 1) /\ 1 \in live /\ Last + 1 \in live \cup {Last + 1}
      BY <2>2, <2>4, <3>1 DEF NextAfter
    <3>5. state[1] = "done" /\ sums[1] \in Seq(AllDraws)
      BY <2>1, <2>2, <2>4
    <3>6. UpTo(workers)[1 - 1] \o sums[1] = UpTo(workers)[(Last + 1) - 1]
      BY <3>4, <3>5 DEF IInv, JoinedInv
    <3>7. 1 - 1 = 0 /\ (Last + 1) - 1 = Last
      BY <2>2
    <3>8. << >> \o sums[1] = sums[1]
      BY <3>5, ConcatEmptySeq
    <3>9. sums[1] = UpTo(workers)[Last]
      BY <2>2, <3>6, <3>7, <3>8
    <3> QED
      BY <2>1, <2>2, <2>4, <3>3, <3>9
  <2> QED
    BY <2>2, <2>3, <2>4
<1> QED
  BY <1>1, Invariant, PTL
===============================================================================
