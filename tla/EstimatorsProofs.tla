--------------------------- MODULE EstimatorsProofs ---------------------------
(***************************************************************************)
(* Proofs about the estimators, for every set of nodes, graph, value       *)
(* function and configuration: the rounds, the convergence tests, the      *)
(* batch lookups and the calls of the value function (IInv), and the       *)
(* running sums (SumsInv), which need the arithmetic of sums over a        *)
(* growing sequence and of divisions without remainder.                    *)
(***************************************************************************)
EXTENDS Estimators, GraphLemmas

------------------------------------------------------------------------------
(* Which coalitions come first.                                            *)

(* The nodes are finitely many integers.                                   *)
LEMMA NodesAreNumbers ==
  Cardinality(Node) \in Nat /\ Node = 0..(Cardinality(Node) - 1) /\ Node \subseteq Int
BY InputsAssumption, FS_CardinalityType

(* Of two bits one outranks the other, and what outranks it outranks both. *)
LEMMA OutranksIsOrder ==
  /\ \A i, j \in Node : i = j \/ Outranks(i, j) \/ Outranks(j, i)
  /\ \A i, j, k \in Node : Outranks(k, j) /\ Outranks(j, i) => Outranks(k, i)
<1>1. \A i \in Node : i \in Int /\ i \div 64 \in Int
  BY NodesAreNumbers
<1> DEFINE word == [i \in Node |-> i \div 64]
<1>2. /\ \A i \in Node : i \in Int /\ word[i] \in Int
      /\ \A i, j \in Node : Outranks(j, i) <=>
           IF word[j] = word[i] THEN j > i ELSE word[j] < word[i]
  BY <1>1 DEF Outranks
<1> HIDE DEF word
<1> QED
  BY <1>2

(* In every set of nodes one outranks all others.                          *)
LEMMA HighestBit ==
  ASSUME NEW D \in SUBSET Node, D # {}
  PROVE  \E i \in D : \A j \in D : ~Outranks(j, i)
<1> DEFINE N == Cardinality(Node)
           word == [i \in D |-> i \div 64]
           self == [i \in D |-> i]
<1>1. N \in Nat /\ Node = 0..(N - 1)
  BY NodesAreNumbers
<1> HIDE DEF N
<1>2. \A i \in D : i \in Nat /\ i <= N /\ i \div 64 \in Nat
  BY <1>1
<1>3. \A i, j \in D : Outranks(j, i) <=> IF word[j] = word[i] THEN j > i ELSE word[j] < word[i]
  BY DEF Outranks
<1>4. \A i \in D : word[i] \in Nat /\ self[i] \in Nat /\ self[i] <= N /\ self[i] = i
  BY <1>2
<1> HIDE DEF word, self
<1>5. PICK m \in D : \A i \in D : word[m] <= word[i]
  BY <1>4, LeastMeasure
<1> DEFINE E == {i \in D : word[i] = word[m]}
<1>6. E # {} /\ \A i \in E : i \in D /\ self[i] \in Nat /\ self[i] <= N
  BY <1>4
<1>7. PICK i \in E : \A j \in E : self[j] <= self[i]
  <2> HIDE DEF E
  <2> QED
    BY <1>1, <1>6, GreatestMeasure
<1>8. ASSUME NEW j \in D
      PROVE  ~Outranks(j, i)
  <2>1. CASE j \in E
    BY <1>2, <1>3, <1>4, <1>7, <2>1
  <2>2. CASE j \notin E
    BY <1>3, <1>4, <1>5, <2>2
  <2> QED
    BY <2>1, <2>2
<1> QED
  BY <1>8

(* The order of the masks is a strict total order.                         *)
LEMMA EarlierIsTransitive ==
  ASSUME NEW R \in SUBSET Node, NEW S \in SUBSET Node, NEW T \in SUBSET Node,
         Earlier(R, S), Earlier(S, T)
  PROVE  Earlier(R, T)
<1>1. PICK i \in S \ R : \A j \in Node : Outranks(j, i) => (j \in S <=> j \in R)
  BY DEF Earlier
<1>2. PICK k \in T \ S : \A j \in Node : Outranks(j, k) => (j \in T <=> j \in S)
  BY DEF Earlier
<1>3. CASE Outranks(k, i)
  BY <1>1, <1>2, <1>3, OutranksIsOrder DEF Earlier
<1>4. CASE Outranks(i, k)
  BY <1>1, <1>2, <1>4, OutranksIsOrder DEF Earlier
<1> QED
  BY <1>1, <1>2, <1>3, <1>4, OutranksIsOrder

(* Of two sets one comes first.                                            *)
LEMMA EarlierIsTotal ==
  ASSUME NEW S \in SUBSET Node, NEW T \in SUBSET Node, S # T
  PROVE  Earlier(S, T) \/ Earlier(T, S)
<1> DEFINE D == {i \in Node : ~(i \in S <=> i \in T)}
<1>1. D \in SUBSET Node /\ D # {}
  OBVIOUS
<1>2. PICK i \in D : \A j \in D : ~Outranks(j, i)
  <2> HIDE DEF D
  <2> QED
    BY <1>1, HighestBit
<1>3. \A j \in Node : Outranks(j, i) => (j \in S <=> j \in T)
  BY <1>2
<1> QED
  BY <1>3 DEF Earlier

(* What comes before an earlier coalition is less.                         *)
LEMMA EarlierHasLessBefore ==
  ASSUME NEW C \in SUBSET SUBSET Node, NEW S \in C, NEW T \in C, Earlier(S, T)
  PROVE  LET before(U) == {R \in C : Earlier(R, U)}
         IN  /\ before(S) \subseteq before(T)
             /\ S \in before(T) /\ S \notin before(S)
             /\ IsFiniteSet(before(T)) /\ Cardinality(before(S)) < Cardinality(before(T))
             /\ Cardinality(before(S)) \in Nat /\ Cardinality(before(T)) \in Nat
<1> DEFINE before(U) == {R \in C : Earlier(R, U)}
<1>1. IsFiniteSet(C)
  BY InputsAssumption, FS_SUBSET, FS_Subset
<1>2. before(S) \subseteq before(T)
  BY EarlierIsTransitive
<1>3. S \in before(T) /\ S \notin before(S)
  BY DEF Earlier
<1>4. before(T) \in SUBSET C /\ before(S) \in SUBSET before(T)
  BY <1>2
<1>5. IsFiniteSet(before(T))
  BY <1>1, <1>4, FS_Subset
<1>6. before(S) # before(T)
  BY <1>3
<1> HIDE DEF before
<1>7. /\ Cardinality(before(S)) \in Nat /\ Cardinality(before(T)) \in Nat
      /\ Cardinality(before(S)) + 1 <= Cardinality(before(T))
  BY <1>4, <1>5, <1>6, GrowsByOne
<1> USE DEF before
<1> QED
  BY <1>2, <1>3, <1>5, <1>7

(* The first n of a set of coalitions are n of them, or all.               *)
LEMMA FirstOfCount ==
  ASSUME NEW C \in SUBSET SUBSET Node, NEW n \in Nat
  PROVE  /\ FirstOf(n, C) \subseteq C
         /\ IsFiniteSet(FirstOf(n, C))
         /\ Cardinality(FirstOf(n, C)) <= n
         /\ FirstOf(n, C) # C => Cardinality(FirstOf(n, C)) = n
<1> DEFINE before(U) == {R \in C : Earlier(R, U)}
           r == [U \in C |-> Cardinality(before(U))]
           F == FirstOf(n, C)
<1>1. IsFiniteSet(C)
  BY InputsAssumption, FS_SUBSET, FS_Subset
<1>2. \A S \in C : IsFiniteSet(before(S)) /\ r[S] = Cardinality(before(S)) /\ r[S] \in Nat
  BY <1>1, FS_Subset, FS_CardinalityType
<1>3. \A S : S \in F <=> S \in C /\ r[S] < n
  BY DEF FirstOf
<1>4. IsFiniteSet(F) /\ Cardinality(F) \in Nat
  <2> HIDE DEF F
  <2> QED
    BY <1>1, <1>3, FS_Subset, FS_CardinalityType
<1>5. \A S, T \in C : Earlier(S, T) => r[S] < r[T]
  BY EarlierHasLessBefore
<1>6. \A S \in C : r[S] \in Nat
  BY <1>2
<1>7. F \subseteq C
  BY <1>3
<1> HIDE DEF r, F
<1>8. \A S \in C, T \in C : S # T => Earlier(S, T) \/ Earlier(T, S)
  BY EarlierIsTotal
<1>9. ASSUME F # {}
      PROVE  Cardinality(F) <= n
  <2>1. PICK M \in F : \A S \in F : r[S] <= r[M]
    <3>1. \A S \in F : r[S] \in Nat /\ r[S] <= n
      BY <1>6, <1>3
    <3> QED
      BY <1>9, <3>1, GreatestMeasure
  <2>2. M \in C /\ r[M] \in Nat /\ r[M] < n
    BY <1>6, <1>3
  <2>3. ASSUME NEW S \in F, S # M
        PROVE  S \in before(M)
    <3>1. S \in C /\ r[S] \in Nat /\ r[S] <= r[M]
      BY <1>6, <1>3, <2>1
    <3>2. ~Earlier(M, S)
      BY <1>5, <2>2, <3>1
    <3> QED
      BY <1>8, <2>2, <2>3, <3>1, <3>2
  <2>4. F \subseteq before(M) \cup {M}
    BY <2>3
  <2>5. M \notin before(M)
    BY DEF Earlier
  <2>6. IsFiniteSet(before(M)) /\ Cardinality(before(M)) = r[M]
    BY <1>2, <2>2
  <2> HIDE DEF before
  <2>7. IsFiniteSet(before(M) \cup {M}) /\ Cardinality(before(M) \cup {M}) = r[M] + 1
    BY <2>5, <2>6, FS_AddElement
  <2>8. Cardinality(F) <= r[M] + 1
    BY <2>4, <2>7, FS_Subset
  <2> QED
    BY <1>4, <2>2, <2>8
<1>10. ASSUME F # C
      PROVE  \E m \in C : Cardinality(F) = r[m] /\ m \notin F
  <2>1. C \ F # {} /\ \A S \in C \ F : r[S] \in Nat
    BY <1>6, <1>7, <1>10
  <2>2. PICK m \in C \ F : \A S \in C \ F : r[m] <= r[S]
    BY <2>1, LeastMeasure
  <2>3. ASSUME NEW R \in C, Earlier(R, m)
        PROVE  R \in F
    <3>1. r[R] < r[m] /\ r[R] \in Nat /\ r[m] \in Nat
      BY <1>6, <1>5, <2>3
    <3> QED
      BY <2>2, <3>1
  <2>4. ASSUME NEW R \in F
        PROVE  Earlier(R, m)
    <3>1. R \in C /\ R # m /\ r[R] < n /\ ~(r[m] < n) /\ r[R] \in Nat /\ r[m] \in Nat
      BY <1>6, <1>3
    <3>2. ~Earlier(m, R)
      BY <1>5, <3>1
    <3> QED
      BY <1>8, <3>1, <3>2
  <2>5. before(m) = F
    BY <1>7, <2>3, <2>4
  <2> QED
    BY <1>2, <2>5
<1>11. Cardinality(F) <= n
  <2>1. F = {} => Cardinality(F) = 0
    BY FS_EmptySet
  <2> QED
    BY <1>9, <2>1
<1>12. ASSUME F # C
       PROVE  Cardinality(F) = n
  <2>1. PICK m \in C : Cardinality(F) = r[m] /\ m \notin F
    BY <1>10, <1>12
  <2>2. ~(r[m] < n)
    BY <1>3, <2>1
  <2> QED
    BY <1>4, <1>11, <2>1, <2>2
<1> USE DEF F
<1> QED
  BY <1>3, <1>4, <1>11, <1>12
------------------------------------------------------------------------------
(* The coalitions draws pass through.                                      *)

(* The graph of a call has the nodes of the instance.                      *)
LEMMA NodesOfGraph ==
  ASSUME NEW g \in InputGraphs
  PROVE  DOMAIN g = Node
BY InputsAssumption DEF Dags, ParentMaps

(* A walk along a topological order only visits sets closed under parents. *)
LEMMA WalkVisitsIdeals ==
  ASSUME NEW g \in InputGraphs, NEW s \in TopologicalOrders(g)
  PROVE  CoalitionsAlong(s) \subseteq Ideals(g)
<1> DEFINE n == Cardinality(DOMAIN g)
<1>1. n \in Nat
  BY NodesOfGraph, NodesAreNumbers
<1>2. s \in [1..n -> DOMAIN g] /\ Len(s) = n
  BY <1>1 DEF TopologicalOrders
<1>3. \A k \in 1..n : g[s[k]] \subseteq Prefix(s, k - 1)
  BY <1>2 DEF TopologicalOrders, IsTopologicalOrder
<1> SUFFICES ASSUME NEW k \in 0..n
             PROVE  Prefix(s, k) \in Ideals(g)
  BY <1>2 DEF CoalitionsAlong
<1>4. Prefix(s, k) \subseteq DOMAIN g
  BY <1>1, <1>2 DEF Prefix
<1>5. ASSUME NEW i \in Prefix(s, k)
      PROVE  g[i] \subseteq Prefix(s, k)
  <2>1. PICK j \in 1..k : i = s[j]
    BY DEF Prefix
  <2>2. g[i] \subseteq Prefix(s, j - 1)
    BY <1>1, <1>3, <2>1
  <2>3. Prefix(s, j - 1) \subseteq Prefix(s, k)
    BY <1>1, <2>1 DEF Prefix
  <2> QED
    BY <2>2, <2>3
<1> QED
  BY <1>4, <1>5 DEF Ideals, IsIdeal

(* Draws along topological orders of the graph of this call.               *)
Drawable ==
  IF Uniform THEN {[order |-> s, weight |-> 1] : s \in TopologicalOrders(pa)} ELSE Draws

(* Adding a draw adds its coalitions; the first of some draws and the rest *)
(* share them out.                                                         *)
LEMMA WalkedParts ==
  ASSUME NEW D, NEW s \in Seq(D)
  PROVE  /\ Walked(<< >>) = {}
         /\ \A d \in D : Walked(Append(s, d)) = Walked(s) \cup CoalitionsAlong(d.order)
         /\ s # << >> =>
              /\ Head(s) \in D /\ Tail(s) \in Seq(D)
              /\ Walked(s) = Walked(Tail(s)) \cup CoalitionsAlong(Head(s).order)
<1>1. Walked(<< >>) = {}
  BY DEF Walked
<1>2. ASSUME NEW d \in D
      PROVE  Walked(Append(s, d)) = Walked(s) \cup CoalitionsAlong(d.order)
  <2>1. /\ DOMAIN Append(s, d) = DOMAIN s \cup {Len(s) + 1}
        /\ \A k \in DOMAIN s : Append(s, d)[k] = s[k]
        /\ Append(s, d)[Len(s) + 1] = d
    OBVIOUS
  <2> QED
    BY <2>1 DEF Walked
<1>3. ASSUME s # << >>
      PROVE  /\ Head(s) \in D /\ Tail(s) \in Seq(D)
             /\ Walked(s) = Walked(Tail(s)) \cup CoalitionsAlong(Head(s).order)
  <2>1. Head(s) \in D /\ Tail(s) \in Seq(D) /\ Head(s) = s[1]
    BY <1>3
  <2>2. Len(s) \in Nat \ {0} /\ DOMAIN s = 1..Len(s)
    BY <1>3
  <2>3. DOMAIN Tail(s) = 1..(Len(s) - 1) /\ \A k \in 1..(Len(s) - 1) : Tail(s)[k] = s[k + 1]
    BY <1>3, <2>2
  <2>4. \A k \in DOMAIN s : k = 1 \/ (k - 1 \in DOMAIN Tail(s) /\ Tail(s)[k - 1] = s[k])
    BY <2>2, <2>3
  <2>5. \A k \in DOMAIN Tail(s) : k + 1 \in DOMAIN s /\ Tail(s)[k] = s[k + 1]
    BY <2>2, <2>3
  <2>6. 1 \in DOMAIN s
    BY <2>2
  <2> QED
    BY <2>1, <2>4, <2>5, <2>6 DEF Walked
<1> QED
  BY <1>1, <1>2, <1>3

(* Draws only visit sets closed under parents.                             *)
LEMMA WalkedAreIdeals ==
  ASSUME pa \in InputGraphs, NEW s \in Seq(Drawable)
  PROVE  Walked(s) \subseteq Ideals(pa)
<1>1. \A k \in DOMAIN s : s[k] \in Drawable
  OBVIOUS
<1>2. \A d \in Drawable : d.order \in TopologicalOrders(pa)
  BY DEF Drawable, Draws
<1> QED
  BY <1>1, <1>2, WalkVisitsIdeals DEF Walked
------------------------------------------------------------------------------
(* The inductive invariant, in parts.                                      *)

InRound == pc \in {"draw", "resolve", "rescale", "accumulate"}

CallOK ==
  /\ pa \in InputGraphs /\ v \in ValueFns /\ config \in Configs
  /\ pc \in {"start", "round", "test", "done"} \/ InRound
  /\ result \in {"none", "ok", "error", "Overflow"}
  /\ result = "none" <=> pc # "done"
  /\ total \in Nat
  /\ samples \in Seq(Drawable) /\ drawn \in Seq(Drawable)

(* How many draws there are: those added up and those of an open round are *)
(* all the draws of the rounds so far.                                     *)
RoundsOK ==
  /\ total <= config.target
  /\ pc \notin {"start", "done"} => ~InvalidConfig
  /\ pc = "start" => total = 0 /\ drawn = << >> /\ samples = << >>
  /\ pc \in {"round", "test"} => samples = << >> /\ Len(drawn) = total
  /\ InRound => /\ total < config.target
                /\ MadeInRound \in 0..RoundSize
                /\ ~Uniform \/ (Batched /\ pc # "draw") => MadeInRound = RoundSize
  /\ result = "ok" => /\ samples = << >> /\ Len(drawn) = total
                      /\ ~converged => total = config.target

(* What the convergence tests made so far have in common: the first comes  *)
(* after a full round, the next after another one.                         *)
TestsOK ==
  /\ checks \in 0..2
  /\ checks = 0 => prev = [i \in Node |-> NaN]
  /\ checks # 0 /\ pc # "done" => total >= BatchSize \/ total = config.target
  /\ pc = "test" => /\ total >= BatchSize \/ total = config.target
                    /\ checks # 0 => total > BatchSize
  /\ converged => pc = "done" /\ checks = 2 /\ total > BatchSize /\ total >= config.min

(* The values of a batch are there when they are needed.                   *)
LookupsOK ==
  Batched /\ pc \in {"rescale", "accumulate"} => Walked(samples) \subseteq DOMAIN values

Asked == {S \in DOMAIN calls : calls[S] > 0}

CacheIsFull == config.large /\ Cardinality(DOMAIN cache) = CacheCap

(* The coalitions asked for are those of the draws added up, and perhaps   *)
(* some of the open round; what is not in the cache did not fit.           *)
CallsOK ==
  /\ calls \in [Ideals(pa) -> Nat]
  /\ IsFiniteSet(DOMAIN cache) /\ DOMAIN cache \subseteq Asked
  /\ config.large => Cardinality(DOMAIN cache) <= CacheCap
  /\ Batched /\ pc \in {"resolve", "rescale", "accumulate"} => DOMAIN values \subseteq Asked
  /\ pc = "resolve" => Walked(samples) \cap DOMAIN cache \subseteq DOMAIN values
  /\ Walked(drawn) \subseteq Asked
  /\ Asked \subseteq Walked(drawn) \cup Walked(samples)
  /\ pc # "done" => \A S \in Asked \ DOMAIN cache : CacheIsFull
  /\ \A S \in DOMAIN calls : calls[S] > 1 => CacheIsFull /\ S \notin DOMAIN cache

(* The first draw fills the memo; from then on it is as large as it gets,  *)
(* so a draw is refused before that or never.                              *)
MemoOK ==
  /\ Uniform /\ ~config.table =>
       \/ memo = {} /\ drawn = << >> /\ samples = << >>
       \/ /\ memo = VisitedFrom(pa, Node)
          /\ \A T \in memo : ~(OrdersOf(pa)[T] > MaxCount)
          /\ ~(Cardinality(memo) * EntryBytes > config.memory_limit_bytes)
  /\ result = "Overflow" => drawn = << >> /\ samples = << >>

IInv == CallOK /\ RoundsOK /\ TestsOK /\ LookupsOK /\ CallsOK /\ MemoOK
------------------------------------------------------------------------------
(* Every step is one of these actions, where the method in question takes  *)
(* them.                                                                   *)
Step1 == RejectConfig \/ AcceptConfig \/ Finish
Step2 == \/ ~Uniform /\ (DrawRound \/ Rescale)
         \/ ~Uniform /\ Batched /\ Resolved
Step3 == ~Batched /\ (AbsorbCalling \/ CallFails)
Step4 == Batched /\ (ResolveChunk \/ BatchCallFails \/ AbsorbResolved)
Step5 == EndRound /\ (Uniform => MadeInRound = RoundSize)
Step6 == Adaptive /\ (SkipTest \/ Test)
Step7 == Uniform /\ (OpenRound \/ DrawOne \/ DrawFails)
Step8 == Uniform /\ Batched /\ (BatchDrawn \/ BatchResolved)

(* The next-state relation as a disjunction of these groups of actions.    *)
LEMMA StepsOfCall ==
  ASSUME EstimatorNext
  PROVE  \/ (Step1 \/ Step2 \/ Step3 \/ Step4 \/ Step5 \/ Step6) /\ UNCHANGED memo
         \/ Step7 \/ Step8
<1>1. CASE ~Uniform /\ Shared(Next)
  BY <1>1 DEF Shared, Next, ApproximateAsv, ApproximateAsvBatched, ApproximateAsvAdaptive,
     ApproximateAsvAdaptiveBatched, ApproximateAsvLarge, ApproximateAsvBatchedLarge,
     ApproximateAsvAdaptiveLarge, ApproximateAsvAdaptiveBatchedLarge, Calling, Batching, Testing,
     Runs, Batched, Adaptive, Step1, Step2, Step3, Step4, Step5, Step6
<1>2. CASE Uniform /\ UniformNext
  BY <1>2 DEF UniformNext, ApproximateAsvUniform, ApproximateAsvUniformSparse,
     ApproximateAsvUniformSparseAdaptive, ApproximateAsvUniformSparseAdaptiveBatched,
     UniformCalling, UniformBatching, Testing, Shared, CloseRound, Batched, Adaptive,
     Step1, Step3, Step4, Step5, Step6, Step7, Step8
<1> QED
  BY <1>1, <1>2 DEF EstimatorNext

(* The arguments of the call stay as they are, and with them what a draw   *)
(* can be.                                                                 *)
LEMMA ArgumentsStay ==
  ASSUME EstimatorNext
  PROVE  /\ pa' = pa /\ v' = v /\ config' = config
         /\ Uniform' = Uniform /\ Batched' = Batched /\ Adaptive' = Adaptive
         /\ Drawable' = Drawable /\ BatchSize' = BatchSize /\ InvalidConfig' = InvalidConfig
<1>1. pa' = pa /\ v' = v /\ config' = config
  BY StepsOfCall DEF Step1, Step2, Step3, Step4, Step5, Step6, Step7, Step8, RejectConfig,
     AcceptConfig, Finish, DrawRound, Rescale, Resolved, AbsorbCalling, CallFails, ResolveChunk,
     BatchCallFails, AbsorbResolved, EndRound, SkipTest, Test, OpenRound, DrawOne, DrawFails,
     BatchDrawn, BatchResolved, args
<1> QED
  BY <1>1 DEF Uniform, Batched, Adaptive, Drawable, Draws, BatchSize, InvalidConfig

(* A round is never empty and never larger than what is left.              *)
LEMMA RoundSizeBounds ==
  ASSUME config \in Configs, total \in Nat, total < config.target, ~InvalidConfig
  PROVE  /\ RoundSize \in Nat \ {0} /\ BatchSize \in Nat \ {0}
         /\ RoundSize <= config.target - total /\ RoundSize <= BatchSize
         /\ RoundSize = BatchSize \/ RoundSize = config.target - total
<1>1. config.target \in Nat /\ config.batch \in Nat
  BY InputsAssumption
<1>2. config.variant \in Variants
  BY InputsAssumption
<1>3. BatchSize \in Nat \ {0}
  <2>1. Max({config.batch, 1}) \in Nat \ {0}
    BY <1>1, MinMaxOfTwo
  <2>2. Adaptive => config.batch # 0
    BY DEF InvalidConfig
  <2> QED
    BY <1>1, <1>2, <2>1, <2>2 DEF BatchSize, Adaptive, Variants
<1>4. config.target - total \in Nat \ {0}
  BY <1>1
<1> QED
  BY <1>3, <1>4, MinMaxOfTwo DEF RoundSize

(* The call keeps its shape.                                               *)
LEMMA CallStep ==
  ASSUME CallOK, RoundsOK, EstimatorNext
  PROVE  CallOK'
<1> USE DEF CallOK, InRound
<1> DEFINE D == Drawable
<1>1. pa' = pa /\ v' = v /\ config' = config /\ Drawable' = D
  BY ArgumentsStay
<1>2. samples \in Seq(D) /\ drawn \in Seq(D)
  OBVIOUS
<1> SUFFICES /\ pc' \in {"start", "round", "test", "done"} \/ InRound'
             /\ result' \in {"none", "ok", "error", "Overflow"}
             /\ result' = "none" <=> pc' # "done"
             /\ total' \in Nat
             /\ samples' \in Seq(D) /\ drawn' \in Seq(D)
  BY <1>1
<1>3. CASE Step1
  BY <1>3 DEF Step1, RejectConfig, AcceptConfig, Finish, Return
<1>4. CASE ~Uniform /\ DrawRound
  <2>1. RoundSize \in Nat
    BY <1>4, RoundSizeBounds DEF DrawRound, RoundsOK
  <2>2. samples' \in Seq(D)
    BY <1>4, <2>1 DEF DrawRound, Drawable
  <2> HIDE DEF D
  <2> QED
    BY <1>2, <1>4, <2>2 DEF DrawRound
<1>5. CASE Rescale \/ Resolved
  BY <1>5 DEF Rescale, Resolved
<1>6. CASE Step3
  <2> HIDE DEF D
  <2>1. CASE AbsorbCalling
    BY <1>2, <2>1 DEF AbsorbCalling, Absorb
  <2>2. CASE CallFails
    BY <1>2, <2>2 DEF CallFails, Return
  <2> QED
    BY <1>6, <2>1, <2>2 DEF Step3
<1>7. CASE Step4
  <2> HIDE DEF D
  <2>1. CASE AbsorbResolved
    BY <1>2, <2>1 DEF AbsorbResolved, Absorb
  <2>2. CASE ResolveChunk \/ BatchCallFails
    BY <1>2, <2>2 DEF ResolveChunk, BatchCallFails, Return
  <2> QED
    BY <1>7, <2>1, <2>2 DEF Step4
<1>8. CASE Step5
  <2>1. RoundSize \in Nat
    BY <1>8, RoundSizeBounds DEF Step5, EndRound, RoundsOK
  <2> QED
    BY <1>8, <2>1 DEF Step5, EndRound
<1>9. CASE Step6
  BY <1>9 DEF Step6, SkipTest, Test, Return
<1>10. CASE Uniform /\ DrawOne
  <2>1. PICK s \in TopologicalOrders(pa) : samples' = Append(samples, [order |-> s, weight |-> 1])
    BY <1>10 DEF DrawOne
  <2>2. [order |-> s, weight |-> 1] \in D
    BY <1>10 DEF Drawable
  <2> HIDE DEF D
  <2>3. samples' \in Seq(D)
    BY <1>2, <2>1, <2>2
  <2> QED
    BY <1>2, <1>10, <2>3 DEF DrawOne
<1>11. CASE OpenRound \/ DrawFails
  BY <1>11 DEF OpenRound, DrawFails, Return
<1>12. CASE Step8
  BY <1>12 DEF Step8, BatchDrawn, BatchResolved
<1> QED
  BY <1>3, <1>4, <1>5, <1>6, <1>7, <1>8, <1>9, <1>10, <1>11, <1>12, StepsOfCall DEF Step2, Step7

(* The draws of a round are neither lost nor counted twice.                *)
LEMMA RoundsStep ==
  ASSUME CallOK, RoundsOK, TestsOK, EstimatorNext
  PROVE  RoundsOK'
<1> DEFINE D == Drawable
<1>1. /\ config' = config /\ Uniform' = Uniform /\ Batched' = Batched
      /\ BatchSize' = BatchSize /\ InvalidConfig' = InvalidConfig
  BY ArgumentsStay
<1>2. /\ samples \in Seq(D) /\ drawn \in Seq(D) /\ total \in Nat /\ config \in Configs
      /\ config.target \in Nat /\ result = "none" <=> pc # "done"
  BY InputsAssumption DEF CallOK
<1>3. ASSUME total < config.target, ~InvalidConfig
      PROVE  RoundSize \in Nat \ {0} /\ RoundSize <= config.target - total
  BY <1>2, <1>3, RoundSizeBounds
<1>4. CASE Step1
  BY <1>1, <1>2, <1>4 DEF Step1, RejectConfig, AcceptConfig, Finish, Return, RoundsOK, InRound, test
<1>5. CASE ~Uniform /\ DrawRound
  <2>1. /\ pc = "round" /\ samples = << >> /\ Len(drawn) = total /\ total < config.target
        /\ ~InvalidConfig
    BY <1>5 DEF DrawRound, RoundsOK
  <2>2. /\ RoundSize \in Nat \ {0} /\ total' = total /\ drawn' = drawn /\ result' = result
        /\ samples' \in [1..RoundSize -> Draws] /\ pc' \in {"resolve", "rescale"}
    BY <1>3, <1>5, <2>1 DEF DrawRound
  <2>3. Len(samples') = RoundSize
    BY <2>2
  <2>4. RoundSize' = RoundSize /\ MadeInRound' = RoundSize
    BY <1>1, <1>2, <2>1, <2>2, <2>3 DEF RoundSize, MadeInRound
  <2> QED
    BY <1>1, <1>2, <2>1, <2>2, <2>4 DEF RoundsOK, InRound
<1>6. CASE \/ ~Uniform /\ (Rescale \/ (Batched /\ Resolved))
           \/ Batched /\ (ResolveChunk \/ BatchCallFails)
           \/ ~Batched /\ CallFails
           \/ Uniform /\ (DrawFails \/ (Batched /\ BatchResolved))
  <2>1. /\ total' = total /\ drawn' = drawn /\ samples' = samples /\ converged' = converged
        /\ InRound /\ pc # "done"
    BY <1>6 DEF Rescale, Resolved, ResolveChunk, BatchCallFails, CallFails, DrawFails, DrawDue,
       BatchResolved, InRound, test
  <2>2. \/ pc' = "done" /\ result' \in {"error", "Overflow"}
        \/ pc' \in {"resolve", "rescale", "accumulate"} /\ pc # "draw" /\ result' = result
    BY <1>6 DEF Rescale, Resolved, ResolveChunk, BatchCallFails, CallFails, DrawFails,
       BatchResolved, Return
  <2>3. RoundSize' = RoundSize /\ MadeInRound' = MadeInRound
    BY <1>1, <2>1 DEF RoundSize, MadeInRound
  <2> QED
    BY <1>1, <1>2, <2>1, <2>2, <2>3 DEF RoundsOK, InRound
<1>7. CASE \/ ~Batched /\ AbsorbCalling
           \/ Batched /\ AbsorbResolved
  <2>1. /\ pc = "accumulate" /\ samples # << >> /\ samples' = Tail(samples)
        /\ drawn' = Append(drawn, Head(samples))
        /\ total' = total /\ pc' = pc /\ result' = result
    BY <1>7 DEF AbsorbCalling, AbsorbResolved, Absorb
  <2>2. RoundSize' = RoundSize
    BY <1>1, <2>1 DEF RoundSize
  <2>3. /\ Len(samples) \in Nat /\ Len(samples') = Len(samples) - 1
        /\ Len(drawn) \in Nat /\ Len(drawn') = Len(drawn) + 1
    BY <1>2, <2>1
  <2>4. MadeInRound' = MadeInRound
    BY <1>2, <2>1, <2>3 DEF MadeInRound
  <2> QED
    BY <1>1, <1>2, <2>1, <2>2, <2>4 DEF RoundsOK, InRound
<1>8. CASE Step5
  <2>1. /\ pc = "accumulate" /\ samples = << >> /\ total' = total + RoundSize
        /\ pc' \in {"test", "round"} /\ samples' = samples /\ drawn' = drawn /\ result' = result
    BY <1>8 DEF Step5, EndRound
  <2>2. MadeInRound = RoundSize /\ RoundSize \in Nat \ {0} /\ RoundSize <= config.target - total
    BY <1>3, <1>8, <2>1 DEF Step5, RoundsOK, InRound
  <2>3. Len(drawn) = total + RoundSize
    BY <1>2, <2>1, <2>2 DEF MadeInRound
  <2>4. ~InvalidConfig /\ result # "ok"
    BY <1>2, <2>1 DEF RoundsOK
  <2> QED
    BY <1>1, <1>2, <2>1, <2>2, <2>3, <2>4 DEF RoundsOK, InRound
<1>9. CASE Step6
  <2>1. /\ pc = "test" /\ samples' = samples /\ drawn' = drawn /\ total' = total
        /\ \/ pc' = "round" /\ result' = result
           \/ pc' = "done" /\ result' = "ok" /\ converged'
    BY <1>9 DEF Step6, SkipTest, Test, Return
  <2> QED
    BY <1>1, <1>2, <2>1 DEF RoundsOK, InRound
<1>10. CASE Uniform /\ OpenRound
  <2>1. /\ pc = "round" /\ samples = << >> /\ Len(drawn) = total /\ total < config.target
        /\ ~InvalidConfig
    BY <1>10 DEF OpenRound, RoundsOK
  <2>2. /\ total' = total /\ drawn' = drawn /\ samples' = samples /\ result' = result
        /\ pc' = IF Batched THEN "draw" ELSE "accumulate"
    BY <1>10 DEF OpenRound
  <2>3. RoundSize \in Nat \ {0} /\ RoundSize' = RoundSize /\ MadeInRound' = 0
    BY <1>1, <1>2, <1>3, <2>1, <2>2 DEF RoundSize, MadeInRound
  <2> QED
    BY <1>1, <1>2, <1>10, <2>1, <2>2, <2>3 DEF RoundsOK, InRound
<1>11. CASE Uniform /\ DrawOne
  <2>1. /\ pc = IF Batched THEN "draw" ELSE "accumulate"
        /\ MadeInRound < RoundSize /\ pc' = pc /\ total' = total /\ drawn' = drawn
        /\ result' = result /\ \E d : samples' = Append(samples, d)
    BY <1>11 DEF DrawOne, DrawDue
  <2>2. RoundSize' = RoundSize
    BY <1>1, <2>1 DEF RoundSize
  <2>3. Len(samples) \in Nat /\ Len(samples') = Len(samples) + 1 /\ Len(drawn) \in Nat
    BY <1>2, <2>1
  <2>4. MadeInRound' = MadeInRound + 1
    BY <1>2, <2>1, <2>3 DEF MadeInRound
  <2>5. MadeInRound \in 0..RoundSize /\ RoundSize \in Nat \ {0}
    BY <1>2, <1>3, <2>1 DEF RoundsOK, InRound
  <2> QED
    BY <1>1, <1>2, <1>11, <2>1, <2>2, <2>4, <2>5 DEF RoundsOK, InRound
<1>12. CASE Uniform /\ Batched /\ BatchDrawn
  <2>1. /\ pc = "draw" /\ pc' = "resolve" /\ MadeInRound = RoundSize /\ total' = total
        /\ drawn' = drawn /\ samples' = samples /\ result' = result
    BY <1>12 DEF BatchDrawn
  <2>2. RoundSize' = RoundSize /\ MadeInRound' = MadeInRound
    BY <1>1, <2>1 DEF RoundSize, MadeInRound
  <2> QED
    BY <1>1, <1>2, <2>1, <2>2 DEF RoundsOK, InRound
<1>13. CASE Step2
  BY <1>5, <1>6, <1>13 DEF Step2
<1>14. CASE Step3
  BY <1>6, <1>7, <1>14 DEF Step3
<1>15. CASE Step4
  BY <1>6, <1>7, <1>15 DEF Step4
<1>16. CASE Step7
  BY <1>6, <1>10, <1>11, <1>16 DEF Step7
<1>17. CASE Step8
  BY <1>6, <1>12, <1>17 DEF Step8
<1> QED
  BY <1>4, <1>8, <1>9, <1>13, <1>14, <1>15, <1>16, <1>17, StepsOfCall

(* Convergence is only claimed at a test that had an earlier one to        *)
(* compare with, and a round lies between two tests.                       *)
LEMMA TestsStep ==
  ASSUME CallOK, RoundsOK, TestsOK, EstimatorNext
  PROVE  TestsOK'
<1>1. config' = config /\ BatchSize' = BatchSize
  BY ArgumentsStay
<1>2. /\ total \in Nat /\ config \in Configs /\ config.target \in Nat /\ config.min \in Nat
      /\ Node # {} /\ checks \in 0..2
  BY InputsAssumption DEF CallOK, TestsOK
<1>3. CASE Step5
  <2>1. /\ pc = "accumulate" /\ total' = total + RoundSize /\ pc' \in {"test", "round"}
        /\ UNCHANGED <<prev, checks, converged>>
    BY <1>3 DEF Step5, EndRound, test
  <2>2. total < config.target /\ ~InvalidConfig
    BY <2>1 DEF RoundsOK, InRound
  <2>3. /\ RoundSize \in Nat \ {0} /\ BatchSize \in Nat \ {0}
        /\ RoundSize = BatchSize \/ RoundSize = config.target - total
    BY <1>2, <2>2, RoundSizeBounds
  <2>4. total' >= BatchSize \/ total' = config.target
    BY <1>2, <2>1, <2>3
  <2>5. checks # 0 => total' > BatchSize
    BY <1>2, <2>1, <2>2, <2>3 DEF TestsOK
  <2>6. ~converged
    BY <2>1 DEF TestsOK
  <2> QED
    BY <1>1, <2>1, <2>4, <2>5, <2>6 DEF TestsOK
<1>4. CASE Step6
  <2>1. CASE SkipTest
    BY <1>1, <2>1 DEF SkipTest, TestsOK, test
  <2>2. CASE Test
    <3>1. /\ pc = "test" /\ ~TooFew /\ prev' = [i \in Node |-> Estimate(i)]
          /\ checks' = Min({checks + 1, 2}) /\ converged' = WithinTolerance
          /\ pc' = IF WithinTolerance THEN "done" ELSE "round"
          /\ total' = total
      BY <2>2 DEF Test, Return
    <3>2. checks' \in 1..2 /\ (checks # 0 => checks' = 2)
      <4>1. checks + 1 \in Nat /\ 2 \in Nat
        BY <1>2
      <4> QED
        BY <1>2, <3>1, <4>1, MinMaxOfTwo
    <3>3. WithinTolerance => checks # 0
      BY <1>2 DEF WithinTolerance, TestsOK
    <3>4. total >= config.min
      BY <1>2, <3>1 DEF TooFew
    <3> QED
      BY <1>1, <3>1, <3>2, <3>3, <3>4 DEF TestsOK
  <2> QED
    BY <1>4, <2>1, <2>2 DEF Step6
<1>5. CASE Step1 \/ Step2 \/ Step3 \/ Step4 \/ Step7 \/ Step8
  <2>1. /\ total' = total /\ UNCHANGED <<prev, checks, converged>>
        /\ pc # "done" /\ pc' # "test"
    BY <1>5 DEF Step1, Step2, Step3, Step4, Step7, Step8, RejectConfig, AcceptConfig, Finish,
       DrawRound, Rescale, Resolved, AbsorbCalling, CallFails, ResolveChunk, BatchCallFails,
       AbsorbResolved, OpenRound, DrawOne, DrawFails, DrawDue, BatchDrawn, BatchResolved, Return,
       test
  <2> QED
    BY <1>1, <2>1 DEF TestsOK
<1> QED
  BY <1>3, <1>4, <1>5, StepsOfCall

(* The values of a batch are there before the first is used.               *)
LEMMA LookupsStep ==
  ASSUME CallOK, LookupsOK, EstimatorNext
  PROVE  LookupsOK'
<1> DEFINE D == Drawable
<1>1. Batched' = Batched /\ samples \in Seq(D)
  BY ArgumentsStay DEF CallOK
<1> SUFFICES ASSUME Batched, pc' \in {"rescale", "accumulate"}
             PROVE  Walked(samples') \subseteq DOMAIN values'
  BY <1>1 DEF LookupsOK, Walked
<1>2. CASE Resolved \/ BatchResolved
  BY <1>2 DEF Resolved, BatchResolved, Missing
<1>3. CASE Rescale
  BY <1>3 DEF Rescale, LookupsOK
<1>4. CASE AbsorbResolved
  <2>1. /\ samples # << >> /\ samples' = Tail(samples) /\ values' = values
        /\ Walked(samples) \subseteq DOMAIN values
    BY <1>4 DEF AbsorbResolved, Absorb, LookupsOK
  <2> HIDE DEF D
  <2>2. Walked(Tail(samples)) \subseteq Walked(samples)
    BY <1>1, <2>1, WalkedParts
  <2> QED
    BY <2>1, <2>2
<1>5. CASE \/ Step1 \/ Step5 \/ Step6 \/ Step7
           \/ DrawRound \/ ResolveChunk \/ BatchCallFails \/ BatchDrawn
  BY <1>5 DEF Step1, Step5, Step6, Step7, RejectConfig, AcceptConfig, Finish, EndRound, SkipTest,
     Test, OpenRound, DrawOne, DrawFails, DrawDue, DrawRound, ResolveChunk, BatchCallFails,
     BatchDrawn, Return
<1> QED
  BY <1>2, <1>3, <1>4, <1>5, StepsOfCall DEF Step2, Step3, Step4, Step8

(* The memo is full after the first draw, and a draw is refused before     *)
(* that or never.                                                          *)
LEMMA MemoStep ==
  ASSUME CallOK, RoundsOK, MemoOK, EstimatorNext
  PROVE  MemoOK'
<1> DEFINE Early == drawn = << >> /\ samples = << >>
           Full == /\ memo = VisitedFrom(pa, Node)
                   /\ \A T \in memo : ~(OrdersOf(pa)[T] > MaxCount)
                   /\ ~(Cardinality(memo) * EntryBytes > config.memory_limit_bytes)
<1>1. pa' = pa /\ config' = config /\ Uniform' = Uniform
  BY ArgumentsStay
<1>2. CASE Uniform /\ DrawOne
  <2>1. result' = result /\ result = "none"
    BY <1>2 DEF DrawOne, DrawDue, CallOK
  <2>2. CASE ~config.table
    <3>1. memo' = memo \cup VisitedFrom(pa, Node) /\ ~CannotDraw
      BY <1>2, <2>2 DEF DrawOne, MemoAfterDraw
    <3>2. memo' = VisitedFrom(pa, Node)
      BY <1>2, <2>2, <3>1 DEF MemoOK
    <3>3. Full'
      BY <1>1, <1>2, <2>2, <3>1, <3>2 DEF CannotDraw, MemoAfterDraw, MemoOK
    <3> QED
      BY <1>1, <2>1, <3>3 DEF MemoOK
  <2> QED
    BY <1>1, <2>1, <2>2 DEF MemoOK
<1>3. CASE Uniform /\ DrawFails
  <2>1. /\ ~config.table /\ CannotDraw /\ UNCHANGED <<memo, samples, drawn>>
    BY <1>3 DEF DrawFails, CannotDraw
  <2>2. ~Full
    BY <2>1 DEF CannotDraw, MemoAfterDraw
  <2>3. memo = {} /\ Early
    BY <1>3, <2>1, <2>2 DEF MemoOK
  <2> QED
    BY <1>1, <2>1, <2>3 DEF MemoOK
<1>4. ASSUME memo' = memo, Early => Early', result' # "Overflow"
      PROVE  MemoOK'
  <2>1. Full' <=> Full
    BY <1>1, <1>4
  <2> HIDE DEF Full
  <2> QED
    BY <1>1, <1>4, <2>1 DEF MemoOK, Full
<1>5. result = "none" \/ pc = "done"
  BY DEF CallOK
<1>6. CASE (Step3 \/ Step4) /\ UNCHANGED memo
  <2>1. /\ samples # << >> \/ (samples' = samples /\ drawn' = drawn)
        /\ result' \in {result, "error"} /\ pc # "done"
    BY <1>6 DEF Step3, Step4, AbsorbCalling, CallFails, ResolveChunk, BatchCallFails,
       AbsorbResolved, Return
  <2> QED
    BY <1>4, <1>5, <1>6, <2>1
<1>7. CASE \/ (Step1 \/ Step5 \/ Step6) /\ UNCHANGED memo
           \/ OpenRound \/ Step8
  <2>1. /\ memo' = memo /\ samples' = samples /\ drawn' = drawn
        /\ result' \in {result, "ok", "error"} /\ pc # "done"
    BY <1>7 DEF Step1, Step5, Step6, Step8, RejectConfig, AcceptConfig, Finish, EndRound,
       SkipTest, Test, OpenRound, BatchDrawn, BatchResolved, Return
  <2> QED
    BY <1>4, <1>5, <2>1
<1>8. CASE Step2 /\ UNCHANGED memo
  <2>1. ~Uniform /\ result' = result /\ pc # "done"
    BY <1>8 DEF Step2, DrawRound, Rescale, Resolved
  <2> QED
    BY <1>1, <1>5, <2>1 DEF MemoOK
<1> QED
  BY <1>2, <1>3, <1>6, <1>7, <1>8, StepsOfCall DEF Step7

------------------------------------------------------------------------------
(* The calls of the value function.                                        *)

(* What the cache takes of some coalitions it lacks: all of them, unless   *)
(* it is full then.                                                        *)
LEMMA CacheTakesAll ==
  ASSUME config \in Configs, NEW asked \in SUBSET SUBSET Node,
         IsFiniteSet(DOMAIN cache), asked \cap DOMAIN cache = {},
         config.large => Cardinality(DOMAIN cache) <= CacheCap,
         DOMAIN cache' = DOMAIN cache \cup Admitted(asked), config' = config
  PROVE  /\ Admitted(asked) \subseteq asked
         /\ IsFiniteSet(DOMAIN cache')
         /\ config.large => Cardinality(DOMAIN cache') <= CacheCap
         /\ asked \subseteq DOMAIN cache' \/ CacheIsFull'
         /\ CacheIsFull => Admitted(asked) = {} /\ CacheIsFull'
<1> DEFINE room == CacheCap - Cardinality(DOMAIN cache)
           A == Admitted(asked)
<1>1. DOMAIN cache' = DOMAIN cache \cup A
  OBVIOUS
<1>2. CASE ~config.large
  <2>1. A = asked /\ IsFiniteSet(asked)
    BY <1>2, InputsAssumption, FS_SUBSET, FS_Subset DEF Admitted
  <2>2. IsFiniteSet(DOMAIN cache')
    <3> DEFINE K == DOMAIN cache
    <3>1. IsFiniteSet(K)
      OBVIOUS
    <3> HIDE DEF K, A
    <3>2. IsFiniteSet(K \cup A)
      BY <2>1, <3>1, FS_Union
    <3> QED
      BY <1>1, <3>2 DEF K
  <2> QED
    BY <1>1, <1>2, <2>1, <2>2 DEF CacheIsFull
<1>3. CASE config.large
  <2>1. CacheCap \in Nat /\ Cardinality(DOMAIN cache) \in Nat
    BY InputsAssumption, FS_CardinalityType
  <2>2. room \in Nat /\ A = FirstOf(room, asked)
    BY <1>3, <2>1 DEF Admitted
  <2> HIDE DEF room, A
  <2>3. /\ A \subseteq asked /\ IsFiniteSet(A)
        /\ Cardinality(A) <= room /\ (A # asked => Cardinality(A) = room)
    BY <2>2, FirstOfCount
  <2>4. Cardinality(A) \in Nat
    BY <2>3, FS_CardinalityType
  <2>5. A \cap DOMAIN cache = {}
    BY <2>3
  <2>6. /\ IsFiniteSet(DOMAIN cache')
        /\ Cardinality(DOMAIN cache') = Cardinality(DOMAIN cache) + Cardinality(A)
    <3> DEFINE K == DOMAIN cache
    <3>1. IsFiniteSet(K) /\ Cardinality(K) \in Nat
      BY <2>1
    <3>2. K \cap A = {}
      BY <2>5
    <3> HIDE DEF K
    <3>3. IsFiniteSet(K \cup A) /\ Cardinality(K \cup A) = Cardinality(K) + Cardinality(A)
      <4>1. Cardinality(K \cap A) = 0
        BY <3>2, FS_EmptySet
      <4>2. /\ IsFiniteSet(K \cup A)
            /\ Cardinality(K \cup A) = Cardinality(K) + Cardinality(A) - Cardinality(K \cap A)
        BY <2>3, <3>1, FS_Union
      <4> QED
        BY <2>4, <3>1, <4>1, <4>2
    <3> QED
      BY <1>1, <3>3 DEF K
  <2>7. Cardinality(DOMAIN cache') <= CacheCap
    BY <2>1, <2>3, <2>4, <2>6 DEF room
  <2>8. A = asked \/ Cardinality(DOMAIN cache') = CacheCap
    BY <2>1, <2>3, <2>4, <2>6 DEF room
  <2>9. ASSUME CacheIsFull
        PROVE  A = {} /\ CacheIsFull'
    <3>1. Cardinality(A) = 0
      BY <2>1, <2>3, <2>4, <2>9 DEF room, CacheIsFull
    <3>2. A = {}
      BY <2>3, <3>1, FS_EmptySet
    <3> QED
      BY <1>1, <1>3, <2>9, <3>2 DEF CacheIsFull
  <2> USE DEF A
  <2> QED
    BY <1>1, <1>3, <2>3, <2>6, <2>7, <2>8, <2>9 DEF CacheIsFull
<1> QED
  BY <1>2, <1>3

(* Counting some calls.                                                    *)
LEMMA CountAdds ==
  ASSUME calls \in [Ideals(pa) -> Nat], NEW asked \in SUBSET Ideals(pa), Count(asked)
  PROVE  /\ calls' \in [Ideals(pa) -> Nat]
         /\ Asked' = Asked \cup asked
         /\ \A S \in Ideals(pa) : calls'[S] > 1 => calls[S] > 1 \/ S \in asked \cap Asked
BY DEF Count, Asked

(* A step without a call changes little.                                   *)
LEMMA CallsStayWithoutCall ==
  ASSUME CallOK, CallsOK, EstimatorNext, calls' = calls, cache' = cache,
         pc # "done",
         Walked(drawn') \subseteq Asked,
         Walked(drawn) \cup Walked(samples) \subseteq Walked(drawn') \cup Walked(samples'),
         Batched /\ pc' \in {"resolve", "rescale", "accumulate"} => DOMAIN values' \subseteq Asked,
         pc' = "resolve" => Walked(samples') \cap DOMAIN cache \subseteq DOMAIN values'
  PROVE  CallsOK'
<1>1. pa' = pa /\ config' = config /\ Batched' = Batched
  BY ArgumentsStay
<1>2. Asked' = Asked /\ (CacheIsFull' <=> CacheIsFull)
  BY <1>1 DEF Asked, CacheIsFull
<1>3. (Walked(drawn))' = Walked(drawn') /\ (Walked(samples))' = Walked(samples')
  BY DEF Walked
<1>4. (Ideals(pa))' = Ideals(pa)
  BY <1>1
<1> QED
  BY <1>1, <1>2, <1>3, <1>4 DEF CallsOK

(* A step that asks for coalitions the cache lacks, and keeps the answers. *)
LEMMA CallsGrow ==
  ASSUME CallOK, CallsOK, EstimatorNext, pc # "done",
         NEW asked \in SUBSET Ideals(pa), asked \cap DOMAIN cache = {},
         NEW kept \in SUBSET asked, asked = kept \/ pc' = "done",
         Count(asked), DOMAIN cache' = DOMAIN cache \cup Admitted(kept),
         Walked(drawn') \subseteq Asked \cup asked,
         Walked(drawn) \cup Walked(samples) \cup asked
           \subseteq Walked(drawn') \cup Walked(samples'),
         Batched /\ pc' \in {"resolve", "rescale", "accumulate"}
           => DOMAIN values' \subseteq Asked \cup asked,
         pc' = "resolve" => Walked(samples') \cap DOMAIN cache' \subseteq DOMAIN values'
  PROVE  CallsOK'
<1>1. pa' = pa /\ config' = config /\ Batched' = Batched
  BY ArgumentsStay
<1>2. (Walked(drawn))' = Walked(drawn') /\ (Walked(samples))' = Walked(samples')
  BY DEF Walked
<1>3. (Ideals(pa))' = Ideals(pa)
  BY <1>1
<1>4. /\ calls' \in [Ideals(pa) -> Nat] /\ Asked' = Asked \cup asked
      /\ \A S \in Ideals(pa) : calls'[S] > 1 => calls[S] > 1 \/ S \in asked \cap Asked
  BY CountAdds DEF CallsOK
<1>5. kept \in SUBSET SUBSET Node
  BY NodesOfGraph DEF CallOK, Ideals
<1>6. kept \cap DOMAIN cache = {}
  OBVIOUS
<1>7. /\ Admitted(kept) \subseteq kept
      /\ IsFiniteSet(DOMAIN cache') /\ (config.large => Cardinality(DOMAIN cache') <= CacheCap)
      /\ kept \subseteq DOMAIN cache' \/ CacheIsFull'
      /\ CacheIsFull => Admitted(kept) = {} /\ CacheIsFull'
  BY <1>1, <1>5, <1>6, CacheTakesAll DEF CallOK, CallsOK
<1>8. DOMAIN calls' = Ideals(pa) /\ DOMAIN calls = Ideals(pa)
  BY <1>4 DEF CallsOK
<1>9. ASSUME NEW S \in Ideals(pa), calls'[S] > 1
      PROVE  CacheIsFull' /\ S \notin DOMAIN cache'
  <2>1. CASE calls[S] > 1
    BY <1>7, <1>8, <2>1 DEF CallsOK
  <2>2. CASE S \in asked \cap Asked
    <3>1. S \notin DOMAIN cache /\ CacheIsFull
      BY <2>2 DEF CallsOK
    <3> QED
      BY <1>7, <3>1
  <2> QED
    BY <1>4, <1>9, <2>1, <2>2
<1>10. pc' # "done" => \A S \in Asked' \ DOMAIN cache' : CacheIsFull'
  BY <1>4, <1>7 DEF CallsOK
<1> QED
  BY <1>1, <1>2, <1>3, <1>4, <1>7, <1>8, <1>9, <1>10 DEF CallsOK

(* The value function is only asked for what the cache could not take.     *)
LEMMA CallsStep ==
  ASSUME CallOK, RoundsOK, LookupsOK, CallsOK, EstimatorNext
  PROVE  CallsOK'
<1> DEFINE D == Drawable
<1>1. samples \in Seq(D) /\ drawn \in Seq(D) /\ Walked(<< >>) = {}
  BY WalkedParts DEF CallOK
<1>2. /\ Walked(samples) \subseteq Ideals(pa)
      /\ Walked(drawn) \subseteq Asked
  BY WalkedAreIdeals DEF CallOK, CallsOK
<1>3. ASSUME samples # << >>
      PROVE  /\ Walked(samples) = Walked(Tail(samples)) \cup CoalitionsAlong(Head(samples).order)
             /\ Walked(Append(drawn, Head(samples)))
                  = Walked(drawn) \cup CoalitionsAlong(Head(samples).order)
  <2> HIDE DEF D
  <2> QED
    BY <1>1, <1>3, WalkedParts
<1> HIDE DEF D
<1>4. CASE \/ Step1 \/ Step5 \/ Step6 \/ Rescale \/ Resolved
           \/ Uniform /\ (OpenRound \/ DrawFails \/ BatchResolved)
  <2>1. /\ calls' = calls /\ cache' = cache /\ samples' = samples /\ drawn' = drawn
        /\ values' = values /\ pc # "done" /\ pc' # "resolve"
        /\ Batched /\ pc' \in {"rescale", "accumulate"} =>
             pc \in {"resolve", "rescale", "accumulate"}
    BY <1>4 DEF Step1, Step5, Step6, RejectConfig, AcceptConfig, Finish, EndRound, SkipTest, Test,
       Rescale, Resolved, OpenRound, DrawFails, DrawDue, BatchResolved, Return
  <2> QED
    BY <1>2, <2>1, CallsStayWithoutCall DEF CallsOK
<1>5. CASE DrawRound
  <2>1. /\ calls' = calls /\ cache' = cache /\ drawn' = drawn /\ pc = "round" /\ samples = << >>
        /\ \/ Batched /\ DOMAIN values' = Walked(samples') \cap DOMAIN cache
           \/ ~Batched /\ pc' = "rescale"
    BY <1>5 DEF DrawRound, Found, RoundsOK
  <2> QED
    BY <1>1, <1>2, <2>1, CallsStayWithoutCall DEF CallsOK
<1>6. CASE DrawOne
  <2>1. /\ calls' = calls /\ cache' = cache /\ drawn' = drawn /\ pc' = pc
        /\ pc = IF Batched THEN "draw" ELSE "accumulate"
    BY <1>6 DEF DrawOne, DrawDue
  <2>2. PICK d : samples' = Append(samples, d)
    BY <1>6 DEF DrawOne
  <2>3. Walked(samples) \subseteq Walked(samples')
    <3>1. /\ DOMAIN samples \subseteq DOMAIN samples'
          /\ \A k \in DOMAIN samples : samples'[k] = samples[k]
      BY <1>1, <2>2
    <3> QED
      BY <3>1 DEF Walked
  <2> QED
    BY <1>2, <2>1, <2>3, CallsStayWithoutCall
<1>7. CASE BatchDrawn
  <2>1. /\ calls' = calls /\ cache' = cache /\ drawn' = drawn /\ samples' = samples
        /\ pc = "draw" /\ DOMAIN values' = Walked(samples') \cap DOMAIN cache
    BY <1>7 DEF BatchDrawn, Found
  <2> QED
    BY <1>2, <2>1, CallsStayWithoutCall DEF CallsOK
<1>8. CASE Batched /\ AbsorbResolved
  <2>1. /\ samples # << >> /\ samples' = Tail(samples) /\ drawn' = Append(drawn, Head(samples))
        /\ calls' = calls /\ cache' = cache /\ values' = values /\ pc = "accumulate" /\ pc' = pc
    BY <1>8 DEF AbsorbResolved, Absorb
  <2>2. DOMAIN values \subseteq Asked /\ Walked(samples) \subseteq DOMAIN values
    BY <1>8, <2>1 DEF CallsOK, LookupsOK
  <2> QED
    BY <1>2, <1>3, <2>1, <2>2, CallsStayWithoutCall
<1>9. CASE ResolveChunk
  <2>1. /\ pc = "resolve" /\ pc' = pc /\ samples' = samples /\ drawn' = drawn
        /\ DOMAIN values' = DOMAIN values \cup Chunk
        /\ Count(Chunk) /\ DOMAIN cache' = DOMAIN cache \cup Admitted(Chunk)
    BY <1>9 DEF ResolveChunk, Evaluate, With
  <2>2. Chunk \subseteq Missing
    BY DEF Chunk, FirstOf
  <2>3. Missing \subseteq Walked(samples) /\ Missing \cap DOMAIN cache = {}
    BY <2>1 DEF Missing, CallsOK
  <2>4. DOMAIN cache' \subseteq DOMAIN cache \cup Chunk
    BY <2>1 DEF With, Admitted, FirstOf
  <2> HIDE DEF CallsOK
  <2>5. Walked(samples') \cap DOMAIN cache' \subseteq DOMAIN values'
    BY <2>1, <2>4 DEF CallsOK
  <2>6. Batched => DOMAIN values' \subseteq Asked \cup Chunk
    BY <2>1 DEF CallsOK
  <2> QED
    BY <1>2, <2>1, <2>2, <2>3, <2>5, <2>6, CallsGrow
<1>10. CASE BatchCallFails
  <2>1. /\ pc = "resolve" /\ pc' = "done" /\ samples' = samples /\ drawn' = drawn
        /\ Count(Chunk) /\ cache' = cache
    BY <1>10 DEF BatchCallFails, Return
  <2> DEFINE none == {}
  <2>4. Admitted(none) = {} /\ none \subseteq Chunk
    BY DEF Admitted, FirstOf
  <2>5. DOMAIN cache' = DOMAIN cache \cup Admitted(none)
    BY <2>1, <2>4
  <2> HIDE DEF none
  <2>2. Chunk \subseteq Missing
    BY DEF Chunk, FirstOf
  <2>3. Missing \subseteq Walked(samples) /\ Missing \cap DOMAIN cache = {}
    BY <2>1 DEF Missing, CallsOK
  <2> QED
    BY <1>2, <2>1, <2>2, <2>3, <2>4, <2>5, CallsGrow
<1>11. CASE ~Batched /\ AbsorbCalling
  <2> DEFINE asked == MissingAlong(Head(samples).order)
  <2>1. /\ samples # << >> /\ samples' = Tail(samples) /\ drawn' = Append(drawn, Head(samples))
        /\ Count(asked) /\ DOMAIN cache' = DOMAIN cache \cup Admitted(asked)
        /\ pc = "accumulate" /\ pc' = pc
    BY <1>11 DEF AbsorbCalling, Absorb, Evaluate, With
  <2>2. /\ asked \subseteq CoalitionsAlong(Head(samples).order) /\ asked \cap DOMAIN cache = {}
        /\ CoalitionsAlong(Head(samples).order) \subseteq asked \cup DOMAIN cache
    BY DEF MissingAlong
  <2>3. DOMAIN cache \subseteq Asked
    BY DEF CallsOK
  <2> HIDE DEF asked
  <2>4. asked \in SUBSET Ideals(pa)
    BY <1>2, <1>3, <2>1, <2>2
  <2>5. Walked(drawn') \subseteq Asked \cup asked
    BY <1>2, <1>3, <2>1, <2>2, <2>3
  <2>6. Walked(drawn) \cup Walked(samples) \cup asked \subseteq Walked(drawn') \cup Walked(samples')
    BY <1>3, <2>1, <2>2
  <2> QED
    BY <1>11, <2>1, <2>2, <2>4, <2>5, <2>6, CallsGrow
<1>12. CASE ~Batched /\ CallFails
  <2>1. PICK S \in MissingAlong(Head(samples).order) :
          LET asked == MissingAlong(Head(samples).order) \cap SUBSET S
          IN  Count(asked) /\ cache' = With(cache, Admitted(asked \ {S}))
    BY <1>12 DEF CallFails
  <2> DEFINE asked == MissingAlong(Head(samples).order) \cap SUBSET S
             kept == asked \ {S}
  <2>2. /\ samples # << >> /\ samples' = samples /\ drawn' = drawn
        /\ pc = "accumulate" /\ pc' = "done"
    BY <1>12 DEF CallFails, Return
  <2>3. asked \subseteq CoalitionsAlong(Head(samples).order) /\ asked \cap DOMAIN cache = {}
    BY DEF MissingAlong
  <2>4. /\ Count(asked) /\ DOMAIN cache' = DOMAIN cache \cup Admitted(kept)
        /\ kept \subseteq asked
    BY <2>1 DEF With
  <2> HIDE DEF asked, kept
  <2>5. asked \subseteq Walked(samples) /\ asked \in SUBSET Ideals(pa)
    BY <1>2, <1>3, <2>2, <2>3
  <2> QED
    BY <1>2, <2>2, <2>3, <2>4, <2>5, CallsGrow
<1>13. CASE Step2
  BY <1>4, <1>5, <1>13 DEF Step2
<1>14. CASE Step3
  BY <1>11, <1>12, <1>14 DEF Step3
<1>15. CASE Step4
  BY <1>8, <1>9, <1>10, <1>15 DEF Step4
<1>16. CASE Step7
  BY <1>4, <1>6, <1>16 DEF Step7
<1>17. CASE Step8
  BY <1>4, <1>7, <1>17 DEF Step8
<1> QED
  BY <1>4, <1>13, <1>14, <1>15, <1>16, <1>17, StepsOfCall
------------------------------------------------------------------------------
(* The invariant holds of every call.                                      *)

(* It holds when a call is about to be made,                               *)
LEMMA InitIsOK == Init => IInv
<1> SUFFICES ASSUME Init
             PROVE  IInv
  OBVIOUS
<1>1. \E w : Start(w)
  BY DEF Init
<1>2. /\ pa \in InputGraphs /\ v \in ValueFns /\ config \in Configs
      /\ pc = "start" /\ result = "none" /\ cache = << >> /\ samples = << >> /\ drawn = << >>
      /\ calls = [S \in Ideals(pa) |-> 0] /\ total = 0
      /\ prev = [i \in Node |-> NaN] /\ checks = 0 /\ converged = FALSE /\ memo = {}
  BY <1>1 DEF Start, Init
<1>3. CallOK
  BY <1>2 DEF CallOK, InRound
<1>4. RoundsOK
  <2>1. config.target \in Nat
    BY <1>2, InputsAssumption
  <2> QED
    BY <1>2, <2>1 DEF RoundsOK, InRound
<1>5. TestsOK /\ LookupsOK
  BY <1>2 DEF TestsOK, LookupsOK
<1>6. CallsOK
  <2>1. DOMAIN cache = {} /\ IsFiniteSet({}) /\ Cardinality({}) = 0 /\ CacheCap >= 0
    BY <1>2, InputsAssumption, FS_EmptySet
  <2>2. Walked(drawn) = {} /\ Asked = {}
    BY <1>2 DEF Walked, Asked
  <2> QED
    BY <1>2, <2>1, <2>2 DEF CallsOK
<1>7. MemoOK
  BY <1>2 DEF MemoOK
<1> QED
  BY <1>3, <1>4, <1>5, <1>6, <1>7 DEF IInv

(* every step keeps it,                                                    *)
LEMMA StepIsOK == IInv /\ [EstimatorNext]_evars => IInv'
<1>1. ASSUME IInv, EstimatorNext
      PROVE  IInv'
  BY <1>1, CallStep, RoundsStep, TestsStep, LookupsStep, CallsStep, MemoStep DEF IInv
<1>2. ASSUME IInv, UNCHANGED evars
      PROVE  IInv'
  BY <1>2 DEF IInv, CallOK, RoundsOK, TestsOK, LookupsOK, CallsOK, MemoOK, evars, vars, args, sums,
     test, InRound, Uniform, Batched, Adaptive, Drawable, Draws, InvalidConfig, BatchSize,
     RoundSize, MadeInRound, Walked, Asked, CacheIsFull
<1> QED
  BY <1>1, <1>2

(* and so it holds always: of a call of any of the twelve methods, on      *)
(* every graph and configuration.                                          *)
THEOREM CallInvariant == Spec => []IInv
BY InitIsOK, StepIsOK, PTL DEF Spec

(* A successful result reports as many draws as its sums are made of, the  *)
(* number asked for unless the estimates converged earlier.                *)
THEOREM DrawsAreReported == Spec => []ReportsDraws
<1>1. IInv => ReportsDraws
  BY DEF IInv, CallOK, RoundsOK, ReportsDraws
<1> QED
  BY <1>1, CallInvariant, PTL

(* Convergence is claimed only after two tests with a full round between   *)
(* them, and never on fewer draws than the minimum.                        *)
THEOREM ConvergenceIsTested == Spec => []ConvergedComparesTwoTests
<1>1. IInv => ConvergedComparesTwoTests
  BY DEF IInv, TestsOK, ConvergedComparesTwoTests
<1> QED
  BY <1>1, CallInvariant, PTL

(* The lookups of a batch that the code unwraps find their value.          *)
THEOREM LookupsSucceed == Spec => []UnwrapNeverFails
<1>1. IInv => UnwrapNeverFails
  BY DEF IInv, LookupsOK, Walked, UnwrapNeverFails
<1> QED
  BY <1>1, CallInvariant, PTL

(* The value function is asked for a coalition again only when the bounded *)
(* cache of the large copy is full, and it is asked for exactly what the   *)
(* draws pass through.                                                     *)
THEOREM CallsAreRationed == Spec => []EvaluatedOnce
<1>1. IInv => EvaluatedOnce
  <2> SUFFICES ASSUME IInv
               PROVE  EvaluatedOnce
    OBVIOUS
  <2>1. result = "ok" => Asked = Walked(drawn)
    <3>1. Walked(<< >>) = {}
      BY DEF Walked
    <3> QED
      BY <3>1 DEF IInv, RoundsOK, CallsOK
  <2>2. \A S \in DOMAIN calls : calls[S] > 1 => CacheIsFull /\ S \notin DOMAIN cache
    BY DEF IInv, CallsOK
  <2> QED
    BY <2>1, <2>2 DEF IInv, CallsOK, EvaluatedOnce, Asked, Walked, CacheIsFull
<1> QED
  BY <1>1, CallInvariant, PTL
------------------------------------------------------------------------------
(* The running sums.                                                       *)

(* A sum over a sequence of numbers grows by what is appended.             *)
LEMMA SumOfPrefixes ==
  ASSUME NEW f \in Seq(Int)
  PROVE  \E g :
           /\ g \in [0..Len(f) -> Int]
           /\ g[0] = 0 /\ \A k \in 1..Len(f) : g[k] = g[k - 1] + f[k]
           /\ SumOf(f) = g[Len(f)]
<1> DEFINE n == Len(f)
           step == [k \in 1..n |-> [x \in Int |-> x + f[k]]]
           eq(g) == g = [k \in 0..n |-> IF k = 0 THEN 0 ELSE g[k - 1] + f[k]]
           sum == CHOOSE g : eq(g)
<1>1. n \in Nat /\ \A k \in 1..n : f[k] \in Int
  OBVIOUS
<1>2. IsStep(n, Int, step)
  BY <1>1 DEF IsStep
<1>3. PICK g : Follows(n, Int, 0, step, g)
  <2>1. 0 \in Int
    OBVIOUS
  <2> HIDE DEF step, n
  <2> QED
    BY <1>1, <1>2, <2>1, RecursionExists
<1>4. /\ g \in [0..n -> Int] /\ g[0] = 0
      /\ \A k \in 1..n : g[k] = g[k - 1] + f[k]
  <2>1. \A k \in 1..n : k - 1 \in 0..n
    BY <1>1
  <2> QED
    BY <1>3, <2>1 DEF Follows
<1>5. eq(g)
  <2>1. \A k \in 0..n : g[k] = IF k = 0 THEN 0 ELSE g[k - 1] + f[k]
    BY <1>1, <1>4
  <2> QED
    BY <1>4, <2>1
<1>6. eq(sum)
  BY <1>5
<1>7. SumOf(f) = sum[n]
  BY DEF SumOf
<1> HIDE DEF sum, n
<1>8. sum[0] = 0 /\ \A k \in 1..n : sum[k] = sum[k - 1] + f[k]
  BY <1>1, <1>6
<1>9. sum[n] = g[n]
  <2>1. InStep(n, sum, g)
    BY <1>4, <1>8 DEF InStep
  <2>2. n \in 0..n
    BY <1>1
  <2> QED
    BY <1>1, <2>1, <2>2, RecursionIsUnique
<1>10. SumOf(f) = g[n]
  BY <1>7, <1>9
<1> QED
  BY <1>4, <1>10 DEF n

(* The sum itself, of nothing and of one term more.                        *)
LEMMA SumOfAppend ==
  ASSUME NEW f \in Seq(Int), NEW x \in Int
  PROVE  /\ SumOf(f) \in Int /\ SumOf(<< >>) = 0
         /\ SumOf(Append(f, x)) = SumOf(f) + x
<1> DEFINE fx == Append(f, x)
           n == Len(f)
<1>1. n \in Nat /\ fx \in Seq(Int) /\ Len(fx) = n + 1 /\ fx[n + 1] = x /\ \A k \in 1..n : fx[k] = f[k]
  OBVIOUS
<1>2. PICK g :
        /\ g \in [0..n -> Int]
        /\ g[0] = 0 /\ \A k \in 1..n : g[k] = g[k - 1] + f[k]
        /\ SumOf(f) = g[n]
  BY SumOfPrefixes
<1>3. PICK e :
        /\ e \in [0..(n + 1) -> Int]
        /\ e[0] = 0 /\ \A k \in 1..(n + 1) : e[k] = e[k - 1] + fx[k]
        /\ SumOf(fx) = e[n + 1]
  <2> HIDE DEF fx, n
  <2>1. \E e :
           /\ e \in [0..Len(fx) -> Int]
           /\ e[0] = 0 /\ \A k \in 1..Len(fx) : e[k] = e[k - 1] + fx[k]
           /\ SumOf(fx) = e[Len(fx)]
    BY <1>1, SumOfPrefixes
  <2> QED
    BY <1>1, <2>1
<1> HIDE DEF fx, n
<1>4. g[n] = e[n]
  <2>1. \A k \in 1..n : fx[k] = f[k] /\ k \in 1..(n + 1)
    BY <1>1
  <2>2. InStep(n, g, e)
    BY <1>2, <1>3, <2>1 DEF InStep
  <2>3. n \in Nat /\ n \in 0..n
    BY <1>1
  <2> QED
    BY <2>2, <2>3, RecursionIsUnique
<1>5. SumOf(fx) = SumOf(f) + x
  <2>1. n \in 0..n /\ n + 1 \in 1..(n + 1) /\ (n + 1) - 1 = n
    BY <1>1
  <2> QED
    BY <1>1, <1>2, <1>3, <1>4, <2>1
<1>6. SumOf(<< >>) = 0
  <2> DEFINE z == << >>
  <2>1. z \in Seq(Int) /\ Len(z) = 0
    OBVIOUS
  <2> HIDE DEF z
  <2>2. SumOf(z) = 0
    BY <2>1, SumOfPrefixes
  <2> QED
    BY <2>2 DEF z
<1>7. SumOf(f) \in Int
  BY <1>1, <1>2
<1> QED
  BY <1>5, <1>6, <1>7 DEF fx

(* Every topological order has a positive weight.                          *)
LEMMA FrontierWeightIsPositive ==
  ASSUME NEW g \in InputGraphs, NEW s \in TopologicalOrders(g)
  PROVE  FrontierWeight(g, s) \in Nat \ {0}
<1> DEFINE n == Len(s)
           V == Nat \ {0}
           width == [k \in 1..n |-> Cardinality(Ready(g, Prefix(s, k - 1)))]
           step == [k \in 1..n |-> [x \in V |-> x * width[k]]]
           eq(w) == w = [k \in 0..n |-> IF k = 0 THEN 1 ELSE
                           w[k - 1] * Cardinality(Ready(g, Prefix(s, k - 1)))]
           sol == CHOOSE w : eq(w)
<1>1. n \in Nat /\ n = Cardinality(DOMAIN g) /\ IsFiniteSet(DOMAIN g)
  BY NodesOfGraph, NodesAreNumbers, InputsAssumption DEF TopologicalOrders
<1>2. s \in [1..n -> DOMAIN g]
  BY <1>1 DEF TopologicalOrders
<1>3. ASSUME NEW k \in 1..n
      PROVE  width[k] \in Nat \ {0}
  <2> DEFINE R == Ready(g, Prefix(s, k - 1))
  <2>1. s[k] \in DOMAIN g /\ g[s[k]] \subseteq Prefix(s, k - 1)
    BY <1>2 DEF TopologicalOrders, IsTopologicalOrder
  <2>2. s[k] \notin Prefix(s, k - 1)
    <3> SUFFICES ASSUME NEW j \in 1..(k - 1), s[j] = s[k]
                 PROVE  FALSE
      BY DEF Prefix
    <3>1. j \in 1..Len(s) /\ k \in 1..Len(s) /\ j # k
      BY <1>1, <1>2
    <3> QED
      BY <3>1 DEF TopologicalOrders, IsTopologicalOrder, IsInjectiveSeq
  <2>3. s[k] \in R
    BY <2>1, <2>2 DEF Ready
  <2>4. IsFiniteSet(R)
    BY <1>1, FS_Subset DEF Ready
  <2> HIDE DEF R
  <2>5. Cardinality(R) \in Nat /\ Cardinality(R) # 0
    BY <2>3, <2>4, FS_CardinalityType, FS_EmptySet
  <2> QED
    BY <2>5 DEF R
<1>12. \A k \in 1..n : width[k] = Cardinality(Ready(g, Prefix(s, k - 1)))
  OBVIOUS
<1> HIDE DEF width
<1>4. IsStep(n, V, step)
  <2>1. \A x \in V, y \in V : x * y \in V
    OBVIOUS
  <2> QED
    BY <1>3, <2>1 DEF IsStep
<1>5. PICK w : Follows(n, V, 1, step, w)
  <2>1. 1 \in V
    OBVIOUS
  <2> HIDE DEF step, n, V
  <2> QED
    BY <1>1, <1>4, <2>1, RecursionExists
<1>6. w \in [0..n -> V] /\ w[0] = 1 /\ \A k \in 1..n : w[k] = w[k - 1] * width[k]
  <2>1. \A k \in 1..n : k - 1 \in 0..n
    BY <1>1
  <2> QED
    BY <1>5, <2>1 DEF Follows
<1>7. eq(w)
  <2>1. \A k \in 0..n :
          w[k] = IF k = 0 THEN 1 ELSE w[k - 1] * Cardinality(Ready(g, Prefix(s, k - 1)))
    BY <1>1, <1>6, <1>12
  <2> QED
    BY <1>6, <2>1
<1>8. eq(sol)
  BY <1>7
<1>9. FrontierWeight(g, s) = sol[n]
  BY DEF FrontierWeight
<1> HIDE DEF sol, n
<1>10. sol[0] = 1 /\ \A k \in 1..n : sol[k] = sol[k - 1] * width[k]
  BY <1>1, <1>8, <1>12
<1>11. sol[n] = w[n]
  <2>1. InStep(n, sol, w)
    BY <1>6, <1>10 DEF InStep
  <2>2. n \in 0..n
    BY <1>1
  <2> QED
    BY <1>1, <2>1, <2>2, RecursionIsUnique
<1> QED
  BY <1>1, <1>6, <1>9, <1>11

(* Division of what is a multiple.                                         *)
LEMMA QuotientOfMultiple ==
  ASSUME NEW n \in Nat \ {0}, NEW m \in Int
  PROVE  (n * m) \div n = m
OBVIOUS

(* A divisor of the scale divides it.                                      *)
LEMMA DivisorOfScale ==
  ASSUME NEW n \in Nat \ {0}, NEW scale \in Nat, scale % n = 0
  PROVE  scale = n * (scale \div n) /\ scale \div n \in Nat
OBVIOUS

(* A weight relative to the maximum n.                                     *)
LEMMA RelativeWeight ==
  ASSUME NEW n \in Nat \ {0}, NEW q \in Nat, NEW w \in Nat
  PROVE  (w * (n * q)) \div n = w * q
<1>1. w * (n * q) = n * (w * q) /\ w * q \in Int
  OBVIOUS
<1> QED
  BY <1>1, QuotientOfMultiple

(* One more term of weight w in a sum, and in a sum of squares.            *)
LEMMA OneMoreTerm ==
  ASSUME NEW n \in Nat \ {0}, NEW q \in Nat, NEW w \in Nat, NEW d \in Int, NEW s \in Int,
         NEW x \in Int, x * n = (n * q) * s
  PROVE  (x + (w * q) * d) * n = (n * q) * (s + w * d)
OBVIOUS

(* The same for the sum of squares.                                        *)
LEMMA OneMoreSquare ==
  ASSUME NEW n \in Nat \ {0}, NEW q \in Nat, NEW w \in Nat, NEW d \in Int, NEW s \in Int,
         NEW x \in Int, x * n * n = (n * q) * (n * q) * s
  PROVE  (x + ((w * q) * d) * ((w * q) * d)) * n * n
           = (n * q) * (n * q) * (s + (w * d) * (w * d))
OBVIOUS
------------------------------------------------------------------------------
(* The values in use are those of the value function.                      *)
ValuesOK ==
  /\ \A S \in DOMAIN cache : cache[S] = v[S]
  /\ \A S \in DOMAIN values : values[S] = v[S]

(* The function is a number on both sides of node i along s.               *)
IsNumeric(s, i) == {v[Prefix(s, Step(s, i))], v[Prefix(s, Step(s, i) - 1)]} \subseteq Int

NaNsOK == \A i \in Node \ nan : \A k \in DOMAIN drawn : IsNumeric(drawn[k].order, i)

(* The draws the largest weight accounts for: those added up, and those of *)
(* the round once it has been looked through.                              *)
Weighed == Elems(drawn) \cup (IF pc = "accumulate" /\ ~Uniform THEN Elems(samples) ELSE {})

TopOK ==
  /\ maxW \in Nat /\ (maxW # 0 => Scale % maxW = 0)
  /\ Uniform => maxW = 1
  /\ \A d \in Weighed : d.weight <= maxW
  /\ pc # "done" \/ result = "ok" => maxW = 0 \/ Uniform \/ \E d \in Weighed : d.weight = maxW

(* Every sum is the sum over the draws added up, relative to maxW.         *)
EquationsOK ==
  /\ den \in Int /\ wsq \in Int /\ num \in [Node -> Int] /\ numSq \in [Node -> Int]
  /\ den * maxW = Scale * SumOf(Weights)
  /\ wsq * maxW * maxW = Scale * Scale * SumOf(Squares(Weights))
  /\ \A i \in Node \ nan : num[i] * maxW = Scale * SumOf(Contributions(i))
  /\ Adaptive => \A i \in Node \ nan :
       numSq[i] * maxW * maxW = Scale * Scale * SumOf(Squares(Contributions(i)))

(* What a draw weighs, and where a node stands in its order.               *)
LEMMA DrawIsWeighed ==
  ASSUME CallOK, NEW d \in Drawable
  PROVE  /\ d.order \in TopologicalOrders(pa)
         /\ d.weight \in Nat \ {0} /\ Scale % d.weight = 0
         /\ Uniform => d.weight = 1
<1>1. pa \in InputGraphs /\ Scale \in Nat
  BY InputsAssumption DEF CallOK
<1>2. CASE Uniform
  BY <1>1, <1>2 DEF Drawable
<1>3. CASE ~Uniform
  <2>1. PICK s \in TopologicalOrders(pa) : d = [order |-> s, weight |-> FrontierWeight(pa, s)]
    BY <1>3 DEF Drawable, Draws
  <2>2. FrontierWeight(pa, s) \in Nat \ {0}
    BY <1>1, FrontierWeightIsPositive
  <2>3. Scale % FrontierWeight(pa, s) = 0
    BY <1>1, InputsAssumption
  <2> QED
    BY <1>3, <2>1, <2>2, <2>3
<1> QED
  BY <1>2, <1>3

(* An order passes through the coalitions before and after every node,     *)
(* where the value function is a number or NaN.                            *)
LEMMA StepAlongOrder ==
  ASSUME CallOK, NEW s \in TopologicalOrders(pa), NEW i \in Node
  PROVE  /\ Prefix(s, Step(s, i)) \in CoalitionsAlong(s)
         /\ Prefix(s, Step(s, i) - 1) \in CoalitionsAlong(s)
         /\ v[Prefix(s, Step(s, i))] \in Int \cup {NaN}
         /\ v[Prefix(s, Step(s, i) - 1)] \in Int \cup {NaN}
<1>1. pa \in InputGraphs /\ DOMAIN pa = Node /\ Cardinality(Node) \in Nat
  BY NodesOfGraph, NodesAreNumbers DEF CallOK
<1>2. Len(s) = Cardinality(Node) /\ i \in Elems(s)
  BY <1>1 DEF TopologicalOrders, IsTopologicalOrder
<1>3. Step(s, i) \in 1..Len(s)
  BY <1>2 DEF Step, Elems
<1>4. Step(s, i) \in 0..Len(s) /\ Step(s, i) - 1 \in 0..Len(s)
  BY <1>1, <1>2, <1>3
<1>5. /\ Prefix(s, Step(s, i)) \in CoalitionsAlong(s)
      /\ Prefix(s, Step(s, i) - 1) \in CoalitionsAlong(s)
  BY <1>4 DEF CoalitionsAlong
<1>6. CoalitionsAlong(s) \subseteq SUBSET Node
  BY <1>1, WalkVisitsIdeals DEF Ideals
<1>7. v \in [SUBSET Node -> Int \cup {NaN}]
  BY InputsAssumption DEF CallOK
<1> QED
  BY <1>5, <1>6, <1>7

(* The terms of the sums.                                                  *)
LEMMA TermsOfSums ==
  ASSUME CallOK, NaNsOK
  PROVE  /\ Weights \in Seq(Nat) /\ Squares(Weights) \in Seq(Int)
         /\ \A i \in Node \ nan : Contributions(i) \in Seq(Int) /\ Squares(Contributions(i)) \in Seq(Int)
<1> DEFINE D == Drawable
<1>1. drawn \in Seq(D) /\ Len(drawn) \in Nat /\ DOMAIN drawn = 1..Len(drawn)
  BY DEF CallOK
<1>2. \A k \in 1..Len(drawn) : drawn[k] \in D
  BY <1>1
<1>3. \A k \in 1..Len(drawn) : drawn[k].weight \in Nat
  BY <1>2, DrawIsWeighed
<1>4. ASSUME NEW i \in Node \ nan
      PROVE  \A k \in 1..Len(drawn) : drawn[k].weight * Delta(drawn[k].order, i) \in Int
  BY <1>1, <1>3 DEF NaNsOK, IsNumeric, Delta
<1>5. Weights \in [1..Len(drawn) -> Nat]
  BY <1>1, <1>3 DEF Weights
<1>6. \A i \in Node \ nan : Contributions(i) \in [1..Len(drawn) -> Int]
  BY <1>1, <1>4 DEF Contributions
<1>7. ASSUME NEW f \in [1..Len(drawn) -> Int]
      PROVE  f \in Seq(Int) /\ Squares(f) \in Seq(Int)
  <2>1. Squares(f) \in [1..Len(drawn) -> Int]
    BY DEF Squares
  <2> QED
    BY <1>1, <2>1
<1>8. Weights \in Seq(Nat)
  BY <1>1, <1>5
<1>9. Weights \in [1..Len(drawn) -> Int]
  BY <1>5
<1> QED
  BY <1>6, <1>7, <1>8, <1>9

(* One more draw is one more term of every sum.                            *)
LEMMA TermsGrow ==
  ASSUME CallOK, NaNsOK, UNCHANGED <<pa, v>>, NEW d \in Drawable, drawn' = Append(drawn, d)
  PROVE  /\ Weights' = Append(Weights, d.weight)
         /\ Squares(Weights)' = Append(Squares(Weights), d.weight * d.weight)
         /\ \A i \in Node :
              LET x == d.weight * Delta(d.order, i)
              IN  /\ Contributions(i)' = Append(Contributions(i), x)
                  /\ Squares(Contributions(i))' = Append(Squares(Contributions(i)), x * x)
<1> DEFINE n == Len(drawn)
<1>1. /\ n \in Nat /\ DOMAIN drawn = 1..n /\ DOMAIN drawn' = 1..(n + 1)
      /\ \A k \in 1..n : drawn'[k] = drawn[k]
      /\ drawn'[n + 1] = d
  BY DEF CallOK
<1>2. /\ Weights = [k \in 1..n |-> drawn[k].weight]
      /\ Weights' = [k \in 1..(n + 1) |-> drawn'[k].weight]
  BY <1>1 DEF Weights
<1>3. ASSUME NEW i \in Node
      PROVE  /\ Contributions(i) = [k \in 1..n |-> drawn[k].weight * Delta(drawn[k].order, i)]
             /\ Contributions(i)' = [k \in 1..(n + 1) |-> drawn'[k].weight * Delta(drawn'[k].order, i)]
  BY <1>1 DEF Contributions, Delta
<1> HIDE DEF n
<1>4. Weights' = Append(Weights, d.weight)
  BY <1>1, <1>2
<1>5. Squares(Weights)' = Append(Squares(Weights), d.weight * d.weight)
  BY <1>1, <1>2 DEF Squares
<1>6. ASSUME NEW i \in Node
      PROVE  LET x == d.weight * Delta(d.order, i)
             IN  /\ Contributions(i)' = Append(Contributions(i), x)
                 /\ Squares(Contributions(i))' = Append(Squares(Contributions(i)), x * x)
  BY <1>1, <1>3 DEF Squares
<1> QED
  BY <1>4, <1>5, <1>6

(* Adding a draw keeps every sum equal to what it stands for.              *)
LEMMA AbsorbKeepsSums ==
  ASSUME CallOK, NaNsOK, TopOK, EquationsOK, maxW # 0, EstimatorNext,
         NEW d \in Drawable, NEW vals, \A S \in CoalitionsAlong(d.order) : vals[S] = v[S],
         Absorb(d, vals)
  PROVE  NaNsOK' /\ EquationsOK'
<1> DEFINE n == maxW
           q == Scale \div maxW
           W == d.weight
           wd(i) == IF i \in nan' THEN 0 ELSE (W * q) * Delta(d.order, i)
<1>1. pa' = pa /\ v' = v /\ Adaptive' = Adaptive
  BY ArgumentsStay
<1>2. /\ n \in Nat \ {0} /\ q \in Nat /\ Scale = n * q /\ W \in Nat
      /\ d.order \in TopologicalOrders(pa)
  BY InputsAssumption, DrawIsWeighed, DivisorOfScale DEF TopOK
<1>3. (W * Scale) \div maxW = W * q
  BY <1>2, RelativeWeight
<1>4. ASSUME NEW i \in Node
      PROVE  /\ vals[Prefix(d.order, Step(d.order, i))] = v[Prefix(d.order, Step(d.order, i))]
             /\ vals[Prefix(d.order, Step(d.order, i) - 1)] = v[Prefix(d.order, Step(d.order, i) - 1)]
  BY <1>2, StepAlongOrder
<1>5. ASSUME NEW i \in Node
      PROVE  /\ i \in nan => i \in nan'
             /\ i \notin nan' => IsNumeric(d.order, i) /\ Delta(d.order, i) \in Int
  <2>1. i \notin nan' => i \notin nan /\ NaN \notin {v[Prefix(d.order, Step(d.order, i))],
                                                     v[Prefix(d.order, Step(d.order, i) - 1)]}
    BY <1>4 DEF Absorb, Before, Step
  <2> QED
    BY <1>2, <2>1, StepAlongOrder DEF IsNumeric, Delta
<1>6. den' = den + W * q /\ wsq' = wsq + (W * q) * (W * q) /\ drawn' = Append(drawn, d) /\ maxW' = maxW
  BY <1>3 DEF Absorb
<1>7. ASSUME NEW i \in Node, i \notin nan'
      PROVE  /\ num'[i] = num[i] + wd(i)
             /\ Adaptive => numSq'[i] = numSq[i] + wd(i) * wd(i)
  <2> DEFINE A == vals[Prefix(d.order, Step(d.order, i))]
             B == vals[Prefix(d.order, Step(d.order, i) - 1)]
             x == IF NaN \in {A, B} THEN 0 ELSE ((W * Scale) \div maxW) * (A - B)
  <2>1. /\ num'[i] = num[i] + x
        /\ Adaptive => numSq'[i] = numSq[i] + x * x
        /\ nan' = nan \cup {j \in Node : NaN \in {vals[Prefix(d.order, Step(d.order, j))],
                                                  vals[Prefix(d.order, Step(d.order, j) - 1)]}}
    BY DEF Absorb, Before, Step
  <2>2. NaN \notin {A, B}
    BY <1>7, <2>1
  <2>3. x = (W * q) * (A - B)
    BY <1>3, <2>2
  <2>4. A - B = Delta(d.order, i)
    BY <1>4 DEF Delta
  <2> QED
    BY <1>7, <2>1, <2>3, <2>4
<1>8. num' \in [Node -> Int] /\ numSq' \in [Node -> Int]
  <2> DEFINE A(i) == vals[Prefix(d.order, Step(d.order, i))]
             B(i) == vals[Prefix(d.order, Step(d.order, i) - 1)]
             x(i) == IF NaN \in {A(i), B(i)} THEN 0 ELSE ((W * Scale) \div maxW) * (A(i) - B(i))
  <2>1. /\ num' = [i \in Node |-> num[i] + x(i)]
        /\ numSq' = [i \in Node |-> IF Adaptive THEN numSq[i] + x(i) * x(i) ELSE 0]
    BY DEF Absorb, Before, Step
  <2>2. ASSUME NEW i \in Node
        PROVE  x(i) \in Int
    <3>1. NaN \notin {A(i), B(i)} => A(i) \in Int /\ B(i) \in Int
      BY <1>2, <1>4, StepAlongOrder
    <3>2. W * q \in Int
      BY <1>2
    <3> HIDE DEF A, B, W, q
    <3> QED
      BY <1>3, <3>1, <3>2
  <2> HIDE DEF x
  <2>3. /\ \A i \in Node : num[i] + x(i) \in Int
        /\ \A i \in Node : (IF Adaptive THEN numSq[i] + x(i) * x(i) ELSE 0) \in Int
    BY <2>2 DEF EquationsOK
  <2> QED
    BY <2>1, <2>3
<1>9. NaNsOK'
  <2>1. ASSUME NEW i \in Node, i \notin nan', NEW k \in DOMAIN drawn'
        PROVE  IsNumeric(drawn'[k].order, i)
    <3>1. drawn'[k] = d \/ (k \in DOMAIN drawn /\ drawn'[k] = drawn[k])
      BY <1>6 DEF CallOK
    <3> QED
      BY <1>5, <2>1, <3>1 DEF NaNsOK
  <2> QED
    BY <1>1, <2>1 DEF NaNsOK, IsNumeric
<1> HIDE DEF n, q, W
<1>10. /\ Weights' = Append(Weights, W)
       /\ Squares(Weights)' = Append(Squares(Weights), W * W)
       /\ \A i \in Node : /\ Contributions(i)' = Append(Contributions(i), W * Delta(d.order, i))
                          /\ Squares(Contributions(i))' = Append(Squares(Contributions(i)),
                               (W * Delta(d.order, i)) * (W * Delta(d.order, i)))
  BY <1>1, <1>6, TermsGrow DEF W
<1>11. /\ Weights \in Seq(Int) /\ Squares(Weights) \in Seq(Int)
       /\ \A i \in Node \ nan : Contributions(i) \in Seq(Int) /\ Squares(Contributions(i)) \in Seq(Int)
  BY TermsOfSums
<1> HIDE DEF wd
<1>12. den' * n = (n * q) * SumOf(Weights)' /\ den' \in Int
  <2>1. W \in Int
    BY <1>2
  <2>2. SumOf(Weights)' = SumOf(Weights) + W * 1 /\ SumOf(Weights) \in Int
    <3>1. SumOf(Append(Weights, W)) = SumOf(Weights) + W /\ SumOf(Weights) \in Int
      BY <1>11, <2>1, SumOfAppend
    <3> QED
      BY <1>10, <2>1, <3>1
  <2>3. den * n = (n * q) * SumOf(Weights) /\ den \in Int
    BY <1>2 DEF EquationsOK, n
  <2>4. (den + (W * q) * 1) * n = (n * q) * (SumOf(Weights) + W * 1)
    BY <1>2, <2>2, <2>3, OneMoreTerm
  <2>5. (W * q) * 1 = W * q /\ W * q \in Int
    BY <1>2
  <2> QED
    BY <1>6, <2>2, <2>3, <2>4, <2>5
<1>13. wsq' * n * n = (n * q) * (n * q) * SumOf(Squares(Weights))' /\ wsq' \in Int
  <2>1. W * W \in Int /\ (W * 1) * (W * 1) = W * W
    BY <1>2
  <2>2. /\ SumOf(Squares(Weights))' = SumOf(Squares(Weights)) + (W * 1) * (W * 1)
        /\ SumOf(Squares(Weights)) \in Int
    <3>1. /\ SumOf(Append(Squares(Weights), W * W)) = SumOf(Squares(Weights)) + W * W
          /\ SumOf(Squares(Weights)) \in Int
      BY <1>11, <2>1, SumOfAppend
    <3> QED
      BY <1>10, <2>1, <3>1
  <2>3. wsq * n * n = (n * q) * (n * q) * SumOf(Squares(Weights)) /\ wsq \in Int
    BY <1>2 DEF EquationsOK, n
  <2>4. (wsq + ((W * q) * 1) * ((W * q) * 1)) * n * n
          = (n * q) * (n * q) * (SumOf(Squares(Weights)) + (W * 1) * (W * 1))
    BY <1>2, <2>2, <2>3, OneMoreSquare
  <2>5. (W * q) * 1 = W * q /\ W * q \in Int
    BY <1>2
  <2> QED
    BY <1>6, <2>2, <2>3, <2>4, <2>5
<1>14. ASSUME NEW i \in Node, i \notin nan'
       PROVE  num'[i] * n = (n * q) * SumOf(Contributions(i))'
  <2> DEFINE D == Delta(d.order, i)
             x == num[i]
             f == Contributions(i)
  <2>1. i \notin nan /\ D \in Int /\ W * D \in Int /\ f \in Seq(Int)
    BY <1>2, <1>5, <1>11, <1>14
  <2>2. Contributions(i)' = Append(f, W * D) /\ num'[i] = x + (W * q) * D
    BY <1>7, <1>10, <1>14 DEF wd
  <2>3. x * n = (n * q) * SumOf(f) /\ x \in Int
    BY <1>2, <2>1 DEF EquationsOK, n
  <2> HIDE DEF D, f, x
  <2>4. SumOf(Append(f, W * D)) = SumOf(f) + W * D /\ SumOf(f) \in Int
    BY <2>1, SumOfAppend
  <2>5. n \in Nat \ {0} /\ q \in Nat /\ W \in Nat /\ D \in Int
    BY <1>2, <2>1
  <2>6. (x + (W * q) * D) * n = (n * q) * (SumOf(f) + W * D)
    BY <2>3, <2>4, <2>5, OneMoreTerm
  <2> QED
    BY <2>2, <2>4, <2>6 DEF x
<1>15. ASSUME Adaptive, NEW i \in Node, i \notin nan'
       PROVE  numSq'[i] * n * n = (n * q) * (n * q) * SumOf(Squares(Contributions(i)))'
  <2> DEFINE D == Delta(d.order, i)
             x == numSq[i]
             f == Squares(Contributions(i))
  <2>1. i \notin nan /\ D \in Int /\ (W * D) * (W * D) \in Int /\ f \in Seq(Int)
    BY <1>2, <1>5, <1>11, <1>15
  <2>2. /\ Squares(Contributions(i))' = Append(f, (W * D) * (W * D))
        /\ numSq'[i] = x + ((W * q) * D) * ((W * q) * D)
    BY <1>7, <1>10, <1>15 DEF wd
  <2>3. x * n * n = (n * q) * (n * q) * SumOf(f) /\ x \in Int
    BY <1>2, <1>15, <2>1 DEF EquationsOK, n
  <2> HIDE DEF D, f, x
  <2>4. SumOf(Append(f, (W * D) * (W * D))) = SumOf(f) + (W * D) * (W * D) /\ SumOf(f) \in Int
    BY <2>1, SumOfAppend
  <2>5. n \in Nat \ {0} /\ q \in Nat /\ W \in Nat /\ D \in Int
    BY <1>2, <2>1
  <2>6. (x + ((W * q) * D) * ((W * q) * D)) * n * n
          = (n * q) * (n * q) * (SumOf(f) + (W * D) * (W * D))
    BY <2>3, <2>4, <2>5, OneMoreSquare
  <2> QED
    BY <2>2, <2>4, <2>6 DEF x
<1>16. n * q = Scale /\ maxW' = n
  BY <1>2, <1>6 DEF n
<1>17. EquationsOK'
  BY <1>1, <1>8, <1>12, <1>13, <1>14, <1>15, <1>16 DEF EquationsOK
<1> QED
  BY <1>9, <1>17

(* The values in use stay those of the value function.                     *)
LEMMA ValuesStep ==
  ASSUME ValuesOK, EstimatorNext
  PROVE  ValuesOK'
<1>1. v' = v
  BY ArgumentsStay
<1>2. ASSUME NEW known, \A S \in DOMAIN known : known[S] = v[S], NEW more
      PROVE  \A S \in DOMAIN With(known, more) : With(known, more)[S] = v[S]
  BY <1>2 DEF With
<1>3. \/ cache' = cache
      \/ \E more : cache' = With(cache, more)
  BY StepsOfCall DEF Step1, Step2, Step3, Step4, Step5, Step6, Step7, Step8, RejectConfig,
     AcceptConfig, Finish, DrawRound, Rescale, Resolved, AbsorbCalling, CallFails, ResolveChunk,
     BatchCallFails, AbsorbResolved, EndRound, SkipTest, Test, OpenRound, DrawOne, DrawFails,
     BatchDrawn, BatchResolved, Evaluate
<1>4. \/ values' = values
      \/ values' = Found(samples')
      \/ \E more : values' = With(values, more)
  BY StepsOfCall DEF Step1, Step2, Step3, Step4, Step5, Step6, Step7, Step8, RejectConfig,
     AcceptConfig, Finish, DrawRound, Rescale, Resolved, AbsorbCalling, CallFails, ResolveChunk,
     BatchCallFails, AbsorbResolved, EndRound, SkipTest, Test, OpenRound, DrawOne, DrawFails,
     BatchDrawn, BatchResolved
<1>5. \A S \in DOMAIN cache' : cache'[S] = v[S]
  BY <1>2, <1>3 DEF ValuesOK
<1>6. \A S \in DOMAIN values' : values'[S] = v[S]
  BY <1>2, <1>4 DEF ValuesOK, Found
<1> QED
  BY <1>1, <1>5, <1>6 DEF ValuesOK

(* Rescaling makes every sum relative to the largest weight of the round,  *)
(* if that is larger than those before.                                    *)
LEMMA RescaleKeepsSums ==
  ASSUME CallOK, NaNsOK, TopOK, EquationsOK, EstimatorNext, ~Uniform, Rescale
  PROVE  TopOK' /\ EquationsOK'
<1> DEFINE D == Drawable
           W == {samples[k].weight : k \in 1..Len(samples)} \cup {maxW}
           top == Max(W)
<1>1. /\ Uniform' = Uniform /\ Adaptive' = Adaptive /\ pa' = pa /\ v' = v
      /\ drawn' = drawn /\ samples' = samples /\ nan' = nan /\ pc = "rescale" /\ pc' = "accumulate"
      /\ maxW' = top
  BY ArgumentsStay DEF Rescale, args
<1>2. /\ \A k \in 1..Len(samples) : samples[k] \in D
      /\ \A k \in 1..Len(samples) : samples[k].weight \in Nat \ {0} /\ Scale % samples[k].weight = 0
  <2>1. \A k \in 1..Len(samples) : samples[k] \in D
    BY DEF CallOK
  <2> QED
    BY <2>1, DrawIsWeighed
<1>3. W \in SUBSET Nat /\ IsFiniteSet(W) /\ W # {}
  <2> DEFINE weight == [k \in 1..Len(samples) |-> samples[k].weight]
             V == {weight[k] : k \in 1..Len(samples)}
  <2>1. Len(samples) \in Nat
    BY DEF CallOK
  <2>2. IsFiniteSet(1..Len(samples))
    BY <2>1, FS_Interval
  <2>3. IsFiniteSet(V)
    <3>1. weight \in Surjection(1..Len(samples), V)
      BY DEF Surjection
    <3> HIDE DEF V, weight
    <3> QED
      BY <2>2, <3>1, FS_Surjection
  <2>4. V = {samples[k].weight : k \in 1..Len(samples)}
    OBVIOUS
  <2>5. IsFiniteSet(V \cup {maxW})
    BY <2>3, FS_AddElement
  <2> QED
    BY <1>2, <2>4, <2>5 DEF TopOK
<1>4. top \in W /\ \A x \in W : top >= x
  <2> HIDE DEF W
  <2> QED
    BY <1>3, MaxOfFinite
<1>5. top \in Nat /\ maxW \in Nat /\ top >= maxW
  BY <1>3, <1>4 DEF TopOK
<1>6. top # 0 => Scale % top = 0
  BY <1>2, <1>4 DEF TopOK
<1>7. Weighed' = Weighed \cup Elems(samples) /\ Weighed = Elems(drawn)
  BY <1>1 DEF Weighed, Elems
<1>8. TopOK'
  <2>1. \A k \in 1..Len(samples) : samples[k].weight \in W /\ samples[k] \in Elems(samples)
    BY DEF Elems
  <2>2. \A d \in Weighed' : d.weight <= top
    <3>1. ASSUME NEW d \in Elems(samples)
          PROVE  d.weight <= top
      BY <1>4, <2>1 DEF Elems
    <3>2. ASSUME NEW d \in Weighed
          PROVE  d.weight <= top
      <4>1. d.weight \in Nat /\ d.weight <= maxW
        <5>1. d \in D
          BY <1>7 DEF Elems, CallOK
        <5>2. d.weight \in Nat
          BY <5>1, DrawIsWeighed
        <5> QED
          BY <5>2 DEF TopOK
      <4> QED
        BY <1>5, <4>1
    <3> QED
      BY <1>7, <3>1, <3>2
  <2>3. top = 0 \/ \E d \in Weighed' : d.weight = top
    BY <1>1, <1>4, <1>7, <2>1 DEF TopOK
  <2> HIDE DEF top
  <2> QED
    BY <1>1, <1>5, <1>6, <2>2, <2>3 DEF TopOK
<1> HIDE DEF W
<1> DEFINE R(x) == Rescaled(x, maxW, top)
           RS(x) == RescaledSq(x, maxW, top)
<1>9. /\ den' = R(den) /\ wsq' = RS(wsq)
      /\ num' = [i \in Node |-> R(num[i])] /\ numSq' = [i \in Node |-> RS(numSq[i])]
  BY DEF Rescale, W
<1> HIDE DEF top
<1>10. /\ Weights' = Weights /\ Squares(Weights)' = Squares(Weights)
       /\ \A i \in Node : /\ Contributions(i)' = Contributions(i)
                          /\ Squares(Contributions(i))' = Squares(Contributions(i))
  BY <1>1 DEF Weights, Squares, Contributions, Delta
<1>11. ASSUME NEW x \in Int, NEW s \in Int, x * maxW = Scale * s
       PROVE  R(x) * top = Scale * s
  <2>1. CASE top > maxW
    <3> DEFINE q == Scale \div top
    <3>1. top \in Nat \ {0} /\ Scale = top * q /\ q \in Nat
      BY <1>5, <1>6, <2>1, InputsAssumption, DivisorOfScale
    <3> HIDE DEF q
    <3>2. x * maxW = top * (q * s) /\ q * s \in Int
      BY <1>11, <3>1
    <3>3. (x * maxW) \div top = q * s
      BY <3>1, <3>2, QuotientOfMultiple
    <3>4. (q * s) * top = Scale * s
      BY <3>1
    <3> QED
      BY <2>1, <3>3, <3>4 DEF Rescaled
  <2>2. CASE ~(top > maxW)
    BY <1>5, <1>11, <2>2 DEF Rescaled
  <2> QED
    BY <2>1, <2>2
<1>12. ASSUME NEW x \in Int, NEW s \in Int, x * maxW * maxW = Scale * Scale * s
       PROVE  RS(x) * top * top = Scale * Scale * s
  <2>1. CASE top > maxW
    <3> DEFINE q == Scale \div top
    <3>1. top \in Nat \ {0} /\ Scale = top * q /\ q \in Nat
      BY <1>5, <1>6, <2>1, InputsAssumption, DivisorOfScale
    <3> HIDE DEF q
    <3>2. x * maxW * maxW = (top * top) * (q * q * s) /\ q * q * s \in Int /\ top * top \in Nat \ {0}
      BY <1>12, <3>1
    <3>3. (x * maxW * maxW) \div (top * top) = q * q * s
      BY <3>2, QuotientOfMultiple
    <3>4. (q * q * s) * top * top = Scale * Scale * s
      BY <3>1
    <3> QED
      BY <2>1, <3>3, <3>4 DEF RescaledSq
  <2>2. CASE ~(top > maxW)
    BY <1>5, <1>12, <2>2 DEF RescaledSq
  <2> QED
    BY <2>1, <2>2
<1>13. \A x \in Int : R(x) \in Int /\ RS(x) \in Int
  <2>1. \A x \in Int, y \in Nat, z \in Nat \ {0} : (x * y) \div z \in Int
    OBVIOUS
  <2>2. \A x \in Int, y \in Nat, z \in Nat \ {0} : (x * y * y) \div (z * z) \in Int
    <3>1. \A x \in Int, y \in Nat, z \in Nat \ {0} : x * y * y \in Int /\ z * z \in Nat \ {0}
      OBVIOUS
    <3>2. \A x \in Int, z \in Nat \ {0} : x \div z \in Int
      OBVIOUS
    <3> QED
      BY <3>1, <3>2
  <2>3. top > maxW => top \in Nat \ {0}
    BY <1>5
  <2> QED
    BY <1>5, <2>1, <2>2, <2>3 DEF Rescaled, RescaledSq
<1> HIDE DEF R, RS
<1>14. /\ SumOf(Weights) \in Int /\ SumOf(Squares(Weights)) \in Int
       /\ \A i \in Node \ nan : SumOf(Contributions(i)) \in Int /\ SumOf(Squares(Contributions(i))) \in Int
  <2>1. \A f \in Seq(Int) : SumOf(f) \in Int
    <3>1. 0 \in Int
      OBVIOUS
    <3> QED
      BY <3>1, SumOfAppend
  <2>2. Weights \in Seq(Int)
    BY TermsOfSums
  <2> QED
    BY <2>1, <2>2, TermsOfSums
<1>15. ASSUME NEW i \in Node \ nan
       PROVE  /\ num'[i] * top = Scale * SumOf(Contributions(i))
              /\ Adaptive => numSq'[i] * top * top = Scale * Scale * SumOf(Squares(Contributions(i)))
  BY <1>9, <1>11, <1>12, <1>14 DEF EquationsOK
<1>16. /\ den' * top = Scale * SumOf(Weights)
       /\ wsq' * top * top = Scale * Scale * SumOf(Squares(Weights))
  BY <1>9, <1>11, <1>12, <1>14 DEF EquationsOK
<1>17. /\ den' \in Int /\ wsq' \in Int /\ num' \in [Node -> Int] /\ numSq' \in [Node -> Int]
  BY <1>9, <1>13 DEF EquationsOK
<1>18. EquationsOK'
  BY <1>1, <1>10, <1>15, <1>16, <1>17 DEF EquationsOK
<1> QED
  BY <1>8, <1>18

(* A draw is only added up when a largest weight is known.                 *)
LEMMA DrawHasMaximum ==
  ASSUME CallOK, TopOK, pc = "accumulate", samples # << >>
  PROVE  /\ maxW # 0 /\ Head(samples) \in Drawable
         /\ Head(samples).weight <= maxW
         /\ Elems(samples) = Elems(Tail(samples)) \cup {Head(samples)}
<1> DEFINE D == Drawable
           d == Head(samples)
           t == Tail(samples)
<1>1. /\ Len(samples) \in Nat /\ 1 \in 1..Len(samples) /\ d = samples[1] /\ d \in D
      /\ Len(t) = Len(samples) - 1 /\ \A k \in 1..(Len(samples) - 1) : t[k] = samples[k + 1]
  BY DEF CallOK
<1>2. d.weight \in Nat \ {0} /\ (Uniform => d.weight = 1)
  BY <1>1, DrawIsWeighed
<1>3. Elems(samples) = Elems(t) \cup {d}
  <2>1. \A k \in 1..Len(samples) : k = 1 \/ (k - 1 \in 1..Len(t) /\ samples[k] = t[k - 1])
    BY <1>1
  <2>2. \A k \in 1..Len(t) : k + 1 \in 1..Len(samples) /\ t[k] = samples[k + 1]
    BY <1>1
  <2> HIDE DEF t
  <2> QED
    BY <1>1, <2>1, <2>2 DEF Elems
<1>4. d.weight <= maxW
  <2>1. CASE Uniform
    BY <1>2, <2>1 DEF TopOK
  <2>2. CASE ~Uniform
    BY <1>3, <2>2 DEF TopOK, Weighed
  <2> QED
    BY <2>1, <2>2
<1> QED
  BY <1>1, <1>2, <1>3, <1>4 DEF TopOK

(* Adding a draw to the sums.                                              *)
LEMMA AbsorbStep ==
  ASSUME CallOK, LookupsOK, ValuesOK, NaNsOK, TopOK, EquationsOK, EstimatorNext,
         (~Batched /\ AbsorbCalling) \/ (Batched /\ AbsorbResolved)
  PROVE  NaNsOK' /\ TopOK' /\ EquationsOK'
<1> DEFINE d == Head(samples)
           D == Drawable
<1>1. /\ pc = "accumulate" /\ pc' = pc /\ result' = result /\ samples # << >>
      /\ samples' = Tail(samples) /\ drawn' = Append(drawn, d) /\ maxW' = maxW
      /\ Uniform' = Uniform
  BY ArgumentsStay DEF AbsorbCalling, AbsorbResolved, Absorb
<1>2. /\ maxW # 0 /\ d \in Drawable /\ d.weight <= maxW
      /\ Elems(samples) = Elems(Tail(samples)) \cup {d}
  BY <1>1, DrawHasMaximum
<1>3. NaNsOK' /\ EquationsOK'
  <2>1. CASE AbsorbCalling
    BY <1>2, <2>1, AbsorbKeepsSums DEF AbsorbCalling
  <2>2. CASE Batched /\ AbsorbResolved
    <3>1. \A S \in CoalitionsAlong(d.order) : values[S] = v[S]
      BY <2>2 DEF AbsorbResolved, ValuesOK
    <3> QED
      BY <1>2, <2>2, <3>1, AbsorbKeepsSums DEF AbsorbResolved
  <2> QED
    BY <2>1, <2>2
<1>4. Elems(drawn') = Elems(drawn) \cup {d}
  <2>1. /\ Len(drawn) \in Nat /\ Len(drawn') = Len(drawn) + 1 /\ drawn'[Len(drawn) + 1] = d
        /\ \A k \in 1..Len(drawn) : drawn'[k] = drawn[k]
    BY <1>1 DEF CallOK
  <2>2. /\ \A k \in 1..Len(drawn') : k \in 1..Len(drawn) \/ k = Len(drawn) + 1
        /\ \A k \in 1..Len(drawn) : k \in 1..Len(drawn')
        /\ Len(drawn) + 1 \in 1..Len(drawn')
    BY <2>1
  <2> QED
    BY <2>1, <2>2 DEF Elems
<1>5. TopOK'
  <2>1. CASE Uniform
    <3>1. Weighed' = Weighed \cup {d}
      BY <1>1, <1>4, <2>1 DEF Weighed
    <3> QED
      BY <1>1, <1>2, <2>1, <3>1 DEF TopOK
  <2>2. CASE ~Uniform
    <3>1. Weighed = Elems(drawn) \cup Elems(samples)
      BY <1>1, <2>2 DEF Weighed
    <3>2. Weighed' = Elems(drawn') \cup Elems(samples')
      BY <1>1, <2>2 DEF Weighed, Elems
    <3>3. Weighed' = Weighed
      BY <1>1, <1>2, <1>4, <3>1, <3>2
    <3> QED
      BY <1>1, <2>2, <3>3 DEF TopOK
  <2> QED
    BY <2>1, <2>2
<1> QED
  BY <1>3, <1>5

(* No other step touches the sums.                                         *)
LEMMA SumsStay ==
  ASSUME CallOK, RoundsOK, NaNsOK, TopOK, EquationsOK, EstimatorNext,
         ~(~Uniform /\ Rescale), ~(~Batched /\ AbsorbCalling), ~(Batched /\ AbsorbResolved)
  PROVE  NaNsOK' /\ TopOK' /\ EquationsOK'
<1>1. pa' = pa /\ v' = v /\ Adaptive' = Adaptive /\ Uniform' = Uniform
  BY ArgumentsStay
<1>2. /\ UNCHANGED sums /\ drawn' = drawn
      /\ pc # "done" /\ (pc' = "accumulate" /\ ~Uniform => pc = pc' /\ samples' = samples)
      /\ (pc = "accumulate" /\ ~Uniform => \/ pc' = "done" /\ result' = "error"
                                           \/ samples = << >>)
  BY StepsOfCall DEF Step1, Step2, Step3, Step4, Step5, Step6, Step7, Step8, RejectConfig,
     AcceptConfig, Finish, DrawRound, Rescale, Resolved, AbsorbCalling, CallFails, ResolveChunk,
     BatchCallFails, AbsorbResolved, EndRound, SkipTest, Test, OpenRound, DrawOne, DrawFails,
     DrawDue, BatchDrawn, BatchResolved, Return
<1>3. maxW' = maxW /\ num' = num /\ numSq' = numSq /\ den' = den /\ wsq' = wsq /\ nan' = nan
  BY <1>2 DEF sums
<1>4. EquationsOK'
  BY <1>1, <1>2, <1>3 DEF EquationsOK, Weights, Squares, Contributions, Delta
<1>5. NaNsOK'
  BY <1>1, <1>2, <1>3 DEF NaNsOK, IsNumeric
<1>6. Elems(drawn') = Elems(drawn) /\ Elems(samples)' = Elems(samples')
  BY <1>2 DEF Elems
<1>7. Weighed' \subseteq Weighed
  BY <1>1, <1>2, <1>6 DEF Weighed
<1>8. (pc' # "done" \/ result' = "ok") => Weighed' = Weighed
  <2>1. Elems(<< >>) = {}
    BY DEF Elems
  <2> QED
    BY <1>1, <1>2, <1>6, <2>1 DEF Weighed
<1>9. TopOK'
  BY <1>1, <1>2, <1>3, <1>7, <1>8 DEF TopOK
<1> QED
  BY <1>4, <1>5, <1>9

SumsInv == IInv /\ ValuesOK /\ NaNsOK /\ TopOK /\ EquationsOK

(* The sums are right in every state.                                      *)
LEMMA SumsInvariant == Spec => []SumsInv
<1>1. Init => SumsInv
  <2> SUFFICES ASSUME Init
               PROVE  ValuesOK /\ NaNsOK /\ TopOK /\ EquationsOK
    BY InitIsOK DEF SumsInv
  <2>1. PICK w \in {0, 1} : Start(w) /\ (Uniform <=> w = 1)
    BY DEF Init
  <2>2. ValuesOK /\ NaNsOK
    BY <2>1 DEF Start, ValuesOK, NaNsOK
  <2>3. TopOK
    <3>1. Scale % 1 = 0 /\ Elems(<< >>) = {}
      BY InputsAssumption DEF Elems
    <3> QED
      BY <2>1, <3>1 DEF Start, TopOK, Weighed
  <2>4. EquationsOK
    <3>1. SumOf(<< >>) = 0
      <4>1. << >> \in Seq(Int) /\ 0 \in Int
        OBVIOUS
      <4> QED
        BY <4>1, SumOfAppend
    <3>2. Weights = << >> /\ Squares(Weights) = << >>
      BY <2>1 DEF Start, Weights, Squares
    <3>3. \A i \in Node : Contributions(i) = << >> /\ Squares(Contributions(i)) = << >>
      BY <2>1 DEF Start, Contributions, Squares
    <3>4. /\ den = 0 /\ wsq = 0 /\ num = [i \in Node |-> 0] /\ numSq = [i \in Node |-> 0]
          /\ maxW \in Int /\ Scale \in Int
      BY <2>1, InputsAssumption DEF Start
    <3> QED
      BY <3>1, <3>2, <3>3, <3>4 DEF EquationsOK
  <2> QED
    BY <2>2, <2>3, <2>4
<1>2. ASSUME SumsInv, EstimatorNext
      PROVE  SumsInv'
  <2>1. IInv' /\ ValuesOK'
    BY <1>2, StepIsOK, ValuesStep DEF SumsInv
  <2>2. NaNsOK' /\ TopOK' /\ EquationsOK'
    <3>1. CallOK /\ RoundsOK /\ LookupsOK /\ ValuesOK /\ NaNsOK /\ TopOK /\ EquationsOK
      BY <1>2 DEF SumsInv, IInv
    <3>2. CASE ~Uniform /\ Rescale
      <4>1. NaNsOK'
        BY <1>2, <3>1, <3>2, ArgumentsStay DEF NaNsOK, IsNumeric, Rescale
      <4> QED
        BY <1>2, <3>1, <3>2, <4>1, RescaleKeepsSums
    <3>3. CASE (~Batched /\ AbsorbCalling) \/ (Batched /\ AbsorbResolved)
      BY <1>2, <3>1, <3>3, AbsorbStep
    <3>4. CASE ~(~Uniform /\ Rescale) /\ ~(~Batched /\ AbsorbCalling) /\ ~(Batched /\ AbsorbResolved)
      BY <1>2, <3>1, <3>4, SumsStay
    <3> QED
      BY <3>2, <3>3, <3>4
  <2> QED
    BY <2>1, <2>2 DEF SumsInv
<1>3. ASSUME SumsInv, UNCHANGED evars
      PROVE  SumsInv'
  <2>1. IInv'
    BY <1>3, StepIsOK DEF SumsInv
  <2>2. /\ UNCHANGED <<pa, v, config, pc, result, cache, values, samples, maxW, num, numSq>>
        /\ UNCHANGED <<den, wsq, nan, drawn>>
    BY <1>3 DEF evars, vars, args, sums
  <2>3. ValuesOK' /\ NaNsOK'
    BY <1>3, <2>2 DEF SumsInv, ValuesOK, NaNsOK, IsNumeric
  <2>4. TopOK'
    BY <1>3, <2>2 DEF SumsInv, TopOK, Weighed, Uniform, Elems
  <2>5. EquationsOK'
    BY <1>3, <2>2 DEF SumsInv, EquationsOK, Adaptive, Weights, Squares, Contributions, Delta
  <2> QED
    BY <2>1, <2>3, <2>4, <2>5 DEF SumsInv
<1> QED
  BY <1>1, <1>2, <1>3, PTL DEF Spec

(* However the draws are cut into rounds, the running sums are the sums    *)
(* over all draws, relative to the largest of their weights.               *)
THEOREM SumsAreRight == Spec => []SumsAreCommensurate
<1>1. SumsInv => SumsAreCommensurate
  <2> SUFFICES ASSUME SumsInv, BetweenRounds
               PROVE  SumsAreCommensurate
    BY DEF SumsAreCommensurate
  <2> DEFINE W == {0} \cup Elems(Weights)
             top == Max(W)
  <2> USE DEF SumsInv, IInv
  <2>1. Len(drawn) \in Nat /\ DOMAIN drawn = 1..Len(drawn)
    BY DEF CallOK
  <2>2. /\ Weights \in [1..Len(drawn) -> Nat] /\ Len(Weights) = Len(drawn)
        /\ \A k \in 1..Len(drawn) : Weights[k] = drawn[k].weight
    <3>1. Weights \in Seq(Nat)
      BY TermsOfSums
    <3> QED
      BY <2>1, <3>1 DEF Weights
  <2>3. \A x : x \in W <=> x = 0 \/ \E k \in 1..Len(drawn) : x = drawn[k].weight
    BY <2>1, <2>2 DEF Elems
  <2>4. \A d \in Elems(drawn) : d.weight \in W /\ d.weight \in Nat \ {0}
    <3>1. \A d \in Elems(drawn) : d \in Drawable
      BY DEF Elems, CallOK
    <3>2. \A d \in Elems(drawn) : d.weight \in W
      BY <2>3 DEF Elems
    <3> QED
      BY <3>1, <3>2, DrawIsWeighed
  <2>5. W \in SUBSET Nat /\ W # {} /\ IsFiniteSet(W)
    <3>1. Weights \in Surjection(1..Len(drawn), Elems(Weights))
      BY <2>2 DEF Surjection, Elems
    <3>2. IsFiniteSet(Elems(Weights))
      <4>1. IsFiniteSet(1..Len(drawn))
        BY <2>1, FS_Interval
      <4> QED
        BY <3>1, <4>1, FS_Surjection
    <3>3. IsFiniteSet(Elems(Weights) \cup {0})
      BY <3>2, FS_AddElement
    <3>4. Elems(Weights) \in SUBSET Nat
      BY <2>2 DEF Elems
    <3> QED
      BY <3>3, <3>4
  <2> HIDE DEF W
  <2>6. top \in W /\ \A x \in W : top >= x
    BY <2>5, MaxOfFinite
  <2>7. Weighed = Elems(drawn)
    BY DEF Weighed, BetweenRounds
  <2>8. CASE drawn = << >>
    <3>1. top = 0
      BY <2>1, <2>3, <2>6, <2>8
    <3>2. SumOf(<< >>) = 0
      <4>1. << >> \in Seq(Int) /\ 0 \in Int
        OBVIOUS
      <4> QED
        BY <4>1, SumOfAppend
    <3>3. Weights = << >> /\ Squares(Weights) = << >>
      BY <2>8 DEF Weights, Squares
    <3>4. \A i \in Node : Contributions(i) = << >> /\ Squares(Contributions(i)) = << >>
      BY <2>8 DEF Contributions, Squares
    <3>5. /\ den \in Int /\ wsq \in Int /\ num \in [Node -> Int] /\ numSq \in [Node -> Int]
          /\ Scale \in Int
      BY InputsAssumption DEF EquationsOK
    <3>6. \A x \in Int : x * 0 = 0 /\ x * 0 * 0 = 0 /\ x * x * 0 = 0
      OBVIOUS
    <3>7. /\ den * top = Scale * SumOf(Weights)
          /\ wsq * top * top = Scale * Scale * SumOf(Squares(Weights))
      BY <3>1, <3>2, <3>3, <3>5, <3>6
    <3>8. \A i \in Node : /\ num[i] * top = Scale * SumOf(Contributions(i))
                          /\ numSq[i] * top * top = Scale * Scale * SumOf(Squares(Contributions(i)))
      BY <3>1, <3>2, <3>4, <3>5, <3>6
    <3> QED
      BY <2>8, <3>7, <3>8 DEF SumsAreCommensurate, W
  <2>9. CASE drawn # << >>
    <3>1. maxW = top
      <4>1. drawn[1] \in Elems(drawn)
        BY <2>1, <2>9 DEF Elems, CallOK
      <4>2. drawn[1].weight <= maxW /\ drawn[1].weight \in Nat \ {0} /\ maxW \in Nat
        BY <2>4, <2>7, <4>1 DEF TopOK
      <4>3. \E d \in Elems(drawn) : d.weight = maxW
        <5>1. CASE Uniform
          BY <4>1, <4>2, <5>1 DEF TopOK
        <5>2. CASE ~Uniform
          BY <2>7, <4>2, <5>2 DEF TopOK, BetweenRounds
        <5> QED
          BY <5>1, <5>2
      <4>4. maxW \in W
        BY <2>4, <4>3
      <4>5. \A x \in W : x <= maxW
        BY <2>3, <2>7, <4>2 DEF TopOK, Elems
      <4>6. top \in Nat /\ top >= maxW /\ top <= maxW
        BY <2>5, <2>6, <4>4, <4>5
      <4> HIDE DEF top
      <4> QED
        BY <4>2, <4>6
    <3> QED
      BY <3>1 DEF SumsAreCommensurate, EquationsOK, W
  <2> QED
    BY <2>8, <2>9
<1> QED
  BY <1>1, SumsInvariant, PTL

(* A call that reports an overflow has not asked for a single value; and   *)
(* a call that has used a draw can count every order and keep every entry  *)
(* of the memo.                                                            *)
THEOREM OverflowComesFirst == Spec => []OverflowCostsNoCalls
<1>1. IInv => OverflowCostsNoCalls
  <2> SUFFICES ASSUME IInv
               PROVE  OverflowCostsNoCalls
    OBVIOUS
  <2>1. /\ pa \in Dags(Node) /\ IsFiniteSet(Node) /\ Node # {} /\ config \in Configs /\ MaxCount \in Nat
    BY InputsAssumption, UniformConfigsAssumption DEF IInv, CallOK
  <2>2. ASSUME result = "Overflow"
        PROVE  drawn = << >> /\ \A S \in DOMAIN calls : calls[S] = 0
    <3>1. drawn = << >> /\ samples = << >> /\ Walked(<< >>) = {}
      BY <2>2 DEF IInv, MemoOK, Walked
    <3>2. Asked = {} /\ \A S \in DOMAIN calls : calls[S] \in Nat
      BY <3>1 DEF IInv, CallsOK
    <3> QED
      BY <3>1, <3>2 DEF Asked
  <2>3. ASSUME Uniform, ~config.table, drawn # << >>
        PROVE  /\ Cardinality(TopologicalOrders(pa)) <= MaxCount
               /\ Cardinality(Ideals(pa)) - 1 <= config.memory_limit_bytes \div EntryBytes
    <3> DEFINE all == VisitedFrom(pa, Node)
               n == Cardinality(all)
               limit == config.memory_limit_bytes
    <3>1. /\ \A T \in all : ~(OrdersOf(pa)[T] > MaxCount)
          /\ ~(n * EntryBytes > limit)
      BY <2>3 DEF IInv, MemoOK
    <3>2. Node \in all
      <4>1. {} \in Ideals(pa) \ {Node} /\ Node \ {} = Node
        BY <2>1 DEF Ideals, IsIdeal
      <4> QED
        BY <2>1, <4>1, VisitedAreComplements
    <3>3. OrdersOf(pa)[Node] = Cardinality(TopologicalOrders(pa)) /\ OrdersOf(pa)[Node] \in Nat
      <4>1. {} \in Ideals(pa)
        BY DEF Ideals, IsIdeal
      <4> QED
        BY <2>1, <4>1, OrdersOfGraph, MostOrdersAtFirst
    <3>4. n = Cardinality(Ideals(pa)) - 1 /\ n \in Nat
      BY <2>1, VisitedAreComplements, FS_CardinalityType
    <3>5. limit \in Nat
      BY <2>1, <2>3, UniformConfigsAssumption DEF Uniform
    <3>6. Cardinality(TopologicalOrders(pa)) <= MaxCount
      BY <2>1, <3>1, <3>2, <3>3
    <3> HIDE DEF n, limit
    <3>7. n <= limit \div 80
      BY <3>1, <3>4, <3>5 DEF EntryBytes
    <3> QED
      BY <3>4, <3>6, <3>7 DEF EntryBytes, limit
  <2> QED
    BY <2>2, <2>3 DEF OverflowCostsNoCalls
<1> QED
  BY <1>1, CallInvariant, PTL
===============================================================================
