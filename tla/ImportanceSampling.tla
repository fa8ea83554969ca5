-------------------------- MODULE ImportanceSampling --------------------------
(***************************************************************************)
(* The self-normalised importance-sampling estimators: `approximate_asv`   *)
(* without parallelism ("serial"), `approximate_asv_batched` ("batched"),  *)
(* `approximate_asv_adaptive` ("adaptive") and                             *)
(* `approximate_asv_adaptive_batched` ("adaptive_batched"), each in two    *)
(* copies: src/approx.rs for graphs of at most 64 nodes, with an unbounded *)
(* cache of values, and src/approx_large.rs for larger ones, with a        *)
(* bounded cache and bounded batches.                                      *)
(*                                                                         *)
(* The eight share one shape: rounds of draws; the values of the           *)
(* coalitions a draw passes through, cached; running sums relative to the  *)
(* largest weight seen, rescaled when a larger one comes; and, in the      *)
(* adaptive ones, a convergence test after the round.  A draw is any       *)
(* topological order with its frontier weight, which is what TopoSampler   *)
(* delivers.  Which copy runs is part of the configuration, not of the     *)
(* size of the graph, so that the large one can be checked on a small one. *)
(*                                                                         *)
(* Sums are exact integers: a sum of w/maxW is held as its multiple of     *)
(* 1/Scale, a sum of squares as its multiple of 1/Scale^2.  Kahan's        *)
(* compensation terms are zero in exact arithmetic and are left out.       *)
(***************************************************************************)
EXTENDS CausalGraph, Integers, FiniteSetsExt

CONSTANTS
  Node,
  InputGraphs,   (* the graphs to estimate on: a subset of Dags(Node)      *)
  ValueFns,      (* value functions: functions on SUBSET Node              *)
  NaN,           (* what a value function may return besides integers      *)
  Configs,       (* [weights, variant, large, target, batch, min] records  *)
  Scale,         (* a common multiple of all frontier weights              *)
  RelTol,        (* rel_tol, as a fraction <<numerator, denominator>>      *)
  EssRatioMin,   (* ess_ratio_min, as a fraction                           *)
  CacheCap,      (* DEFAULT_LARGE_CACHE_MAX_ENTRIES                        *)
  ChunkSize      (* MAX_UNIQUE_COALITIONS_PER_LARGE_BATCH                  *)

Variants == {"serial", "batched", "adaptive", "adaptive_batched"}

ASSUME InputsAssumption ==
  /\ IsFiniteSet(Node) /\ Node # {} /\ Node = 0..(Cardinality(Node) - 1)
  /\ InputGraphs \subseteq Dags(Node)
  /\ NaN \notin Int /\ ValueFns \subseteq [SUBSET Node -> Int \cup {NaN}]
  /\ \A c \in Configs : /\ c.weights \in {"frontier", "uniform"}
                       /\ c.variant \in Variants /\ c.large \in BOOLEAN
                       /\ {c.target, c.batch, c.min} \subseteq Nat
  /\ {CacheCap, ChunkSize} \subseteq Nat
  /\ Scale \in Nat \ {0}
  /\ \A g \in InputGraphs : \A s \in TopologicalOrders(g) :
       Scale % FrontierWeight(g, s) = 0

VARIABLES
  pa, v, config,  (* the arguments of the call; they never change          *)
  pc,             (* where the call is                                     *)
  result,         (* "none" until the call returns "ok" or "error"         *)
  cache,          (* values by coalition, for the whole call               *)
  values,         (* value_cache: those a batched round looks up           *)
  calls,          (* history: evaluations of each coalition                *)
  samples,        (* draws of this round not yet added to the sums         *)
  maxW,           (* exp(global_max_log_w); 0 stands for minus infinity    *)
  num, numSq,     (* per node: the sums of w * delta and of its square     *)
  den, wsq,       (* the sums of w and of w^2                              *)
  nan,            (* nodes whose sum has absorbed a NaN                    *)
  total,          (* total_samples                                         *)
  prev,           (* estimates at the last convergence test                *)
  checks,         (* history: convergence tests made, counted up to two    *)
  converged,
  drawn           (* history: the draws added to the sums                  *)

args == <<pa, v, config>>
sums == <<maxW, num, numSq, den, wsq, nan>>
test == <<prev, checks, converged>>
vars == <<args, pc, result, cache, values, calls, samples, sums, total, test, drawn>>

Adaptive == config.variant \in {"adaptive", "adaptive_batched"}
Batched == config.variant \in {"batched", "adaptive_batched"}

Draws == {[order |-> s, weight |-> FrontierWeight(pa, s)] : s \in TopologicalOrders(pa)}

(* A call about to be made; w is the weight its sums are relative to.      *)
Start(w) ==
  /\ pa \in InputGraphs
  /\ v \in ValueFns
  /\ config \in Configs
  /\ pc = "start"
  /\ result = "none"
  /\ cache = << >>
  /\ values = << >>
  /\ calls = [S \in Ideals(pa) |-> 0]
  /\ samples = << >>
  /\ maxW = w /\ den = 0 /\ wsq = 0 /\ nan = {}
  /\ num = [i \in Node |-> 0]
  /\ numSq = [i \in Node |-> 0]
  /\ total = 0
  /\ prev = [i \in Node |-> NaN]
  /\ checks = 0
  /\ converged = FALSE
  /\ drawn = << >>

Return(r) == pc' = "done" /\ result' = r

------------------------------------------------------------------------------
(* Faulty variant: batch_size is not validated.                            *)
UncheckedBatchSize ==
  IF Adaptive THEN config.min > config.target ELSE config.target = 0

InvalidConfig ==
  IF Adaptive THEN config.batch = 0 \/ config.min > config.target
              ELSE config.target = 0

RejectConfig ==
  /\ pc = "start"
  /\ InvalidConfig
  /\ Return("error")
  /\ UNCHANGED <<args, cache, values, calls, samples, sums, total, test, drawn>>

AcceptConfig ==
  /\ pc = "start"
  /\ ~InvalidConfig
  /\ pc' = "round"
  /\ UNCHANGED <<args, result, cache, values, calls, samples, sums, total, test, drawn>>

(* Draws taken in a round; one at a time when nothing is batched.          *)
BatchSize ==
  CASE config.variant = "serial"  -> 1
    [] config.variant = "batched" -> Max({config.batch, 1})
    [] OTHER                      -> config.batch

(* Faulty variant: the last round is not cut to what is left.              *)
FullRound == BatchSize

RoundSize == Min({BatchSize, config.target - total})

WalkedNonempty(draws) ==
  UNION {CoalitionsAlong(draws[k].order) \ {{}} : k \in DOMAIN draws}

(* Every coalition some draw passes through, each once.                    *)
Walked(draws) == UNION {CoalitionsAlong(draws[k].order) : k \in DOMAIN draws}

(* Faulty variant: what earlier rounds found out is not looked up.         *)
NothingFound(draws) == << >>

(* What is known about a round's coalitions before anything is asked.      *)
Found(draws) == [S \in Walked(draws) \cap DOMAIN cache |-> cache[S]]

DrawRound ==
  /\ pc = "round"
  /\ total < config.target
  /\ samples' \in [1..RoundSize -> Draws]
  /\ IF Batched THEN pc' = "resolve" /\ values' = Found(samples')
                ELSE pc' = "rescale" /\ UNCHANGED values
  /\ UNCHANGED <<args, result, cache, calls, sums, total, test, drawn>>

(* Bit j counts for more than bit i: the higher one of a word, or of two   *)
(* words the one that is compared first.                                   *)
Outranks(j, i) == IF j \div 64 = i \div 64 THEN j > i ELSE j \div 64 < i \div 64

(* T has the smaller mask, so it comes first: sort_unstable orders the     *)
(* misses of a batch like this, and a walk meets the smaller set first.    *)
Earlier(T, S) == \E i \in S \ T : \A j \in Node : Outranks(j, i) => (j \in S <=> j \in T)

FirstOf(n, coalitions) ==
  {S \in coalitions : Cardinality({T \in coalitions : Earlier(T, S)}) < n}

(* Which of the coalitions just evaluated the cache takes: a full cache of *)
(* the large copy takes no more and drops nothing.                         *)
Admitted(asked) ==
  IF config.large THEN FirstOf(CacheCap - Cardinality(DOMAIN cache), asked) ELSE asked

(* `known` values and those of some more coalitions.                       *)
With(known, coalitions) ==
  [S \in DOMAIN known \cup coalitions |-> IF S \in DOMAIN known THEN known[S] ELSE v[S]]

Count(asked) == calls' = [S \in DOMAIN calls |-> IF S \in asked THEN calls[S] + 1 ELSE calls[S]]

Evaluate(asked) == Count(asked) /\ cache' = With(cache, Admitted(asked))

Missing == Walked(samples) \ DOMAIN values

Chunk == IF config.large THEN FirstOf(ChunkSize, Missing) ELSE Missing

(* One call of value_fn_batch: the misses, or as many as one call may ask. *)
ResolveChunk ==
  /\ pc = "resolve"
  /\ Missing # {}
  /\ values' = With(values, Chunk)
  /\ Evaluate(Chunk)
  /\ UNCHANGED <<args, pc, result, samples, sums, total, test, drawn>>

(* value_fn_batch raises, or answers with the wrong number of values: what *)
(* it was asked for is not cached.                                         *)
BatchCallFails ==
  /\ pc = "resolve"
  /\ Missing # {}
  /\ Count(Chunk)
  /\ Return("error")
  /\ UNCHANGED <<args, cache, values, samples, sums, total, test, drawn>>

Resolved ==
  /\ pc = "resolve"
  /\ Missing = {}
  /\ pc' = "rescale"
  /\ UNCHANGED <<args, result, cache, values, calls, samples, sums, total, test, drawn>>

(* A sum relative to the old maximum becomes relative to a larger new one. *)
Rescaled(x, old, new) == IF new > old THEN (x * old) \div new ELSE x

(* Faulty variant: sums of squares are scaled like plain sums.             *)
RescaledOnce(x, old, new) == Rescaled(x, old, new)

RescaledSq(x, old, new) == IF new > old THEN (x * old * old) \div (new * new) ELSE x

(* The largest weight of the round against the largest so far.             *)
Rescale ==
  /\ pc = "rescale"
  /\ LET top == Max({samples[k].weight : k \in 1..Len(samples)} \cup {maxW})
     IN  /\ maxW' = top
         /\ num' = [i \in Node |-> Rescaled(num[i], maxW, top)]
         /\ numSq' = [i \in Node |-> RescaledSq(numSq[i], maxW, top)]
         /\ den' = Rescaled(den, maxW, top)
         /\ wsq' = RescaledSq(wsq, maxW, top)
  /\ pc' = "accumulate"
  /\ UNCHANGED <<args, result, cache, values, calls, samples, nan, total, test, drawn>>

(* What the coalition after step k of a walk is compared with.             *)
Before(s, k) == Prefix(s, k - 1)

(* One draw added to the sums: w = weight / maxW, and along the order the  *)
(* marginal contribution of every node.  `vals` holds the values in use.   *)
Absorb(d, vals) ==
  LET w == (d.weight * Scale) \div maxW
      at(k) == vals[Prefix(d.order, k)]
      from(k) == vals[Before(d.order, k)]
      step(i) == CHOOSE k \in 1..Len(d.order) : d.order[k] = i
      hasNaN(i) == NaN \in {at(step(i)), from(step(i))}
      wd(i) == IF hasNaN(i) THEN 0 ELSE w * (at(step(i)) - from(step(i)))
  IN  /\ den' = den + w
      /\ wsq' = wsq + w * w
      /\ num' = [i \in Node |-> num[i] + wd(i)]
      /\ numSq' = [i \in Node |-> IF Adaptive THEN numSq[i] + wd(i) * wd(i) ELSE 0]
      /\ nan' = nan \cup {i \in Node : hasNaN(i)}
      /\ samples' = Tail(samples)
      /\ drawn' = Append(drawn, d)
      /\ UNCHANGED maxW

(* The batched variants take the values with get(..).unwrap().             *)
AbsorbResolved ==
  /\ pc = "accumulate"
  /\ samples # << >>
  /\ CoalitionsAlong(Head(samples).order) \subseteq DOMAIN values
  /\ Absorb(Head(samples), values)
  /\ UNCHANGED <<args, pc, result, cache, values, calls, total, test>>

(* The coalitions a walk along s has to ask for.                           *)
MissingAlong(s) == CoalitionsAlong(s) \ DOMAIN cache

(* The others call the value function along the way for what is missing    *)
(* (value_cached, value_cached_large).                                     *)
AbsorbCalling ==
  /\ pc = "accumulate"
  /\ samples # << >>
  /\ Evaluate(MissingAlong(Head(samples).order))
  /\ Absorb(Head(samples), v)
  /\ UNCHANGED <<args, pc, result, values, total, test>>

(* value_fn raises at one of them: those before it are cached, it is not.  *)
CallFails ==
  /\ pc = "accumulate"
  /\ samples # << >>
  /\ \E S \in MissingAlong(Head(samples).order) :
       LET asked == MissingAlong(Head(samples).order) \cap SUBSET S
       IN  /\ Count(asked)
           /\ cache' = With(cache, Admitted(asked \ {S}))
  /\ Return("error")
  /\ UNCHANGED <<args, values, samples, sums, total, test, drawn>>

EndRound ==
  /\ pc = "accumulate"
  /\ samples = << >>
  /\ total' = total + RoundSize
  /\ pc' = IF Adaptive THEN "test" ELSE "round"
  /\ UNCHANGED <<args, result, cache, values, calls, samples, sums, test, drawn>>

------------------------------------------------------------------------------
(* Convergence of the adaptive variants.                                   *)

TooFew == total < config.min

(* ess / total < ess_ratio_min, with ess = den^2 / wsq.                    *)
EssTooLow == den * den * EssRatioMin[2] < EssRatioMin[1] * wsq * total

Estimate(i) == IF i \in nan \/ den = 0 THEN NaN ELSE <<num[i], den>>

Abs(x) == IF x < 0 THEN -x ELSE x

(* |cur - prev| / |prev| < rel_tol; the 1e-10 in the denominator only      *)
(* matters for prev = 0, where any change is out of tolerance.             *)
CloseTo(i) ==
  LET change == Abs(num[i] * prev[i][2] - prev[i][1] * den)
  IN  \/ change = 0
      \/ change * RelTol[2] < RelTol[1] * Abs(prev[i][1]) * den

(* Faulty variant: nodes without an earlier estimate do not count.         *)
WithinToleranceAtOnce ==
  \A i \in Node : prev[i] = NaN \/ i \in nan \/ CloseTo(i)

(* The fold with f64::max passes over a NaN: only an infinite change (no   *)
(* previous estimate) or a finite one above the tolerance speaks against   *)
(* convergence.                                                            *)
WithinTolerance ==
  \A i \in Node : prev[i] # NaN /\ (i \in nan \/ CloseTo(i))

SkipTest ==
  /\ pc = "test"
  /\ TooFew \/ EssTooLow
  /\ pc' = "round"
  /\ UNCHANGED <<args, result, cache, values, calls, samples, sums, total, test, drawn>>

Test ==
  /\ pc = "test"
  /\ ~TooFew
  /\ ~EssTooLow
  /\ prev' = [i \in Node |-> Estimate(i)]
  /\ checks' = Min({checks + 1, 2})
  /\ converged' = WithinTolerance
  /\ IF WithinTolerance THEN Return("ok") ELSE pc' = "round" /\ UNCHANGED result
  /\ UNCHANGED <<args, cache, values, calls, samples, sums, total, drawn>>

Finish ==
  /\ pc = "round"
  /\ total >= config.target
  /\ Return("ok")
  /\ UNCHANGED <<args, cache, values, calls, samples, sums, total, test, drawn>>

(* The eight functions, each with the steps it is made of.                 *)
Calling == \/ RejectConfig \/ AcceptConfig \/ DrawRound \/ Rescale
           \/ AbsorbCalling \/ CallFails \/ EndRound \/ Finish
Batching == \/ RejectConfig \/ AcceptConfig \/ DrawRound \/ ResolveChunk \/ BatchCallFails
            \/ Resolved \/ Rescale \/ AbsorbResolved \/ EndRound \/ Finish
Testing == SkipTest \/ Test

Runs(variant, large) == config.variant = variant /\ config.large = large

ApproximateAsv == Runs("serial", FALSE) /\ Calling
ApproximateAsvBatched == Runs("batched", FALSE) /\ Batching
ApproximateAsvAdaptive == Runs("adaptive", FALSE) /\ (Calling \/ Testing)
ApproximateAsvAdaptiveBatched == Runs("adaptive_batched", FALSE) /\ (Batching \/ Testing)

ApproximateAsvLarge == Runs("serial", TRUE) /\ Calling
ApproximateAsvBatchedLarge == Runs("batched", TRUE) /\ Batching
ApproximateAsvAdaptiveLarge == Runs("adaptive", TRUE) /\ (Calling \/ Testing)
ApproximateAsvAdaptiveBatchedLarge == Runs("adaptive_batched", TRUE) /\ (Batching \/ Testing)

Next ==
  \/ ApproximateAsv \/ ApproximateAsvBatched
  \/ ApproximateAsvAdaptive \/ ApproximateAsvAdaptiveBatched
  \/ ApproximateAsvLarge \/ ApproximateAsvBatchedLarge
  \/ ApproximateAsvAdaptiveLarge \/ ApproximateAsvAdaptiveBatchedLarge
------------------------------------------------------------------------------
SumOf(f) ==
  LET sum[k \in 0..Len(f)] == IF k = 0 THEN 0 ELSE sum[k - 1] + f[k]
  IN  sum[Len(f)]

Squares(f) == [k \in DOMAIN f |-> f[k] * f[k]]

Step(s, i) == CHOOSE k \in 1..Len(s) : s[k] = i
Delta(s, i) == v[Prefix(s, Step(s, i))] - v[Prefix(s, Step(s, i) - 1)]

(* What the draws so far weigh, and what each adds to the sum of node i.   *)
Weights == [k \in DOMAIN drawn |-> drawn[k].weight]
Contributions(i) == [k \in DOMAIN drawn |-> drawn[k].weight * Delta(drawn[k].order, i)]

BetweenRounds == pc \in {"round", "test"} \/ (pc = "done" /\ result = "ok")

(* However the draws are cut into rounds and whenever a new largest weight *)
(* came along, the running sums are the sums over all draws so far,        *)
(* relative to the largest of their weights: no earlier draw keeps an      *)
(* outdated normalisation.  (Nodes a NaN reached are beyond comparison.)   *)
SumsAreCommensurate ==
  BetweenRounds =>
    LET top == Max({0} \cup Elems(Weights))
    IN  /\ drawn # << >> => maxW = top
        /\ den * top = Scale * SumOf(Weights)
        /\ wsq * top * top = Scale * Scale * SumOf(Squares(Weights))
        /\ \A i \in Node \ nan :
             /\ num[i] * top = Scale * SumOf(Contributions(i))
             /\ Adaptive => numSq[i] * top * top =
                            Scale * Scale * SumOf(Squares(Contributions(i)))

(* The value function, which may be a slow model, is asked for a coalition *)
(* again only when a full cache of the large copy could not take its value *)
(* (DEFAULT_LARGE_CACHE_MAX_ENTRIES: the cap costs repeated calls, nothing *)
(* else), and the cache never outgrows that cap; when the call succeeds,   *)
(* the function has been asked for exactly the coalitions its draws passed *)
(* through.                                                                *)
EvaluatedOnce ==
  /\ config.large => Cardinality(DOMAIN cache) <= CacheCap
  /\ \A S \in DOMAIN calls :
       calls[S] > 1 => config.large /\ S \notin DOMAIN cache /\ Cardinality(DOMAIN cache) = CacheCap
  /\ result = "ok" =>
       {S \in DOMAIN calls : calls[S] > 0} =
         UNION {CoalitionsAlong(drawn[k].order) : k \in DOMAIN drawn}

(* get(..).unwrap() finds every coalition of every draw of a round, also   *)
(* when the cache was too full to keep them.                               *)
UnwrapNeverFails ==
  (pc = "accumulate" /\ Batched) =>
    \A k \in DOMAIN samples : CoalitionsAlong(samples[k].order) \subseteq DOMAIN values

(* The n_samples of a successful result is the number of draws behind its  *)
(* sums; it is the number asked for, or less for a converged one.          *)
ReportsDraws ==
  result = "ok" =>
    /\ total = Len(drawn)
    /\ total <= config.target
    /\ ~converged => total = config.target

(* Convergence is never claimed on one round: there was an earlier test to *)
(* compare with, so at least two rounds' worth of draws.                   *)
ConvergedComparesTwoTests ==
  converged => /\ checks = 2
               /\ total > BatchSize
               /\ total >= config.min

(* docs/correctness.md:61: converged means that the relative-change        *)
(* condition was met, so that there is an estimate for every node.         *)
ConvergedHasEstimates == converged => nan = {}
==============================================================================
