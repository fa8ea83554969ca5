---------------------------- MODULE UniformSampling ----------------------------
(***************************************************************************)
(* The estimators over uniformly drawn orders (src/approx.rs):             *)
(* `approximate_asv_uniform` (a table of counts) and                       *)
(* `approximate_asv_uniform_sparse` (a memo) with variant "serial",        *)
(* `approximate_asv_uniform_sparse_adaptive` with "adaptive" and           *)
(* `approximate_asv_uniform_sparse_adaptive_batched`.                      *)
(*                                                                         *)
(* They are the importance-sampling estimators with every weight 1, so     *)
(* that there is nothing to rescale, den / Scale is the number of draws    *)
(* they divide by and the test of the effective sample size never fails.   *)
(* Draws are made one by one, each followed by the memory guard; what a    *)
(* draw is, and that each order is as likely as any other, is the business *)
(* of UniformSampler.                                                      *)
(***************************************************************************)
EXTENDS ImportanceSampling, OrderCounts

CONSTANT MaxCount    (* stands for u64::MAX                                *)

EntryBytes == 80

(* A configuration also says whether the counts are in a table, and else   *)
(* how many bytes the memo may take.                                       *)
ASSUME UniformConfigsAssumption ==
  /\ MaxCount \in Nat
  /\ \A c \in Configs : c.weights = "uniform" =>
       /\ ~c.large
       /\ c.table \in BOOLEAN /\ c.memory_limit_bytes \in Nat
       /\ c.table => c.variant = "serial"

VARIABLE memo    (* dp_ind_cache: the sets whose orders have been counted  *)

Uniform == config.weights = "uniform"

(* A step it shares with the importance-sampling estimators.               *)
Shared(step) == step /\ UNCHANGED memo

OpenRound ==
  /\ pc = "round"
  /\ total < config.target
  /\ pc' = IF Batched THEN "draw" ELSE "accumulate"
  /\ UNCHANGED <<args, result, cache, values, calls, samples, sums, total, test, drawn, memo>>

(* Draws made in this round.                                               *)
MadeInRound == Len(drawn) - total + Len(samples)

(* A new draw is due: at once for a batch, else when the last is added up. *)
DrawDue ==
  /\ pc = IF Batched THEN "draw" ELSE "accumulate"
  /\ Batched \/ samples = << >>
  /\ MadeInRound < RoundSize

(* Faulty variant: the memo is checked as it was before the draw.          *)
MemoAtFirst == memo
MemoAfterDraw == IF config.table THEN memo ELSE memo \cup VisitedFrom(pa, Node)

(* The counts do not fit a u64, or the memo has outgrown its limit when    *)
(* the draw is done.                                                       *)
CannotDraw ==
  /\ ~config.table
  /\ \/ \E T \in VisitedFrom(pa, Node) \ memo : OrdersOf(pa)[T] > MaxCount
     \/ Cardinality(MemoAfterDraw) * EntryBytes > config.memory_limit_bytes

DrawOne ==
  /\ DrawDue
  /\ ~CannotDraw
  /\ \E s \in TopologicalOrders(pa) : samples' = Append(samples, [order |-> s, weight |-> 1])
  /\ memo' = MemoAfterDraw
  /\ UNCHANGED <<args, pc, result, cache, values, calls, sums, total, test, drawn>>

DrawFails ==
  /\ DrawDue
  /\ CannotDraw
  /\ Return("Overflow")
  /\ UNCHANGED <<args, cache, values, calls, samples, sums, total, test, drawn, memo>>

(* The batch is drawn; its coalitions are looked up in the cache.          *)
BatchDrawn ==
  /\ pc = "draw"
  /\ MadeInRound = RoundSize
  /\ pc' = "resolve"
  /\ values' = Found(samples)
  /\ UNCHANGED <<args, result, cache, calls, samples, sums, total, test, drawn, memo>>

BatchResolved ==
  /\ pc = "resolve"
  /\ Missing = {}
  /\ pc' = "accumulate"
  /\ UNCHANGED <<args, result, cache, values, calls, samples, sums, total, test, drawn, memo>>

CloseRound == MadeInRound = RoundSize /\ Shared(EndRound)

UniformCalling ==
  \/ Shared(RejectConfig) \/ Shared(AcceptConfig) \/ OpenRound \/ DrawOne \/ DrawFails
  \/ Shared(AbsorbCalling) \/ Shared(CallFails) \/ CloseRound \/ Shared(Finish)
UniformBatching ==
  \/ Shared(RejectConfig) \/ Shared(AcceptConfig) \/ OpenRound \/ DrawOne \/ DrawFails
  \/ BatchDrawn \/ Shared(ResolveChunk) \/ Shared(BatchCallFails) \/ BatchResolved
  \/ Shared(AbsorbResolved) \/ CloseRound \/ Shared(Finish)

ApproximateAsvUniform == config.variant = "serial" /\ config.table /\ UniformCalling
ApproximateAsvUniformSparse == config.variant = "serial" /\ ~config.table /\ UniformCalling
ApproximateAsvUniformSparseAdaptive ==
  config.variant = "adaptive" /\ (UniformCalling \/ Shared(Testing))
ApproximateAsvUniformSparseAdaptiveBatched ==
  config.variant = "adaptive_batched" /\ (UniformBatching \/ Shared(Testing))

UniformNext ==
  \/ ApproximateAsvUniform \/ ApproximateAsvUniformSparse
  \/ ApproximateAsvUniformSparseAdaptive \/ ApproximateAsvUniformSparseAdaptiveBatched
------------------------------------------------------------------------------
(* An Overflow, which auto_quality answers with another method, comes      *)
(* before the value function is asked for anything; and it comes whenever  *)
(* the counts do not fit, so a call that began to draw goes on drawing.    *)
OverflowCostsNoCalls ==
  /\ result = "Overflow" => drawn = << >> /\ \A S \in DOMAIN calls : calls[S] = 0
  /\ Uniform /\ ~config.table /\ drawn # << >> =>
       /\ Cardinality(TopologicalOrders(pa)) <= MaxCount
       /\ Cardinality(Ideals(pa)) - 1 <= config.memory_limit_bytes \div EntryBytes
==============================================================================
