--------------------------- MODULE ParallelSampling ---------------------------
(***************************************************************************)
(* `approximate_asv` and `approximate_asv_large` with parallelism, called  *)
(* from Python: the samples are cut into one slice per worker; the workers *)
(* run on Rayon's pool, each with its own random stream, cache and sums;   *)
(* a worker that needs a value takes the interpreter lock (the GIL) for    *)
(* the call; and the workers' sums are added up pairwise.                  *)
(*                                                                         *)
(* A sum is represented by the draws it is made of, in the order in which  *)
(* they went into it: draw i of stream s is <<s, i>>.  Of the walk along a *)
(* draw only this is kept: it may call the value function, or find all it  *)
(* needs in the worker's cache.                                            *)
(***************************************************************************)
EXTENDS Integers, Sequences, FiniteSetsExt, SortedNumbers

CONSTANTS
  Samples,     (* values of n_samples                                      *)
  Seeds,       (* values of seed, besides None                             *)
  Threads,     (* values of num_threads, besides None                      *)
  PoolSizes,   (* values of rayon::current_num_threads()                   *)
  None,
  Width        (* bits of a seed; 64 in the code                           *)

ASSUME SizesAssumption ==
  /\ Width \in Nat
  /\ Samples \subseteq Nat \ {0} /\ Seeds \subseteq 0..(2^Width - 1)
  /\ Threads \subseteq 0..2^Width /\ PoolSizes \subseteq 1..2^Width
  /\ None \notin {"ok", "error"}

VARIABLES
  call,      (* [samples, seed, threads]: the arguments                    *)
  pool,      (* threads of the pool                                        *)
  gil,       (* who has the interpreter lock: Caller, a worker, or None    *)
  workers,   (* sequence of [count, stream]                                *)
  state,     (* of each worker: "queued" "running" "walking" "waiting"     *)
             (* "calling" "done" "failed" "skipped"                        *)
  sums,      (* of each worker: its own sum, then what is added to it      *)
  live,      (* the workers whose sum is not yet part of another           *)
  result     (* None, "ok" or "error"                                      *)

vars == <<call, pool, gil, workers, state, sums, live, result>>

Caller == 0    (* workers are numbered from 1                              *)

Calls == [samples : Samples, seed : Seeds \cup {None}, threads : Threads \cup {None}]

Init ==
  /\ call \in Calls
  /\ pool \in PoolSizes
  /\ gil = Caller
  /\ workers = << >> /\ state = << >> /\ sums = << >> /\ live = {}
  /\ result = None

------------------------------------------------------------------------------
(* Streams and slices *)

XorShift(x, by) ==
  LET bit(n, i) == (n \div 2^i) % 2
  IN  MapThenSumSet(LAMBDA i : 2^i * ((bit(x, i) + bit(x, i + by)) % 2), 0..(Width - 1))

(* The low bits of the three multipliers of splitmix64.                    *)
Multipliers == <<21, 57, 43>>

Times(x, k) == (x * Multipliers[k]) % 2^Width

(* splitmix, with wrapping arithmetic and shifts of about half the width.  *)
Splitmix(sum) ==
  LET half == Width \div 2
      x == Times(sum, 1)
      y == Times(XorShift(x, half), 2)
      z == Times(XorShift(y, half - 1), 3)
  IN  XorShift(z, half)

(* src/sampler.rs:54 calls it a bijection.                                 *)
ASSUME SplitmixAssumption ==
  \A x, y \in 0..(2^Width - 1) : Splitmix(x) = Splitmix(y) => x = y

(* Faulty variant: every worker is seeded alike.                           *)
GlobalSeed(seed, k) == seed

WorkerSeed(seed, k) == Splitmix((seed + k) % 2^Width)

(* Where slice k of n samples ends, and how many samples are in it.        *)
Cut(n, threads, k) == (n * k) \div threads
Slice(n, threads, k) == Cut(n, threads, k) - Cut(n, threads, k - 1)

ThreadCount(c, size) == IF c.threads = None THEN size ELSE c.threads

HasWork(count) == count > 0

(* The workers of a seeded call; empty slices get none.                    *)
SeededWorkers(c, size) ==
  LET threads == ThreadCount(c, size)
      busy == {k \in 1..threads : HasWork(Slice(c.samples, threads, k))}
      Worker(k) == [count |-> Slice(c.samples, threads, k), stream |-> WorkerSeed(c.seed, k - 1)]
  IN  [i \in 1..Cardinality(busy) |-> Worker(Nth(busy, i))]

(* Without a seed Rayon cuts the range wherever it likes, and each piece   *)
(* starts from entropy.                                                    *)
UnseededWorkers(c) ==
  LET Cuts(m) == {cut \in [0..m -> 0..c.samples] :
                    cut[0] = 0 /\ cut[m] = c.samples /\ \A k \in 1..m : cut[k - 1] < cut[k]}
      Workers(m) == {[k \in 1..m |-> [count |-> cut[k] - cut[k - 1], stream |-> <<"entropy", k>>]] :
                       cut \in Cuts(m)}
  IN  UNION {Workers(m) : m \in 1..c.samples}

------------------------------------------------------------------------------
(* The caller *)

(* Faulty variant: the caller blocks in the pool with the lock in hand.    *)
HoldOn == gil' = gil

(* py.detach: the lock is free while the caller waits for the pool.        *)
Detach == gil' = None

Launch ==
  /\ result = None
  /\ workers = << >>
  /\ gil = Caller
  /\ Detach
  /\ workers' \in IF call.seed = None THEN UnseededWorkers(call)
                                      ELSE {SeededWorkers(call, pool)}
  /\ state' = [k \in DOMAIN workers' |-> "queued"]
  /\ sums' = [k \in DOMAIN workers' |-> << >>]
  /\ live' = DOMAIN workers'
  /\ UNCHANGED <<call, pool, result>>

Active == {k \in DOMAIN state : state[k] \in {"running", "walking", "waiting", "calling"}}
Failed == {k \in DOMAIN state : state[k] = "failed"}

(* The caller goes on when all workers have ended and the sums are one;    *)
(* a call without workers has nothing to wait for and divides 0 by 0.      *)
ReturnOk ==
  /\ result = None
  /\ gil = None
  /\ \A k \in DOMAIN state : state[k] = "done"
  /\ Cardinality(live) <= 1
  /\ gil' = Caller
  /\ result' = "ok"
  /\ UNCHANGED <<call, pool, workers, state, sums, live>>

ReturnError ==
  /\ result = None
  /\ gil = None
  /\ Failed # {}
  /\ \A k \in DOMAIN state : state[k] \in {"done", "failed", "skipped"}
  /\ gil' = Caller
  /\ result' = "error"
  /\ UNCHANGED <<call, pool, workers, state, sums, live>>

------------------------------------------------------------------------------
(* A worker *)

Move(k, from, to) ==
  /\ state[k] = from
  /\ state' = [state EXCEPT ![k] = to]

Start(k) ==
  /\ Move(k, "queued", "running")
  /\ Cardinality(Active) < pool
  /\ UNCHANGED <<call, pool, gil, workers, sums, live, result>>

(* After a failure Rayon starts no more of the queued workers.             *)
Skip(k) ==
  /\ Failed # {}
  /\ Move(k, "queued", "skipped")
  /\ UNCHANGED <<call, pool, gil, workers, sums, live, result>>

(* sample_one_into, with the worker's own stream and scratch.              *)
Draw(k) ==
  /\ Len(sums[k]) < workers[k].count
  /\ Move(k, "running", "walking")
  /\ UNCHANGED <<call, pool, gil, workers, sums, live, result>>

Absorb(k) == sums' = [sums EXCEPT ![k] = Append(@, <<workers[k].stream, Len(@) + 1>>)]

AllCached(k) ==
  /\ Move(k, "walking", "running")
  /\ Absorb(k)
  /\ UNCHANGED <<call, pool, gil, workers, live, result>>

NeedValue(k) ==
  /\ Move(k, "walking", "waiting")
  /\ UNCHANGED <<call, pool, gil, workers, sums, live, result>>

(* Python::attach *)
Attach(k) ==
  /\ gil = None
  /\ Move(k, "waiting", "calling")
  /\ gil' = k
  /\ UNCHANGED <<call, pool, workers, sums, live, result>>

ValueReturned(k) ==
  /\ Move(k, "calling", "running")
  /\ gil' = None
  /\ Absorb(k)
  /\ UNCHANGED <<call, pool, workers, live, result>>

ValueRaised(k) ==
  /\ Move(k, "calling", "failed")
  /\ gil' = None
  /\ UNCHANGED <<call, pool, workers, sums, live, result>>

End(k) ==
  /\ Len(sums[k]) = workers[k].count
  /\ Move(k, "running", "done")
  /\ UNCHANGED <<call, pool, gil, workers, sums, live, result>>

(* Faulty variant: added in the order in which they get ready.             *)
AnyPair(j, k) == j < k

(* try_reduce adds neighbours. *)
Neighbours(j, k) == j < k /\ \A i \in live : ~(j < i /\ i < k)

(* The worker whose sum has taken in that of worker i.                     *)
Owner(i) == Max({j \in live : j <= i})

(* Two neighbouring sums, whose workers have all ended, become one: the    *)
(* draws of the left one come first.  The sequence does not show how the   *)
(* additions are bracketed, (a + b) + c or a + (b + c), which depends on   *)
(* the schedule and makes a difference to the last bits of a float.        *)
Combine(j, k) ==
  /\ {j, k} \subseteq live
  /\ Neighbours(j, k)
  /\ \A i \in DOMAIN state : Owner(i) \in {j, k} => state[i] = "done"
  /\ sums' = [sums EXCEPT ![j] = @ \o sums[k]]
  /\ live' = live \ {k}
  /\ UNCHANGED <<call, pool, gil, workers, state, result>>

WorkerStep(k) ==
  \/ Start(k) \/ Skip(k) \/ Draw(k) \/ AllCached(k) \/ NeedValue(k)
  \/ Attach(k) \/ ValueReturned(k) \/ ValueRaised(k) \/ End(k)

CallerStep == Launch \/ ReturnOk \/ ReturnError

Next ==
  \/ CallerStep
  \/ \E k \in DOMAIN workers : WorkerStep(k)
  \/ \E j, k \in live : Combine(j, k)

(* The pool runs every worker it was given, and a thread that waits for    *)
(* the lock gets it in the end.                                            *)
Fairness ==
  /\ WF_vars(CallerStep)
  /\ \A k \in 1..Max(Samples) : WF_vars(k \in DOMAIN workers /\ WorkerStep(k))
  /\ WF_vars(\E j, k \in live : Combine(j, k))

Spec == Init /\ [][Next]_vars /\ Fairness
------------------------------------------------------------------------------
(* No two workers of a call draw from the same stream (src/approx.rs: "a   *)
(* bijection, so no two workers share an RNG state").                      *)
StreamsDiffer ==
  \A j, k \in DOMAIN workers : workers[j].stream = workers[k].stream => j = k

(* Every draw of every worker, in the order of the workers.                *)
InOrder(ws) ==
  LET upTo[k \in 0..Len(ws)] ==
        IF k = 0 THEN << >>
        ELSE upTo[k - 1] \o [i \in 1..ws[k].count |-> <<ws[k].stream, i>>]
  IN  upTo[Len(ws)]

Total == IF live = {} THEN << >> ELSE sums[Min(live)]

(* A successful call has added up every draw of every worker once, in an   *)
(* order that no schedule can change (floating-point sums depend on it),   *)
(* and with at least one worker as many draws as were asked for.           *)
ResultIsComplete ==
  result = "ok" =>
    /\ Total = InOrder(workers)
    /\ workers # << >> => Len(Total) = call.samples

(* Every call returns: the caller is not waiting for workers that wait for *)
(* the interpreter lock the caller holds.                                  *)
Returns == <>(result # None)

(* src/asv.rs:76: n_samples is the number of samples used.                 *)
UsesAllSamples == result = "ok" => Len(Total) = call.samples
==============================================================================
