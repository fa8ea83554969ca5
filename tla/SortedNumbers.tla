----------------------------- MODULE SortedNumbers -----------------------------
(***************************************************************************)
(* Node ids in ascending order, as the code lists them wherever it scans   *)
(* the bits of a mask or a range.                                          *)
(***************************************************************************)
EXTENDS Naturals, FiniteSets

(* The i-th member of a finite set of numbers.                             *)
Nth(S, i) == CHOOSE k \in S : Cardinality({j \in S : j <= k}) = i

Ascending(S) == [i \in 1..Cardinality(S) |-> Nth(S, i)]

(* The elements of the list s that are members of S, in their order in s.  *)
Selected(s, S) ==
  LET places == Ascending({k \in DOMAIN s : s[k] \in S})
  IN  [k \in DOMAIN places |-> s[places[k]]]
==============================================================================
