---------------------------- MODULE LargeCoalition ----------------------------
(***************************************************************************)
(* `LargeCoalition` (src/coalition.rs): a set of nodes of a graph with     *)
(* more nodes than a word has bits, packed into a vector of words.  A word *)
(* is the set of its bits that are 1.  Nodes are numbered from 0, as in    *)
(* the code; words from 1.                                                 *)
(***************************************************************************)
EXTENDS Integers, Sequences, SortedNumbers

CONSTANT Bits     (* of a word; 64 in the code                             *)

ASSUME BitsAssumption == Bits \in Nat \ {0}

(* n.div_ceil(64) *)
WordsForN(n) == (n + Bits - 1) \div Bits

WordOf(i) == i \div Bits + 1
BitOf(i) == i % Bits

Empty(n) == [w \in 1..WordsForN(n) |-> {}]

(* Faulty variant: what the last sample left is still there.               *)
KeepBits(words) == words

Clear(words) == [w \in DOMAIN words |-> {}]

Insert(words, i) == [words EXCEPT ![WordOf(i)] = @ \cup {BitOf(i)}]

HasNode(words, i) == BitOf(i) \in words[WordOf(i)]

(* The nodes of word w, the lowest bit first.                              *)
NodesOfWord(words, w) ==
  [k \in 1..Cardinality(words[w]) |-> (w - 1) * Bits + Ascending(words[w])[k]]

(* to_sorted_nodes and words_to_sorted_nodes: the bits of one word after   *)
(* the other.                                                              *)
ToSortedNodes(words) ==
  LET upTo[w \in 0..Len(words)] ==
        IF w = 0 THEN << >> ELSE upTo[w - 1] \o NodesOfWord(words, w)
  IN  upTo[Len(words)]
==============================================================================
