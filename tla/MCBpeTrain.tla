----------------------------- MODULE MCBpeTrain -----------------------------
(* Small corpora for the TLC run of BpeTrain: two distinct words over two bytes,
   long enough for a byte to repeat, and bytes ranked in the opposite order. *)
EXTENDS BpeTrain

Spelled(n) == UNION { [1..k -> {0, 1}] : k \in 1..n }
MCCorpora ==
    { <<[symbols |-> v, count |-> m], [symbols |-> w, count |-> n]>> :
          v \in Spelled(4), w \in [1..5 -> {0, 1}], m \in {1, 2}, n \in {1} }
MCTieRank == [b \in 0..1 |-> 1 - b]
=============================================================================
