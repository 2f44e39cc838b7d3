-------------------------- MODULE LowestFirstMerge --------------------------
(***************************************************************************)
(* Byte pair encoding of one word: of the adjacent pairs that merge, the   *)
(* one of lowest rank, the leftmost of several, is replaced by its token.  *)
(* This is what src/src/bpe/mod.rs says its merge loops compute.           *)
(***************************************************************************)
EXTENDS Integers, Sequences

VARIABLES
    input,   \* the word to encode, and merges: pair of tokens -> [token, rank]
    word     \* what has become of it

Pair(k) == <<word[k], word[k + 1]>>
Mergeable == {k \in 1..(Len(word) - 1) : Pair(k) \in DOMAIN input.merges}
Rank(k) == input.merges[Pair(k)].rank

MergeAt(k) ==
    SubSeq(word, 1, k - 1) \o <<input.merges[Pair(k)].token>> \o SubSeq(word, k + 2, Len(word))

Init == word = input.word

Next ==
    /\ \E k \in Mergeable :
          /\ \A j \in Mergeable : Rank(k) < Rank(j) \/ (Rank(k) = Rank(j) /\ k <= j)
          /\ word' = MergeAt(k)
    /\ UNCHANGED input

Spec == Init /\ [][Next]_<<input, word>>
=============================================================================
