------------------------------ MODULE NaiveBpe ------------------------------
(***************************************************************************)
(* What byte-pair training means (the reference for src/src/bpe_train.rs): *)
(* count every adjacent pair from scratch, merge the most frequent one     *)
(* everywhere, the first of the ties in the order asked for, and go on     *)
(* until the vocabulary is full.                                           *)
(***************************************************************************)
EXTENDS BpeWords

VARIABLES
    words,   \* the corpus, as it is spelled by now
    merges   \* the pairs merged so far; merge n made symbol FirstNew + n - 1

NewId == FirstNew + Len(merges)
Full == NewId >= VocabSize

Init == words \in Corpora /\ merges = <<>>

MergeAll(ws, pair, new) ==
    [i \in DOMAIN ws |-> [ws[i] EXCEPT !.symbols = MergeWord(@, pair, new)]]

Best(pair) ==
    \A q \in SymbolPairs(words) \ {pair} :
        \/ Frequency(words, q) < Frequency(words, pair)
        \/ Frequency(words, q) = Frequency(words, pair) /\ Before(pair, q)

Train ==
    /\ ~Full
    /\ \E pair \in SymbolPairs(words) :
          /\ Best(pair)
          /\ words' = MergeAll(words, pair, NewId)
          /\ merges' = Append(merges, pair)

(* Nothing is left to merge: an id may go to a pair that occurs nowhere. *)
Fill ==
    /\ ~Full
    /\ SymbolPairs(words) = {}
    /\ \E p, q \in 0..(NewId - 1) : merges' = Append(merges, <<p, q>>)
    /\ UNCHANGED words

Next == Train \/ Fill
Spec == Init /\ [][Next]_<<words, merges>>
=============================================================================
