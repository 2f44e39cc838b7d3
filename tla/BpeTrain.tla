------------------------------ MODULE BpeTrain ------------------------------
(***************************************************************************)
(* train_bpe of src/src/bpe_train.rs: pair counts are kept in a priority   *)
(* queue and corrected by the changes each merge makes, and an index that  *)
(* only grows says which words a pair may be in.  The words of one merge   *)
(* are updated by several threads in any order; they only share maps of    *)
(* sums and of sets, which every update adds to.                           *)
(***************************************************************************)
EXTENDS BpeWords

VARIABLES
    words,     \* the corpus, as it is spelled by now
    merges,    \* the pairs merged so far; `symbols` is the bytes, the special
               \* tokens and one symbol per merge
    queue,     \* pq: the count of each pair in it
    within,    \* contained_in_words: pair -> words
    todo,      \* word_idcs: words the merge under way has still to update
    changes,   \* count_changes: pair -> sum so far
    phase      \* "pick", "update" or "done"

vars == <<words, merges, queue, within, todo, changes, phase>>

Empty == [p \in {} |-> {}]
Old(f, p, none) == IF p \in DOMAIN f THEN f[p] ELSE none

Init ==
    /\ words \in Corpora
    /\ merges = <<>>
    /\ queue = [p \in SymbolPairs(words) |-> Frequency(words, p)]     \* count_pairs
    /\ within = [p \in SymbolPairs(words) |->
                    {i \in DOMAIN words : Positions(words[i].symbols, p) # {}}]
    /\ todo = {} /\ changes = Empty /\ phase = "pick"

NewId == FirstNew + Len(merges)
Current == merges[Len(merges)]   \* the pair being merged, into symbol NewId - 1

Highest == {p \in DOMAIN queue : \A q \in DOMAIN queue : queue[q] <= queue[p]}

(* Bug: the first pair the queue gives out is taken, whatever it ties with. *)
SmallestOfAny(p) == p \in Highest

(* pop all the ties, keep the smallest *)
Smallest(p) == p \in Highest /\ \A q \in Highest \ {p} : Before(p, q)

(* Bug: a pair that no longer occurs is put back, and looked at again. *)
PickPuttingBack ==
    /\ phase = "pick"
    /\ DOMAIN queue # {} /\ NewId < VocabSize
    /\ \E pair \in DOMAIN queue :
          /\ Smallest(pair)
          /\ IF queue[pair] <= 0 THEN UNCHANGED vars
             ELSE /\ merges' = Append(merges, pair)
                  /\ queue' = [p \in DOMAIN queue \ {pair} |-> queue[p]]
                  /\ todo' = within[pair]
                  /\ changes' = Empty /\ phase' = "update"
                  /\ UNCHANGED <<words, within>>

(* The loop head: the best pair leaves the queue, its ties go back, and the
   words it may be in are looked up. *)
Pick ==
    /\ phase = "pick"
    /\ DOMAIN queue # {} /\ NewId < VocabSize
    /\ \E pair \in DOMAIN queue :
          /\ Smallest(pair)
          /\ merges' = Append(merges, pair)
          /\ queue' = [p \in DOMAIN queue \ {pair} |-> queue[p]]
          /\ todo' = within[pair]
    /\ changes' = Empty /\ phase' = "update"
    /\ UNCHANGED <<words, within>>

Stop ==
    /\ phase = "pick"
    /\ DOMAIN queue = {} \/ NewId >= VocabSize
    /\ phase' = "done"
    /\ UNCHANGED <<words, merges, queue, within, todo, changes>>

(* Bug: the left neighbour is read before the merge in front of it. *)
LeftOfStale(w, at, k) == w[k]

(* The left side of the pair at k, when its right side is merged: a merge just before
   has replaced it. *)
LeftOf(w, at, k) == IF k - 1 \in at THEN NewId - 1 ELSE w[k]

(* update_word's calls of record_changes: the pairs lost and gained to the left of each
   merged position, and to its right. *)
ToLeft(w) == {k \in 1..(Len(w) - 1) : k + 1 \in MergedAt(w, Current)}
ToRight(w) == {k \in 1..(Len(w) - 1) : k - 1 \in MergedAt(w, Current)}
LeftLost(w) == [k \in ToLeft(w) |-> <<LeftOf(w, MergedAt(w, Current), k), Current[1]>>]
LeftGained(w) == [k \in ToLeft(w) |-> <<LeftOf(w, MergedAt(w, Current), k), NewId - 1>>]
RightLost(w) == [k \in ToRight(w) |-> <<Current[2], w[k + 1]>>]
RightGained(w) == [k \in ToRight(w) |-> <<NewId - 1, w[k + 1]>>]

Recorded(f) == {f[k] : k \in DOMAIN f}
Times(f, p) == Cardinality({k \in DOMAIN f : f[k] = p})
Lost(w) == Recorded(LeftLost(w)) \cup Recorded(RightLost(w))
Gained(w) == Recorded(LeftGained(w)) \cup Recorded(RightGained(w))
Change(w, p) ==
    Times(LeftGained(w), p) + Times(RightGained(w), p) - Times(LeftLost(w), p) - Times(RightLost(w), p)

(* Bug: the words that gained a pair replace those indexed before. *)
UpdateWordReplacing(i) ==
    /\ phase = "update" /\ i \in todo
    /\ LET w == words[i].symbols
           touched == Lost(w) \cup Gained(w)
       IN  /\ words' = [words EXCEPT ![i].symbols = MergeWord(@, Current, NewId - 1)]
           /\ changes' = [p \in DOMAIN changes \cup touched |->
                             Old(changes, p, 0) + (IF p \in touched THEN words[i].count * Change(w, p) ELSE 0)]
           /\ within' = [p \in DOMAIN within \cup Gained(w) |->
                             IF p \in Gained(w) THEN {i} ELSE within[p]]
    /\ todo' = todo \ {i}
    /\ UNCHANGED <<merges, queue, phase>>

(* One word is updated: its spelling, the sums of the pairs it touched (also
   those that come to nothing) and the index of the pairs it gained. *)
UpdateWord(i) ==
    /\ phase = "update" /\ i \in todo
    /\ LET w == words[i].symbols
           touched == Lost(w) \cup Gained(w)
       IN  /\ words' = [words EXCEPT ![i].symbols = MergeWord(@, Current, NewId - 1)]
           /\ changes' = [p \in DOMAIN changes \cup touched |->
                             Old(changes, p, 0) + (IF p \in touched THEN words[i].count * Change(w, p) ELSE 0)]
           /\ within' = [p \in DOMAIN within \cup Gained(w) |->
                             Old(within, p, {}) \cup (IF p \in Gained(w) THEN {i} ELSE {})]
    /\ todo' = todo \ {i}
    /\ UNCHANGED <<merges, queue, phase>>

(* change_priority_by, or push for a pair that is not in the queue. *)
Apply ==
    /\ phase = "update" /\ todo = {}
    /\ queue' = [p \in DOMAIN queue \cup DOMAIN changes |-> Old(queue, p, 0) + Old(changes, p, 0)]
    /\ phase' = "pick"
    /\ UNCHANGED <<words, merges, within, todo, changes>>

Finished == phase = "done" /\ UNCHANGED vars

Next == Pick \/ Stop \/ (\E i \in todo : UpdateWord(i)) \/ Apply \/ Finished

Spec == Init /\ [][Next]_vars
FairSpec == Spec /\ WF_vars(Next)
-----------------------------------------------------------------------------
TypeOK ==
    /\ \A i \in DOMAIN words : \A k \in DOMAIN words[i].symbols : words[i].symbols[k] \in 0..(NewId - 1)
    /\ DOMAIN queue \cup DOMAIN changes \subseteq (0..(NewId - 1)) \X (0..(NewId - 1))
    /\ \A p \in DOMAIN within : within[p] \subseteq DOMAIN words
    /\ todo \subseteq DOMAIN words
    /\ phase \in {"pick", "update", "done"}

Merged == {merges[n] : n \in DOMAIN merges}

(***************************************************************************)
(* The counts that were corrected merge by merge are the counts of the     *)
(* corpus: when a pair is picked, every pair not merged before is in the   *)
(* queue with the frequency it has, and a merged pair never again with a   *)
(* positive one.                                                           *)
(***************************************************************************)
CountsExact ==
    phase = "pick" =>
        \A p \in SymbolPairs(words) \cup DOMAIN queue :
            IF p \in Merged THEN Old(queue, p, 0) <= 0 /\ p \notin SymbolPairs(words)
            ELSE p \in DOMAIN queue /\ queue[p] = Frequency(words, p)

(***************************************************************************)
(* contained_in_words may be stale but never misses a word, so that no     *)
(* merge leaves a word out, and the lookup of a picked pair never fails.   *)
(***************************************************************************)
IndexCovers ==
    /\ DOMAIN queue \subseteq DOMAIN within
    /\ \A i \in DOMAIN words : \A k \in 1..(Len(words[i].symbols) - 1) :
          LET p == PairAt(words[i].symbols, k)
          IN  p \in DOMAIN within /\ i \in within[p]

(* The words a merge has still to update count as updated: the order of the
   threads is not visible in the result. *)
Naive == INSTANCE NaiveBpe WITH
    words <- [i \in DOMAIN words |->
                 IF i \in todo THEN [words[i] EXCEPT !.symbols = MergeWord(@, Current, NewId - 1)]
                 ELSE words[i]]

(* Incremental training does what counting from scratch does, merge by merge. *)
ImplementsNaive == Naive!Spec

(* Training stops, also when there is nothing left to merge. *)
Terminates == <>(phase = "done")
=============================================================================
