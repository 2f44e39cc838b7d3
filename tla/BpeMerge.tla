------------------------------ MODULE BpeMerge ------------------------------
(***************************************************************************)
(* The merge loops of src/src/bpe/mod.rs, which make the tokens of one     *)
(* pretoken out of its initial symbols.  Symbols stay at the positions     *)
(* they start at; a doubly linked list skips the ones that were merged     *)
(* away.  The loops differ in how they find the next merge:                *)
(*   "heap"   bpe_merge_symbols_by_rank, bpe_merge_symbols_ranked: a heap  *)
(*            of pairs, in which entries go stale;                         *)
(*   "scan"   bpe_merge_symbols_small, _short_scalar, _ranked_slice: the   *)
(*            least of an array of ranks;                                  *)
(*   "lanes"  _short_neon, _short_avx2, _short_avx512: the same, rank and  *)
(*            position packed into one machine word.                       *)
(* The length of a pretoken and the machine only choose the loop.          *)
(***************************************************************************)
EXTENDS Integers, Sequences

CONSTANTS
    Ids,      \* token ids
    Inputs,   \* see IsInput
    NoRank,   \* u32::MAX: the pair does not merge
    PosSpan   \* 2^8: room for a position in a lane

LaneSpan == NoRank + 1     \* 2^32: a lane is a u32

(* merges is the merge table; lookup is what the code is answered when it asks for
   a pair: the token it becomes, and its priority.  The lanes need a PairRankTable,
   which refuses ids of more than 21 bits, and a pretoken of at most 15 symbols. *)
IsInput(i) ==
    /\ i.word \in Seq(Ids)
    /\ i.lookup \in [Ids \X Ids -> [token: Ids, rank: 0..NoRank]]
    /\ i.core \in {"heap", "scan", "lanes"}
    /\ i.core = "lanes" =>
          /\ Len(i.word) <= PosSpan
          /\ \A p \in Ids \X Ids :
                \/ i.lookup[p].rank = NoRank
                \/ /\ i.lookup[p].rank = i.lookup[p].token
                   /\ (i.lookup[p].rank + 2) * PosSpan <= LaneSpan

ASSUME InputsAssumption == \A i \in Inputs : IsInput(i)
ASSUME SpansAssumption == NoRank \in Nat /\ PosSpan \in Nat \ {0} /\ PosSpan <= LaneSpan

VARIABLES
    input,    \* the pretoken, the merge tables and the loop
    phase,    \* "merge", "compact" or "done"
    symbols,  \* the symbol at each position, 1..N
    next,     \* the position after it, 0 for none
    prev,     \* the position before it, 0 for none
    live,     \* positions not merged away (kept by no code: for the properties)
    heap,     \* "heap": <<rank, position>>; a second copy of an entry changes nothing
    ranks,    \* "scan": [token, rank] of the pair at each position
    lanes,    \* "lanes": the packed rank of the pair at each position
    write,    \* compaction: symbols written,
    at        \* and the position to be read

vars == <<input, phase, symbols, next, prev, live, heap, ranks, lanes, write, at>>

N == Len(input.word)
Look(a, b) == input.lookup[<<a, b>>]
Lane(rank, p) == (rank * PosSpan + (p - 1)) % LaneSpan
NoMergeFloor == (NoRank * PosSpan) % LaneSpan

Init ==
    /\ input \in Inputs
    /\ phase = IF N < 2 THEN "done" ELSE "merge"
    /\ symbols = input.word
    /\ live = 1..N
    /\ next = [p \in 1..N |-> IF p < N THEN p + 1 ELSE 0]
    /\ prev = [p \in 1..N |-> p - 1]
    /\ LET pair(p) == IF p < N THEN Look(symbols[p], symbols[p + 1])
                              ELSE [token |-> symbols[p], rank |-> NoRank]
       IN  /\ heap = IF input.core # "heap" THEN {}
                     ELSE {<<pair(p).rank, p>> : p \in {q \in 1..N : pair(q).rank # NoRank}}
           /\ ranks = [p \in 1..N |-> pair(p)]
           /\ lanes = [p \in 1..N |-> IF p < N THEN Lane(pair(p).rank, p) ELSE NoRank]
    /\ write = IF N < 2 THEN N ELSE 0
    /\ at = IF N < 2 THEN 0 ELSE 1

(* The right half of the pair at p is unlinked.  What is left in its own links is
   read by no one, save that a heap's entry sees its `next`. *)
Merge(p, token) ==
    LET dead == next[p]
        right == next[dead]
    IN  /\ symbols' = [symbols EXCEPT ![p] = token]
        /\ next' = [q \in 1..N |-> IF q = p THEN right
                                   ELSE IF q = dead /\ input.core = "heap" THEN 0 ELSE next[q]]
        /\ prev' = IF right = 0 THEN prev ELSE [prev EXCEPT ![right] = p]
        /\ live' = live \ {dead}
        /\ UNCHANGED <<input, phase, write, at>>

(* The pair at q, when p has become `token` and is followed by `right`. *)
Refreshed(q, p, token, right) ==
    IF q = p THEN Look(token, symbols[right]) ELSE Look(symbols[q], token)

(* Bug: only the pair to the right is looked at again. *)
TouchedRight(p) == {p} \cap {q \in 1..N : next[next[p]] # 0}

(* The positions whose pairs now touch the merged symbol. *)
Touched(p) == {q \in {prev[p], p} : q # 0 /\ (q = p => next[next[p]] # 0)}

IsLeast(e) == e \in heap /\ \A f \in heap : e[1] < f[1] \/ (e[1] = f[1] /\ e[2] <= f[2])
Valid(e) ==
    /\ next[e[2]] # 0
    /\ Look(symbols[e[2]], symbols[next[e[2]]]).rank = e[1]

(* Bug: the heap is looked at, not popped. *)
PopStaleKeeping ==
    /\ phase = "merge" /\ input.core = "heap"
    /\ \E e \in heap : IsLeast(e) /\ ~Valid(e)
    /\ UNCHANGED vars

(* An entry that an earlier merge has made invalid is skipped. *)
PopStale ==
    /\ phase = "merge" /\ input.core = "heap"
    /\ \E e \in heap : IsLeast(e) /\ ~Valid(e) /\ heap' = heap \ {e}
    /\ UNCHANGED <<input, phase, symbols, next, prev, live, ranks, lanes, write, at>>

PopMerge ==
    /\ phase = "merge" /\ input.core = "heap"
    /\ \E e \in heap :
          /\ IsLeast(e) /\ Valid(e)
          /\ LET p == e[2]
                 token == Look(symbols[p], symbols[next[p]]).token
                 pair(q) == Refreshed(q, p, token, next[next[p]])
             IN  /\ Merge(p, token)
                 /\ heap' = (heap \ {e}) \cup
                            {<<pair(q).rank, q>> : q \in {r \in Touched(p) : pair(r).rank # NoRank}}
    /\ UNCHANGED <<ranks, lanes>>

(* Bug: the last of equal ranks wins. *)
IsFirstLeastLast(p) ==
    \A q \in 1..N : ranks[p].rank < ranks[q].rank \/ (ranks[p].rank = ranks[q].rank /\ q <= p)

(* The scan keeps the first of equal ranks. *)
IsFirstLeast(p) ==
    \A q \in 1..N : ranks[p].rank < ranks[q].rank \/ (ranks[p].rank = ranks[q].rank /\ p <= q)

ScanMerge ==
    /\ phase = "merge" /\ input.core = "scan"
    /\ \E p \in 1..N :
          /\ ranks[p].rank # NoRank /\ IsFirstLeast(p)
          /\ LET token == ranks[p].token
             IN  /\ Merge(p, token)
                 /\ ranks' = [q \in 1..N |->
                        IF q \in Touched(p) THEN Refreshed(q, p, token, next[next[p]])
                        ELSE IF q \in {p, next[p]} THEN [ranks[q] EXCEPT !.rank = NoRank]
                        ELSE ranks[q]]
    /\ UNCHANGED <<heap, lanes>>

(* The least lane names the position and the token. *)
LaneMerge ==
    /\ phase = "merge" /\ input.core = "lanes"
    /\ \E best \in {lanes[q] : q \in 1..N} :
          /\ best < NoMergeFloor /\ \A q \in 1..N : best <= lanes[q]
          /\ LET p == (best % PosSpan) + 1
                 token == best \div PosSpan
             IN  /\ Merge(p, token)
                 /\ lanes' = [q \in 1..N |->
                        IF q \in Touched(p) THEN Lane(Refreshed(q, p, token, next[next[p]]).rank, q)
                        ELSE IF q \in {p, next[p]} THEN NoRank
                        ELSE lanes[q]]
    /\ UNCHANGED <<heap, ranks>>

Exhausted ==
    CASE input.core = "heap"  -> heap = {}
      [] input.core = "scan"  -> \A q \in 1..N : ranks[q].rank = NoRank
      [] input.core = "lanes" -> \A q \in 1..N : lanes[q] >= NoMergeFloor

(* Nothing is left to merge: compaction starts. *)
Stop ==
    /\ phase = "merge" /\ Exhausted
    /\ phase' = "compact"
    /\ UNCHANGED <<input, symbols, next, prev, live, heap, ranks, lanes, write, at>>

(* The survivors are moved to the front, in place; then the rest is cut off.
   bpe_merge_symbols_ranked collects them from a copy, with the same outcome. *)
Compact ==
    /\ phase = "compact"
    /\ symbols' = [symbols EXCEPT ![write + 1] = symbols[at]]
    /\ write' = write + 1
    /\ at' = next[at]
    /\ phase' = IF next[at] = 0 THEN "done" ELSE "compact"
    /\ UNCHANGED <<input, next, prev, live, heap, ranks, lanes>>

Finished == phase = "done" /\ UNCHANGED vars

Step == PopStale \/ PopMerge \/ ScanMerge \/ LaneMerge \/ Stop \/ Compact
Next == Step \/ Finished

(* The loops run to their end. *)
Spec == Init /\ [][Next]_vars
FairSpec == Spec /\ WF_vars(Step)
-----------------------------------------------------------------------------
TypeOK ==
    /\ IsInput(input)
    /\ phase \in {"merge", "compact", "done"}
    /\ symbols \in [1..N -> Ids]
    /\ next \in [1..N -> 0..N] /\ prev \in [1..N -> 0..N]
    /\ live \in SUBSET (1..N)
    /\ heap \in SUBSET ((0..(NoRank - 1)) \X (1..N))
    /\ ranks \in [1..N -> [token: Ids, rank: 0..NoRank]]
    /\ lanes \in [1..N -> 0..NoRank]
    /\ write \in 0..N /\ at \in 0..N

(* The pair that starts at a live position, and the first of the least ones. *)
PairAt(p) == Look(symbols[p], symbols[next[p]])
Mergeable(p) == p \in live /\ next[p] # 0 /\ PairAt(p).rank # NoRank
Lowest(p) ==
    /\ Mergeable(p)
    /\ \A q \in live :
          Mergeable(q) => \/ PairAt(p).rank < PairAt(q).rank
                          \/ PairAt(p).rank = PairAt(q).rank /\ p <= q

(***************************************************************************)
(* "merge priority (lowest merged ID, then lowest position) is identical": *)
(* whichever loop runs, however stale its heap is, each merge takes the    *)
(* leftmost of the pairs of lowest rank and nothing else changes.          *)
(***************************************************************************)
MergesLowest ==
    [][live' # live =>
          \E p \in live : /\ Lowest(p)
                          /\ live' = live \ {next[p]}
                          /\ symbols' = [symbols EXCEPT ![p] = PairAt(p).token]]_vars

(***************************************************************************)
(* No pair is overlooked: of the tokens that are returned, no two adjacent *)
(* ones merge.                                                             *)
(***************************************************************************)
Irreducible ==
    phase = "done" =>
        \A k \in 1..(write - 1) : Look(symbols[k], symbols[k + 1]).rank = NoRank

(* The list from position p on, as the word it spells. *)
ChainFrom(p) ==
    LET chain[q \in 0..N] == IF q = 0 THEN <<>> ELSE <<symbols[q]>> \o chain[next[q]]
    IN  chain[p]
Spelled ==
    IF phase = "merge" THEN ChainFrom(1)
    ELSE SubSeq(symbols, 1, write) \o (IF phase = "done" THEN <<>> ELSE ChainFrom(at))

LowestFirst == INSTANCE LowestFirstMerge WITH word <- Spelled

(***************************************************************************)
(* The loops and the tables they look pairs up in compute byte pair        *)
(* encoding: merge the leftmost pair of lowest rank of the merge table,    *)
(* until there is none.  Compaction in place loses nothing.                *)
(***************************************************************************)
ImplementsLowestFirst == LowestFirst!Spec

(* Every pretoken is merged to its end. *)
Terminates == <>(phase = "done")
=============================================================================
