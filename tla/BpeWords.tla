------------------------------ MODULE BpeWords ------------------------------
(***************************************************************************)
(* Words and pairs of symbols, as src/src/bpe_train.rs counts and merges   *)
(* them.                                                                   *)
(***************************************************************************)
EXTENDS Integers, Sequences, FiniteSets

CONSTANTS
    Corpora,     \* sets of words to train on: see IsCorpus
    NumBytes,    \* the single-byte symbols are 0..NumBytes - 1 (256 in the code)
    NumSpecial,  \* special tokens, which take the next ids
    VocabSize,   \* vocab_size
    TieRank      \* remap: the rank a byte has when ties are broken

ASSUME SizesAssumption ==
    NumBytes \in Nat \ {0} /\ NumSpecial \in Nat /\ VocabSize \in Nat

Base == 0..(NumBytes - 1)
FirstNew == NumBytes + NumSpecial

(* A corpus is a sequence of distinct words, each with how often it occurs. *)
IsCorpus(c) == c \in Seq([symbols: Seq(Base) \ {<<>>}, count: Nat \ {0}])

ASSUME CorporaAssumption == \A c \in Corpora : IsCorpus(c)
ASSUME RankAssumption == TieRank \in [Base -> Base]

(* The adjacent pair of a word at position k, and how often a pair is adjacent. *)
PairAt(w, k) == <<w[k], w[k + 1]>>
Positions(w, pair) == {k \in 1..(Len(w) - 1) : PairAt(w, k) = pair}
PairsOf(w) == {PairAt(w, k) : k \in 1..(Len(w) - 1)}
SymbolPairs(ws) == UNION {PairsOf(ws[i].symbols) : i \in DOMAIN ws}

Frequency(ws, pair) ==
    LET upTo[i \in 0..Len(ws)] ==
            IF i = 0 THEN 0 ELSE upTo[i - 1] + ws[i].count * Cardinality(Positions(ws[i].symbols, pair))
    IN  upTo[Len(ws)]

(* Ties: pairs of ids in order, the bytes by the rank they are given. *)
Rank(id) == IF id \in Base THEN TieRank[id] ELSE id
Before(p, q) ==
    Rank(p[1]) < Rank(q[1]) \/ (Rank(p[1]) = Rank(q[1]) /\ Rank(p[2]) < Rank(q[2]))

(* The positions at which a merge scanning w from the left puts a new symbol. *)
MergedAt(w, pair) ==
    LET hit[k \in 0..Len(w)] ==
            k \in 1..(Len(w) - 1) /\ PairAt(w, k) = pair /\ ~hit[k - 1]
    IN  {k \in DOMAIN w : hit[k]}

(* w with every occurrence of pair replaced by `new`. *)
MergeWord(w, pair, new) ==
    LET at == MergedAt(w, pair)
        kept[k \in 0..Len(w)] ==
            IF k = 0 THEN <<>>
            ELSE IF k - 1 \in at THEN kept[k - 1]
            ELSE Append(kept[k - 1], IF k \in at THEN new ELSE w[k])
    IN  kept[Len(w)]
=============================================================================
