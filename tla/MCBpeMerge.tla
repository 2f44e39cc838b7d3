----------------------------- MODULE MCBpeMerge -----------------------------
(* Small vocabularies for the TLC run of BpeMerge: bytes 0 and 1, merges of two and
   three pairs into the ids 2, 3 and 4, and both kinds of merge table.  Bytes are
   in the grid of PairRank, later ids in its flat table, where keys of one right
   half collide; some orders of the merges make it give up. *)
EXTENDS BpeMerge, PairRank, SequencesExt

MCHash(key) == key % NumSlots

Words == UNION { [1..n -> {0, 1}] : n \in 0..5 } \cup { <<0, 0, 0, 0, 0, 0>>, <<0, 1, 0, 0, 1, 0>> }
Firsts == {<<0, 0>>, <<0, 1>>}
Seconds == {<<2, 0>>, <<0, 2>>, <<2, 2>>, <<1, 0>>, <<2, 1>>}
Thirds == {<<2, 2>>, <<3, 2>>, <<3, 0>>, <<1, 0>>}
Vocabularies ==
    UNION { { m \in [{f, s, t} -> 2..4] : m[f] = 2 /\ m[s] # 2 /\ m[t] # 2 } :
            f \in Firsts, s \in Seconds, t \in Thirds }

Answer(id) == [token |-> IF id = NoRank THEN 0 ELSE id, rank |-> id]
Mapped(m, a, b) == IF <<a, b>> \in DOMAIN m THEN m[<<a, b>>] ELSE NoRank

(* The ids are the ranks: the table, or the hash map when there is none. *)
ByRank(m) ==
    LET tables == { Build(m, o, 5) : o \in SetToSeqs(DOMAIN m) }
        lookup(t) == [p \in Ids \X Ids |->
            Answer(IF t = Refused THEN Mapped(m, p[1], p[2]) ELSE RankOf(m, t, p[1], p[2]))]
    IN  [word: Words, core: {"heap", "scan", "lanes"},
         merges: {[p \in DOMAIN m |-> Answer(m[p])]}, lookup: {lookup(t) : t \in tables}]

(* Explicit ranks, in the opposite order. *)
Ranked(m) ==
    LET answer(id) == IF id = NoRank THEN Answer(id) ELSE [token |-> id, rank |-> 5 - id]
    IN  [word: Words, core: {"heap", "scan"},
         merges: {[p \in DOMAIN m |-> answer(m[p])]},
         lookup: {[p \in Ids \X Ids |-> answer(Mapped(m, p[1], p[2]))]}]

MCInputs == UNION { ByRank(m) \cup Ranked(m) : m \in Vocabularies }
=============================================================================
