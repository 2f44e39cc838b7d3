------------------------------ MODULE PairRank ------------------------------
(***************************************************************************)
(* PairRankTable of src/src/bpe/mod.rs: the merges of a vocabulary whose   *)
(* ids are the priorities, in a dense grid for small ids and in a flat     *)
(* open-addressed table of packed slots for the others.                    *)
(***************************************************************************)
EXTENDS Integers, SequencesExt

CONSTANTS
    IdBits,           \* PAIR_ID_BITS
    DenseBits,        \* dense_log2
    NumSlots,         \* slots of the flat table, a power of two
    Hash(_),          \* slot a key starts at
    MaxDisplacement,  \* 64: past this the table is given up
    NoMerge            \* u32::MAX

ASSUME TableAssumption ==
    /\ IdBits \in Nat /\ DenseBits \in 0..IdBits /\ NumSlots \in Nat \ {0}
    /\ MaxDisplacement \in Nat /\ NoMerge \in Nat

IdLimit == 2^IdBits

(* Bug: the two ids of a key overlap. *)
KeyOverlapping(a, b) == a * 2^DenseBits + b

Key(a, b) == a * IdLimit + b
Packed(key, id) == key * IdLimit + id
Vacant == -1                    \* u64::MAX, which no packed slot equals
Refused == <<>>

(* `merges` maps a pair of ids to the id it merges into. *)
Fits(merges, vocabLen) ==
    /\ vocabLen <= IdLimit
    /\ \A p \in DOMAIN merges : p[1] < IdLimit /\ p[2] < IdLimit /\ merges[p] < IdLimit

InGrid(a, b) == a < 2^DenseBits /\ b < 2^DenseBits

SlotAt(idx, d) == (idx + d) % NumSlots

(* One merge enters the flat table; a table given up stays given up. *)
Enter(slots, key, id) ==
    LET free == {d \in 0..(NumSlots - 1) : slots[SlotAt(Hash(key), d)] = Vacant}
        displacement == CHOOSE d \in free : \A e \in free : d <= e
    IN  IF slots = Refused \/ free = {} \/ displacement > MaxDisplacement THEN Refused
        ELSE [slots EXCEPT ![SlotAt(Hash(key), displacement)] = Packed(key, id)]

(* build, with the merges in the order in which the hash map gives them. *)
Build(merges, order, vocabLen) ==
    IF ~Fits(merges, vocabLen) THEN Refused
    ELSE FoldLeft(LAMBDA slots, p : Enter(slots, Key(p[1], p[2]), merges[p]),
                  [s \in 0..(NumSlots - 1) |-> Vacant], order)

(* rank: the walk ends at the key or at an empty slot, which half the table is. *)
Probe(slots, key) ==
    LET at(d) == slots[SlotAt(Hash(key), d)]
        ends == {d \in 0..(NumSlots - 1) : at(d) = Vacant \/ at(d) \div IdLimit = key}
        last == CHOOSE d \in ends : \A e \in ends : d <= e
    IN  IF at(last) = Vacant THEN NoMerge ELSE at(last) % IdLimit

RankOf(merges, slots, a, b) ==
    IF InGrid(a, b) THEN IF <<a, b>> \in DOMAIN merges THEN merges[<<a, b>>] ELSE NoMerge
    ELSE Probe(slots, Key(a, b))
=============================================================================
