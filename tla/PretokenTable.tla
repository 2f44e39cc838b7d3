---------------------------- MODULE PretokenTable ---------------------------
(***************************************************************************)
(* ShortPretokenCache of src/src/bpe/pretoken_cache.rs: open addressing    *)
(* over line-aligned pairs of slots, linear probing pair by pair, growth   *)
(* by doubling at 3/4 load, no deletion but clearing everything.  A failed *)
(* lookup reports the slot an insert may use later.  The copy of grow is   *)
(* taken one entry at a time, so that what a half-grown table holds can be *)
(* stated.                                                                 *)
(***************************************************************************)
EXTENDS Integers, FiniteSets

CONSTANTS
    Keys,      \* packed pretoken keys, none of them EMPTY_KEY
    Vals,      \* packed encodings
    Hash,      \* pretoken_key_hash
    Absent,    \* EMPTY_KEY: an empty slot, or no answer
    Caps,      \* capacities a table is built with or reset to
    MaxCap     \* bound: no growth beyond this capacity

ASSUME HashAssumption == Hash \in [Keys -> Nat]
ASSUME AbsentAssumption == \A k \in Keys, v \in Vals : Absent # [key |-> k, val |-> v]
ASSUME ValsAssumption == Absent \notin Vals
ASSUME CapsAssumption ==
    /\ Caps # {} /\ Caps \subseteq Nat /\ MaxCap \in Nat
    /\ \A c \in Caps : c > 0 /\ c = 2 * (c \div 2)

VARIABLES
    cap,      \* slots.cap
    slots,    \* the slot array, each slot Absent or [key, val]
    len,
    miss,     \* what the last failed get_or_slot reported, while it is valid
    grow,     \* the growth in progress inside an insert, or None
    result    \* the value the last get_or_slot found

vars == <<cap, slots, len, miss, grow, result>>

None == [active |-> FALSE]
Blank(c) == [s \in 0..(c - 1) |-> Absent]

Pairs == cap \div 2
InPair(p) == {2 * p, 2 * p + 1}

(* (h & mask & !1), as the number of the pair. *)
Home(k) == (Hash[k] \div 2) % Pairs

(* idx = (idx + 2) & mask, d times. *)
PairAt(k, d) == LET p == Home(k) + d IN IF p < Pairs THEN p ELSE p - Pairs

Holds(s, k) == slots[s] # Absent /\ slots[s].key = k

(* The walk for k comes to its d-th pair: every pair before it was full. *)
Reaches(k, d) == \A e \in 0..(d - 1) : \A s \in InPair(PairAt(k, e)) : slots[s] # Absent

(* Slots of the walk that end it for an insert: the first empty one. *)
IsFirstEmpty(k, s) ==
    \E d \in 0..(Pairs - 1) :
        /\ Reaches(k, d)
        /\ s \in InPair(PairAt(k, d)) /\ slots[s] = Absent
        /\ s = 2 * PairAt(k, d) + 1 => slots[s - 1] # Absent

FirstEmpty(k) == CHOOSE s \in DOMAIN slots : IsFirstEmpty(k, s)

(* Bug: only the home pair is looked at, as probe_pair does. *)
FindsAtHome(k, s) == s \in InPair(Home(k)) /\ Holds(s, k)

(* get_or_slot comes to the key before it comes to a pair with a hole. *)
Finds(k, s) ==
    \E d \in 0..(Pairs - 1) :
        Reaches(k, d) /\ s \in InPair(PairAt(k, d)) /\ Holds(s, k)

Found(k) == \E s \in DOMAIN slots : Finds(k, s)
Where(k) == CHOOSE s \in DOMAIN slots : Finds(k, s)

Init ==
    /\ cap \in Caps
    /\ slots = Blank(cap)
    /\ len = 0
    /\ miss = None
    /\ grow = None
    /\ result = Absent

Idle == ~grow.active

(* get_or_slot: lookups never mutate; a miss reports the slot for an insert. *)
Lookup(k) ==
    /\ Idle
    /\ IF Found(k)
       THEN result' = slots[Where(k)].val /\ miss' = None
       ELSE result' = Absent /\ miss' = [active |-> TRUE, key |-> k, slot |-> FirstEmpty(k)]
    /\ UNCHANGED <<cap, slots, len, grow>>

(* (len + 1) * 4 > cap * 3 *)
Overloaded == (len + 1) * 4 > cap * 3

(* insert and insert_at: grow first when the load asks for it, and then the slot
   found before is worthless; otherwise the entry goes to slot s. *)
Store(k, v, s) ==
    /\ miss' = None
    /\ IF Overloaded
       THEN /\ 2 * cap <= MaxCap
            /\ grow' = [active |-> TRUE, old |-> slots, next |-> 0, key |-> k, val |-> v]
            /\ cap' = 2 * cap
            /\ slots' = Blank(2 * cap)
            /\ len' = len
       ELSE /\ slots' = [slots EXCEPT ![s] = [key |-> k, val |-> v]]
            /\ len' = len + 1
            /\ UNCHANGED <<cap, grow>>
    /\ UNCHANGED result

(* The encode path: the encoding of a missed pretoken goes to the slot its
   failed lookup reported. *)
InsertAt(v) == Idle /\ miss.active /\ Store(miss.key, v, miss.slot)

(* The seeding path: insert walks again to the first empty slot. *)
Insert(v) == Idle /\ miss.active /\ Store(miss.key, v, FirstEmpty(miss.key))

(* replace: overwrite in place, or insert where the walk ends without the key. *)
Replace(k, v) ==
    /\ Idle
    /\ IF Found(k)
       THEN /\ slots' = [slots EXCEPT ![Where(k)] = [key |-> k, val |-> v]]
            /\ miss' = None
            /\ UNCHANGED <<cap, len, grow, result>>
       ELSE Store(k, v, FirstEmpty(k))

(* Bug: an entry keeps its old slot in the bigger table. *)
MoveEntryInPlace ==
    /\ grow.active /\ grow.next \in DOMAIN grow.old
    /\ slots' = [slots EXCEPT ![grow.next] = grow.old[grow.next]]
    /\ grow' = [grow EXCEPT !.next = @ + 1]
    /\ UNCHANGED <<cap, len, miss, result>>

(* grow: one turn of its loop over the old slots ... *)
MoveEntry ==
    /\ grow.active /\ grow.next \in DOMAIN grow.old
    /\ LET entry == grow.old[grow.next]
       IN  slots' = IF entry = Absent THEN slots
                    ELSE [slots EXCEPT ![FirstEmpty(entry.key)] = entry]
    /\ grow' = [grow EXCEPT !.next = @ + 1]
    /\ UNCHANGED <<cap, len, miss, result>>

(* ... and when they are done the interrupted insert takes the first empty slot. *)
FinishGrow ==
    /\ grow.active /\ grow.next \notin DOMAIN grow.old
    /\ slots' = [slots EXCEPT ![FirstEmpty(grow.key)] = [key |-> grow.key, val |-> grow.val]]
    /\ len' = len + 1
    /\ grow' = None
    /\ UNCHANGED <<cap, miss, result>>

(* clear, and reset_to_capacity with the same or another capacity. *)
Reset(c) ==
    /\ Idle
    /\ cap' = c
    /\ slots' = Blank(c)
    /\ len' = 0
    /\ miss' = None
    /\ UNCHANGED <<grow, result>>

Next ==
    \/ \E k \in Keys : Lookup(k)
    \/ \E v \in Vals : InsertAt(v) \/ Insert(v)
    \/ \E k \in Keys, v \in Vals : Replace(k, v)
    \/ MoveEntry \/ FinishGrow
    \/ \E c \in Caps \cup {cap} : Reset(c)

Spec == Init /\ [][Next]_vars
-----------------------------------------------------------------------------
Entries == [key: Keys, val: Vals]

TypeOK ==
    /\ cap \in Nat /\ cap > 0 /\ cap = 2 * Pairs
    /\ slots \in [0..(cap - 1) -> Entries \cup {Absent}]
    /\ len \in Nat
    /\ miss = None \/ miss \in [active: {TRUE}, key: Keys, slot: DOMAIN slots]
    /\ grow = None \/ grow \in [active: {TRUE}, old: [0..(Pairs - 1) -> Entries \cup {Absent}],
                               next: 0..Pairs, key: Keys, val: Vals]
    /\ result \in Vals \cup {Absent}

Used(array) == {s \in DOMAIN array : array[s] # Absent}

(* Slots of the old array that grow has still to move. *)
Unmoved == IF grow.active THEN {s \in Used(grow.old) : s >= grow.next} ELSE {}

(* len counts what the table holds, or is about to hold again, within 3/4 of it: "load
   < 1 guarantees" an empty slot to every walk. *)
LoadBounded ==
    /\ len = Cardinality(Used(slots)) + Cardinality(Unmoved)
    /\ len * 4 <= cap * 3

(* No hole before an entry: the walk for a stored key comes to its slot before any pair
   with an empty slot. *)
Reachable == \A s \in Used(slots) : Finds(slots[s].key, s)

(* The debug assertion of insert_at: the slot a failed lookup reported is where
   first_empty would put the key, and the key is still absent. *)
MissSlotValid ==
    miss.active => ~Found(miss.key) /\ IsFirstEmpty(miss.key, miss.slot)

(***************************************************************************)
(* Every walk ends, and where it should, also after growth re-homed the    *)
(* entries and in the middle of a growth: the walk for a stored key, the   *)
(* walk for an absent one, and the walk whose end a caller remembers.      *)
(***************************************************************************)
WalksRight == LoadBounded /\ Reachable /\ MissSlotValid

(* What is stored under k, wherever a growth in progress has it now. *)
ValueOf(k) ==
    IF \E s \in Used(slots) : slots[s].key = k
    THEN slots[CHOOSE s \in Used(slots) : slots[s].key = k].val
    ELSE IF \E s \in Unmoved : grow.old[s].key = k
    THEN grow.old[CHOOSE s \in Unmoved : grow.old[s].key = k].val
    ELSE Absent

Map == INSTANCE KeyStore WITH content <- [k \in Keys |-> ValueOf(k)]

(* The table is a map: lookups answer with what was stored last, and growth and
   walks are invisible. *)
ImplementsStore == Map!Spec
=============================================================================
