------------------------------- MODULE SpCache ------------------------------
(***************************************************************************)
(* EncodeState of src/src/bpe/sentencepiece.rs, the caches that            *)
(* encode_unit asks before it merges: a direct-mapped front cache and a    *)
(* map for the keys that pack into 15 bytes, a map for the longer ones,    *)
(* and the arena of token ids their entries are slices of.  They share a   *)
(* byte budget, and a miss that finds it spent wipes them all.  A key is   *)
(* the unit's bytes, behind a space when the unit is prefixed: two units   *)
(* with one key encode alike.                                              *)
(***************************************************************************)
EXTENDS Integers, Sequences, FiniteSets

CONSTANTS
    Keys,          \* cache keys of the units that come
    KeyBytes,      \* their lengths
    Encoding,      \* what each is merged to
    MaxEncoding,   \* the length of the longest
    PackMax,       \* 15: a longer key does not pack
    Slots,         \* of the front cache
    FrontIndex,    \* the slot of a key
    EntryBytes,    \* SHORT_ENTRY_BYTES and LONG_ENTRY_BYTES
    TokenBytes,    \* 4
    Budgets,       \* byte budgets of the growing caches
    OffsetLimit,   \* 2^32: offsets and lengths are u32
    NoKey,         \* an empty front slot
    Undefined      \* what is read beyond the end of the arena

ASSUME KeysAssumption ==
    /\ IsFiniteSet(Keys) /\ NoKey \notin Keys
    /\ KeyBytes \in [Keys -> Nat] /\ FrontIndex \in [Keys -> Slots]
    /\ MaxEncoding \in Nat
    /\ \A k \in Keys : Encoding[k] \in Seq(Nat) /\ Len(Encoding[k]) <= MaxEncoding
    /\ PackMax \in Nat /\ EntryBytes \in Nat /\ TokenBytes \in Nat \ {0}
    /\ Budgets \subseteq Nat /\ OffsetLimit \in Nat \ {0}

(* No budget lets the arena grow past what an offset can say. *)
ASSUME OffsetsFit ==
    \A b \in Budgets : b + 2 * MaxEncoding * TokenBytes < OffsetLimit * TokenBytes

VARIABLES
    budget,           \* of this state
    arena,            \* the token ids
    front,            \* [key, entry] of each slot
    short, long,      \* key -> [offset, len]
    long_bytes_used,
    max_encoding,     \* the longest encoding so far
    emitted           \* the unit encoded last and the answer

vars == <<budget, arena, front, short, long, long_bytes_used, max_encoding, emitted>>

NoEntry == [offset |-> 0, len |-> 0]
NoMap == [k \in {} |-> NoEntry]
EmptyFront == [s \in Slots |-> [key |-> NoKey, entry |-> NoEntry]]

(* with_budget. *)
Init ==
    /\ budget \in Budgets
    /\ arena = <<>> /\ front = EmptyFront /\ short = NoMap /\ long = NoMap
    /\ long_bytes_used = 0 /\ max_encoding = 0
    /\ emitted \in {[key |-> k, tokens |-> Encoding[k]] : k \in Keys}

Packed(k) == KeyBytes[k] <= PackMax
Cached(k) == k \in DOMAIN (IF Packed(k) THEN short ELSE long)
InFront(k) == Packed(k) /\ front[FrontIndex[k]].key = k
With(map, k, entry) == [j \in DOMAIN map \cup {k} |-> IF j = k THEN entry ELSE map[j]]
ToFront(f, k, entry) ==
    IF Packed(k) THEN [f EXCEPT ![FrontIndex[k]] = [key |-> k, entry |-> entry]] ELSE f

(* An unchecked slice of the arena. *)
Read(entry) ==
    IF entry.offset + entry.len <= Len(arena)
    THEN SubSeq(arena, entry.offset + 1, entry.offset + entry.len) ELSE Undefined
Emit(k, tokens) == emitted' = [key |-> k, tokens |-> tokens]

Footprint == Cardinality(DOMAIN short) * EntryBytes + long_bytes_used + Len(arena) * TokenBytes

(* Bug: the token ids are not part of the bill. *)
OverBudgetMapsOnly ==
    Cardinality(DOMAIN short) * EntryBytes + long_bytes_used > budget + max_encoding * TokenBytes

(* Bug: no slack for the largest encoding. *)
OverBudgetNoSlack == Footprint > budget

OverBudget == Footprint > budget + max_encoding * TokenBytes

(* encode_unit, the front cache answers. *)
FrontHit(k) ==
    /\ InFront(k)
    /\ Emit(k, Read(front[FrontIndex[k]].entry))
    /\ UNCHANGED <<budget, arena, front, short, long, long_bytes_used, max_encoding>>

(* One of the maps answers, and the front cache takes note. *)
MapHit(k) ==
    /\ ~InFront(k) /\ Cached(k)
    /\ LET entry == IF Packed(k) THEN short[k] ELSE long[k]
       IN  Emit(k, Read(entry)) /\ front' = ToFront(front, k, entry)
    /\ UNCHANGED <<budget, arena, short, long, long_bytes_used, max_encoding>>

(* Bug: the front cache, which does not count, is not wiped. *)
KeptFront(wiped) ==
    IF wiped THEN [arena |-> <<>>, front |-> front, short |-> NoMap, long |-> NoMap, used |-> 0]
    ELSE [arena |-> arena, front |-> front, short |-> short, long |-> long, used |-> long_bytes_used]

(* What a miss builds on: the caches as they are, or wiped. *)
Kept(wiped) ==
    IF wiped THEN [arena |-> <<>>, front |-> EmptyFront, short |-> NoMap, long |-> NoMap, used |-> 0]
    ELSE [arena |-> arena, front |-> front, short |-> short, long |-> long, used |-> long_bytes_used]

(* Nobody answers: wipe if the budget is spent, merge, record. *)
Miss(k) ==
    /\ ~InFront(k) /\ ~Cached(k)
    /\ LET base == Kept(OverBudget)
           size == Len(Encoding[k])
           entry == [offset |-> Len(base.arena) % OffsetLimit, len |-> size % OffsetLimit]
       IN  /\ arena' = base.arena \o Encoding[k]
           /\ front' = ToFront(base.front, k, entry)
           /\ short' = IF Packed(k) THEN With(base.short, k, entry) ELSE base.short
           /\ long' = IF Packed(k) THEN base.long ELSE With(base.long, k, entry)
           /\ long_bytes_used' = IF Packed(k) THEN base.used ELSE base.used + KeyBytes[k] + EntryBytes
           /\ max_encoding' = IF size > max_encoding THEN size ELSE max_encoding
    /\ Emit(k, Encoding[k])
    /\ UNCHANGED budget

EncodeUnit(k) == FrontHit(k) \/ MapHit(k) \/ Miss(k)

Next == \E k \in Keys : EncodeUnit(k)
Spec == Init /\ [][Next]_vars
-----------------------------------------------------------------------------
(***************************************************************************)
(* A unit is answered with its own encoding, whoever answers: no entry of  *)
(* the front cache or the maps outlives the arena it points into, and no   *)
(* entry is recorded where the tokens do not go.                           *)
(***************************************************************************)
EmitsEncoding == emitted.tokens = Encoding[emitted.key]

(***************************************************************************)
(* "stays within the budget (plus the documented giant-encoding slack)":   *)
(* what the growing caches hold exceeds it by one entry at most, the last. *)
(***************************************************************************)
Cost(k) ==
    EntryBytes + Len(Encoding[k]) * TokenBytes + IF Packed(k) THEN 0 ELSE KeyBytes[k]
WithinBudget ==
    \/ Footprint <= budget + max_encoding * TokenBytes
    \/ \E k \in DOMAIN short \cup DOMAIN long :
          Footprint <= budget + max_encoding * TokenBytes + Cost(k)

(***************************************************************************)
(* "one recurring giant unit must not force a wipe per occurrence": after  *)
(* a wipe there is room again, however long the encoding that was recorded *)
(* first, if only its key and its entry fit the budget.                    *)
(***************************************************************************)
RoomAfterWipe ==
    [][\A k \in Keys :
          Miss(k) /\ OverBudget /\ Cost(k) - Len(Encoding[k]) * TokenBytes <= budget => ~OverBudget']_vars
=============================================================================
