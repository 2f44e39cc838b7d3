---------------------------- MODULE SpCacheProofs ---------------------------
(* Theorems about SpCache, for every set of keys, encodings, sizes and budgets. *)
EXTENDS SpCache, FiniteSetTheorems, SequenceTheorems, TLAPS

Entry == [offset: Nat, len: Nat]

(* The tokens of key k stand in the arena a where the entry says. *)
Holds(a, k, entry) ==
    /\ entry.len = Len(Encoding[k]) /\ entry.offset + entry.len <= Len(a)
    /\ \A i \in 1..entry.len : a[entry.offset + i] = Encoding[k][i]

(* Every entry of front cache f and of a map belongs to its key, and points to its
   tokens in arena a; the same of all the caches c. *)
FrontSound(a, f) ==
    /\ f \in [Slots -> [key: Keys \cup {NoKey}, entry: Entry]]
    /\ \A s \in Slots : f[s].key # NoKey => Holds(a, f[s].key, f[s].entry)
MapSound(a, map) ==
    DOMAIN map \subseteq Keys /\ \A k \in DOMAIN map : map[k] \in Entry /\ Holds(a, k, map[k])
Sound(c) ==
    /\ c.arena \in Seq(Nat) /\ c.used \in Nat
    /\ FrontSound(c.arena, c.front) /\ MapSound(c.arena, c.short) /\ MapSound(c.arena, c.long)

Caches == [arena |-> arena, front |-> front, short |-> short, long |-> long, used |-> long_bytes_used]

IInv ==
    /\ budget \in Budgets /\ max_encoding \in 0..MaxEncoding
    /\ Sound(Caches) /\ emitted.key \in Keys /\ EmitsEncoding

-----------------------------------------------------------------------------
(* Numbers: an arena within the budget is shorter than any offset limit. *)
LEMMA OffsetFits ==
    ASSUME NEW n \in Nat, NEW m \in Nat, NEW top \in Nat, NEW limit \in Nat,
           NEW b \in Nat, NEW size \in Nat \ {0}, NEW x \in Nat,
           x + n * size <= b + m * size, m <= top, b + 2 * top * size < limit * size
    PROVE  n < limit /\ top < limit
<1>1. m * size <= top * size /\ top * size \in Nat /\ m * size \in Nat /\ n * size \in Nat
  <2>1. (top - m) * size >= 0
    <3>1. top - m \in Nat
      OBVIOUS
    <3> QED
      BY <3>1
  <2>2. (top - m) * size = top * size - m * size
    OBVIOUS
  <2> QED
    BY <2>1, <2>2
<1>2. 2 * top * size = top * size + top * size
  OBVIOUS
<1>3. n * size < limit * size /\ top * size < limit * size
  BY <1>1, <1>2
<1>4. ASSUME NEW p \in Nat, p * size < limit * size PROVE p < limit
  <2>1. SUFFICES ASSUME p >= limit PROVE FALSE
    OBVIOUS
  <2>2. p - limit \in Nat
    BY <2>1
  <2>3. (p - limit) * size >= 0
    BY <2>2
  <2>4. (p - limit) * size = p * size - limit * size
    OBVIOUS
  <2> QED
    BY <2>3, <2>4, <1>4
<1> QED
  BY <1>3, <1>4

(* Appending to the arena leaves what entries point to where it is. *)
LEMMA AppendHolds ==
    ASSUME NEW a \in Seq(Nat), NEW e \in Seq(Nat), NEW k \in Keys, NEW entry \in Entry,
           Holds(a, k, entry)
    PROVE  Holds(a \o e, k, entry)
<1>1. /\ Len(a \o e) = Len(a) + Len(e) /\ Len(a) \in Nat /\ Len(e) \in Nat
      /\ \A i \in 1 .. Len(a) + Len(e) : (a \o e)[i] = IF i <= Len(a) THEN a[i] ELSE e[i - Len(a)]
  BY ConcatProperties, LenProperties
<1>2. entry.offset \in Nat /\ entry.len \in Nat
  BY DEF Entry
<1> QED
  BY <1>1, <1>2, SMTT(30) DEF Holds

(* The entry that is recorded for a key points to the tokens just appended. *)
LEMMA NewHolds ==
    ASSUME NEW a \in Seq(Nat), NEW k \in Keys
    PROVE  Holds(a \o Encoding[k], k, [offset |-> Len(a), len |-> Len(Encoding[k])])
<1> DEFINE e == Encoding[k]
<1>1. e \in Seq(Nat)
  BY KeysAssumption
<1> HIDE DEF e
<1>2. /\ Len(a \o e) = Len(a) + Len(e) /\ Len(a) \in Nat /\ Len(e) \in Nat
      /\ \A i \in 1 .. Len(a) + Len(e) : (a \o e)[i] = IF i <= Len(a) THEN a[i] ELSE e[i - Len(a)]
  BY <1>1, ConcatProperties, LenProperties
<1>3. \A i \in 1..Len(e) : (a \o e)[Len(a) + i] = e[i]
  BY <1>2
<1>4. e = Encoding[k]
  BY DEF e
<1> QED
  BY <1>2, <1>3, <1>4 DEF Holds

(* Reading a good entry gives the encoding. *)
LEMMA ReadHolds ==
    ASSUME arena \in Seq(Nat), NEW k \in Keys, NEW entry \in Entry, Holds(arena, k, entry)
    PROVE  Read(entry) = Encoding[k]
<1> DEFINE e == Encoding[k]
           lo == entry.offset + 1
           hi == entry.offset + entry.len
           cut == SubSeq(arena, lo, hi)
<1>1. e \in Seq(Nat)
  BY KeysAssumption
<1>2. /\ entry.offset \in Nat /\ entry.len \in Nat /\ Len(arena) \in Nat
      /\ entry.len = Len(e) /\ hi <= Len(arena)
      /\ \A i \in 1..entry.len : arena[entry.offset + i] = e[i]
  BY LenProperties DEF Holds, Entry
<1>3. \A i \in lo..hi : arena[i] \in Nat
  BY <1>2, LenProperties
<1>4. /\ cut \in Seq(Nat) /\ Len(cut) = IF lo <= hi THEN hi - lo + 1 ELSE 0
      /\ \A i \in 1 .. hi - lo + 1 : cut[i] = arena[lo + i - 1]
  <2>1. lo \in Int /\ hi \in Int
    BY <1>2
  <2> HIDE DEF lo, hi
  <2> QED
    BY <1>3, <2>1, SubSeqProperties
<1>5. Len(cut) = Len(e)
  BY <1>2, <1>4, SMTT(30)
<1>6. \A i \in 1..Len(cut) : cut[i] = e[i]
  <2>1. \A i \in 1..entry.len : lo + i - 1 = entry.offset + i /\ i \in 1 .. hi - lo + 1
    BY <1>2
  <2> QED
    BY <1>2, <1>4, <1>5, <2>1
<1>7. cut = e
  <2> HIDE DEF cut, e
  <2> QED
    BY <1>1, <1>4, <1>5, <1>6, SeqEqual
<1>8. Read(entry) = cut
  BY <1>2 DEF Read
<1> QED
  BY <1>7, <1>8

(* The caches that a miss builds on are sound, and their arena has room. *)
LEMMA KeptSound ==
    ASSUME IInv
    PROVE  Sound(Kept(OverBudget)) /\ Len(Kept(OverBudget).arena) \in 0..(OffsetLimit - 1)
<1>1. CASE OverBudget
  <2> DEFINE c == Kept(TRUE)
  <2>1. /\ c.arena = <<>> /\ c.front = EmptyFront /\ c.short = NoMap /\ c.long = NoMap /\ c.used = 0
    BY DEF Kept
  <2>7. Kept(OverBudget) = c
    BY <1>1 DEF Kept
  <2> HIDE DEF c
  <2>2. FrontSound(c.arena, c.front)
    <3>1. EmptyFront \in [Slots -> [key: Keys \cup {NoKey}, entry: Entry]]
      BY DEF EmptyFront, NoEntry, Entry
    <3>2. \A s \in Slots : EmptyFront[s].key = NoKey
      BY DEF EmptyFront
    <3> QED
      BY <2>1, <3>1, <3>2 DEF FrontSound
  <2>3. MapSound(c.arena, NoMap)
    BY DEF MapSound, NoMap
  <2>4. c.arena \in Seq(Nat) /\ Len(c.arena) = 0
    BY <2>1, EmptySeq
  <2>5. Sound(c)
    BY <2>1, <2>2, <2>3, <2>4 DEF Sound
  <2>6. Len(c.arena) \in 0..(OffsetLimit - 1)
    BY <2>4, KeysAssumption
  <2> QED
    BY <2>5, <2>6, <2>7
<1>2. CASE ~OverBudget
  <2>1. Kept(OverBudget) = Caches
    BY <1>2 DEF Kept, Caches
  <2>2. Sound(Caches)
    BY DEF IInv
  <2>3. Caches.arena = arena /\ arena \in Seq(Nat) /\ Len(arena) \in Nat
    BY <2>2, LenProperties DEF Sound, Caches
  <2>4. Cardinality(DOMAIN short) \in Nat
    <3>1. DOMAIN short \subseteq Keys
      BY <2>2 DEF Sound, MapSound, Caches
    <3> QED
      BY <3>1, KeysAssumption, FS_Subset, FS_CardinalityType
  <2>5. long_bytes_used \in Nat
    BY <2>2 DEF Sound, Caches
  <2>6. Cardinality(DOMAIN short) * EntryBytes \in Nat
    BY <2>4, KeysAssumption
  <2> DEFINE other == Cardinality(DOMAIN short) * EntryBytes + long_bytes_used
  <2>7. other \in Nat
    BY <2>5, <2>6
  <2>8. other + Len(arena) * TokenBytes <= budget + max_encoding * TokenBytes
    <3>1. Footprint \in Int /\ budget + max_encoding * TokenBytes \in Int
      BY <2>3, <2>5, <2>6, KeysAssumption DEF Footprint, IInv
    <3> QED
      BY <1>2, <3>1 DEF OverBudget, Footprint
  <2>9. budget \in Nat /\ max_encoding \in Nat /\ max_encoding <= MaxEncoding
        /\ MaxEncoding \in Nat /\ TokenBytes \in Nat \ {0} /\ OffsetLimit \in Nat
        /\ budget + 2 * MaxEncoding * TokenBytes < OffsetLimit * TokenBytes
    BY KeysAssumption, OffsetsFit DEF IInv
  <2> HIDE DEF other
  <2>10. Len(arena) < OffsetLimit
    BY <2>3, <2>7, <2>8, <2>9, OffsetFits
  <2> QED
    BY <2>1, <2>2, <2>3, <2>9, <2>10
<1> QED
  BY <1>1, <1>2

(* An encoding is shorter than any length limit. *)
LEMMA LengthFits ==
    ASSUME IInv, NEW k \in Keys
    PROVE  Len(Encoding[k]) \in 0..MaxEncoding /\ MaxEncoding < OffsetLimit
<1>1. Len(Encoding[k]) \in Nat /\ Len(Encoding[k]) <= MaxEncoding
  BY KeysAssumption, LenProperties
<1>2. budget \in Nat /\ MaxEncoding \in Nat /\ TokenBytes \in Nat \ {0} /\ OffsetLimit \in Nat
      /\ budget + 2 * MaxEncoding * TokenBytes < OffsetLimit * TokenBytes
  BY KeysAssumption, OffsetsFit DEF IInv
<1>3. 0 + 0 * TokenBytes <= budget + 0 * TokenBytes
  BY <1>2
<1>4. MaxEncoding < OffsetLimit
  BY <1>2, <1>3, OffsetFits
<1> QED
  BY <1>1, <1>2, <1>4

LEMMA InitInv == Init => IInv
<1> SUFFICES ASSUME Init PROVE IInv
  OBVIOUS
<1>1. FrontSound(arena, front)
  <2>1. EmptyFront \in [Slots -> [key: Keys \cup {NoKey}, entry: Entry]]
    BY DEF EmptyFront, NoEntry, Entry
  <2>2. \A s \in Slots : EmptyFront[s].key = NoKey
    BY DEF EmptyFront
  <2> QED
    BY <2>1, <2>2 DEF FrontSound, Init
<1>2. MapSound(arena, short) /\ MapSound(arena, long)
  BY DEF MapSound, NoMap, Init
<1>3. arena \in Seq(Nat)
  BY EmptySeq DEF Init
<1>4. Sound(Caches)
  BY <1>1, <1>2, <1>3 DEF Sound, Caches, Init
<1>5. emitted.key \in Keys /\ EmitsEncoding
  BY DEF Init, EmitsEncoding
<1> QED
  BY <1>4, <1>5, KeysAssumption DEF IInv, Init

(* A hit reads a good entry, and may copy it into its own front slot. *)
LEMMA HitInv ==
    ASSUME IInv, NEW k \in Keys, FrontHit(k) \/ MapHit(k)
    PROVE  IInv'
<1> USE DEF IInv
<1>1. CASE FrontHit(k)
  <2> DEFINE entry == front[FrontIndex[k]].entry
  <2>1. Holds(arena, k, entry) /\ entry \in Entry /\ arena \in Seq(Nat)
    <3>1. FrontIndex[k] \in Slots /\ k # NoKey
      BY KeysAssumption
    <3> QED
      BY <1>1, <3>1 DEF FrontHit, InFront, Sound, FrontSound, Caches
  <2>2. Read(entry) = Encoding[k]
    BY <2>1, ReadHolds
  <2>3. emitted' = [key |-> k, tokens |-> Encoding[k]]
    BY <1>1, <2>2 DEF FrontHit, Emit
  <2>4. Sound(Caches)' /\ budget' = budget /\ max_encoding' = max_encoding
    <3>1. Caches' = Caches
      BY <1>1 DEF FrontHit, Caches
    <3> QED
      BY <1>1, <3>1 DEF FrontHit, Sound, FrontSound, MapSound
  <2> QED
    BY <2>3, <2>4 DEF EmitsEncoding
<1>2. CASE MapHit(k)
  <2> DEFINE entry == IF Packed(k) THEN short[k] ELSE long[k]
  <2>1. Holds(arena, k, entry) /\ entry \in Entry /\ arena \in Seq(Nat)
    <3>1. MapSound(arena, short) /\ MapSound(arena, long) /\ arena \in Seq(Nat)
      BY DEF Sound, Caches
    <3>2. IF Packed(k) THEN k \in DOMAIN short ELSE k \in DOMAIN long
      BY <1>2 DEF MapHit, Cached
    <3> QED
      BY <3>1, <3>2 DEF MapSound
  <2>2. Read(entry) = Encoding[k]
    BY <2>1, ReadHolds
  <2>3. emitted' = [key |-> k, tokens |-> Encoding[k]]
    BY <1>2, <2>2 DEF MapHit, Emit
  <2>4. /\ budget' = budget /\ max_encoding' = max_encoding /\ arena' = arena
        /\ short' = short /\ long' = long /\ long_bytes_used' = long_bytes_used
        /\ front' = ToFront(front, k, entry)
    BY <1>2 DEF MapHit
  <2>5. FrontSound(arena', front')
    <3> HIDE DEF entry
    <3>1. FrontIndex[k] \in Slots
      BY KeysAssumption
    <3>2. FrontSound(arena, front)
      BY DEF Sound, Caches
    <3> QED
      BY <2>1, <2>4, <3>1, <3>2 DEF FrontSound, ToFront
  <2>6. MapSound(arena', short') /\ MapSound(arena', long')
    BY <2>4 DEF Sound, MapSound, Caches
  <2>7. Sound(Caches')
    BY <2>1, <2>4, <2>5, <2>6 DEF Sound, Caches
  <2> QED
    BY <2>3, <2>4, <2>7 DEF EmitsEncoding
<1> QED
  BY <1>1, <1>2

(* A map that gains the entry of a key stays sound. *)
LEMMA WithSound ==
    ASSUME NEW a \in Seq(Nat), NEW map, NEW k \in Keys, NEW entry \in Entry,
           MapSound(a, map), Holds(a \o Encoding[k], k, entry)
    PROVE  MapSound(a \o Encoding[k], map) /\ MapSound(a \o Encoding[k], With(map, k, entry))
<1>1. Encoding[k] \in Seq(Nat)
  BY KeysAssumption
<1>2. \A j \in DOMAIN map : j \in Keys /\ map[j] \in Entry /\ Holds(a \o Encoding[k], j, map[j])
  BY <1>1, AppendHolds DEF MapSound
<1>3. MapSound(a \o Encoding[k], map)
  BY <1>2 DEF MapSound
<1>4. DOMAIN With(map, k, entry) = DOMAIN map \cup {k}
      /\ \A j \in DOMAIN map \cup {k} : With(map, k, entry)[j] = IF j = k THEN entry ELSE map[j]
  BY DEF With
<1>5. MapSound(a \o Encoding[k], With(map, k, entry))
  BY <1>2, <1>4 DEF MapSound
<1> QED
  BY <1>3, <1>5

(* So does the front cache. *)
LEMMA ToFrontSound ==
    ASSUME NEW a \in Seq(Nat), NEW f, NEW k \in Keys, NEW entry \in Entry,
           FrontSound(a, f), Holds(a \o Encoding[k], k, entry)
    PROVE  FrontSound(a \o Encoding[k], ToFront(f, k, entry))
<1>1. Encoding[k] \in Seq(Nat) /\ FrontIndex[k] \in Slots
  BY KeysAssumption
<1>2. ToFront(f, k, entry) \in [Slots -> [key: Keys \cup {NoKey}, entry: Entry]]
  BY <1>1 DEF FrontSound, ToFront
<1>3. ASSUME NEW s \in Slots, f[s].key # NoKey
      PROVE  Holds(a \o Encoding[k], f[s].key, f[s].entry)
  <2>1. f[s].key \in Keys /\ f[s].entry \in Entry /\ Holds(a, f[s].key, f[s].entry)
    BY <1>3 DEF FrontSound
  <2> QED
    BY <1>1, <2>1, AppendHolds
<1>4. \A s \in Slots : \/ ToFront(f, k, entry)[s] = [key |-> k, entry |-> entry]
                       \/ ToFront(f, k, entry)[s] = f[s]
  BY <1>1 DEF FrontSound, ToFront
<1> QED
  BY <1>2, <1>3, <1>4 DEF FrontSound

(* A miss records where its tokens go, after whatever was kept. *)
LEMMA MissInv ==
    ASSUME IInv, NEW k \in Keys, Miss(k)
    PROVE  IInv'
<1> DEFINE base == Kept(OverBudget)
           entry == [offset |-> Len(base.arena) % OffsetLimit, len |-> Len(Encoding[k]) % OffsetLimit]
<1>1. /\ arena' = base.arena \o Encoding[k]
      /\ front' = ToFront(base.front, k, entry)
      /\ short' = IF Packed(k) THEN With(base.short, k, entry) ELSE base.short
      /\ long' = IF Packed(k) THEN base.long ELSE With(base.long, k, entry)
      /\ long_bytes_used' = IF Packed(k) THEN base.used ELSE base.used + KeyBytes[k] + EntryBytes
      /\ max_encoding' = IF Len(Encoding[k]) > max_encoding THEN Len(Encoding[k]) ELSE max_encoding
      /\ emitted' = [key |-> k, tokens |-> Encoding[k]]
      /\ budget' = budget
  BY DEF Miss, Emit
<1>2. Sound(base) /\ Len(base.arena) \in 0..(OffsetLimit - 1)
  BY KeptSound
<1>3. Len(Encoding[k]) \in 0..MaxEncoding /\ MaxEncoding < OffsetLimit
  BY LengthFits
<1>4. entry = [offset |-> Len(base.arena), len |-> Len(Encoding[k])] /\ entry \in Entry
  <2>1. OffsetLimit \in Nat \ {0} /\ MaxEncoding \in Nat
    BY KeysAssumption
  <2>2. \A n \in 0..(OffsetLimit - 1) : n % OffsetLimit = n /\ n \in Nat
    BY <2>1
  <2>3. Len(Encoding[k]) \in 0..(OffsetLimit - 1)
    BY <1>3, <2>1
  <2> QED
    BY <1>2, <2>2, <2>3 DEF Entry
<1> HIDE DEF entry, base
<1>5. /\ base.arena \in Seq(Nat) /\ base.used \in Nat /\ FrontSound(base.arena, base.front)
      /\ MapSound(base.arena, base.short) /\ MapSound(base.arena, base.long)
  BY <1>2 DEF Sound
<1>6. Holds(base.arena \o Encoding[k], k, entry)
  BY <1>4, <1>5, NewHolds
<1>7. FrontSound(arena', front')
  BY <1>1, <1>4, <1>5, <1>6, ToFrontSound
<1>8. /\ MapSound(arena', base.short) /\ MapSound(arena', With(base.short, k, entry))
      /\ MapSound(arena', base.long) /\ MapSound(arena', With(base.long, k, entry))
  BY <1>1, <1>4, <1>5, <1>6, WithSound
<1>9. MapSound(arena', short') /\ MapSound(arena', long')
  BY <1>1, <1>8
<1>10. arena' \in Seq(Nat) /\ long_bytes_used' \in Nat
  <2>1. KeyBytes[k] \in Nat /\ EntryBytes \in Nat /\ Encoding[k] \in Seq(Nat)
    BY KeysAssumption
  <2>2. base.arena \o Encoding[k] \in Seq(Nat)
    BY <1>5, <2>1, ConcatProperties
  <2> QED
    BY <1>1, <1>5, <2>1, <2>2
<1>11. Sound(Caches)'
  BY <1>7, <1>9, <1>10 DEF Sound, Caches
<1>12. max_encoding' \in 0..MaxEncoding
  BY <1>1, <1>3 DEF IInv
<1> QED
  BY <1>1, <1>11, <1>12 DEF IInv, EmitsEncoding

LEMMA StepInv == IInv /\ [Next]_vars => IInv'
<1> SUFFICES ASSUME IInv, [Next]_vars PROVE IInv'
  OBVIOUS
<1>1. CASE Next
  <2>1. PICK k \in Keys : EncodeUnit(k)
    BY <1>1 DEF Next
  <2>2. CASE FrontHit(k) \/ MapHit(k)
    BY <2>2, HitInv
  <2>3. CASE Miss(k)
    BY <2>3, MissInv
  <2> QED
    BY <2>1, <2>2, <2>3 DEF EncodeUnit
<1>2. CASE UNCHANGED vars
  BY <1>2 DEF vars, IInv, Sound, FrontSound, MapSound, Caches, EmitsEncoding
<1> QED
  BY <1>1, <1>2

THEOREM SpecInv == Spec => []IInv
<1> QED
  BY InitInv, StepInv, PTL DEF Spec

(***************************************************************************)
(* encode_unit answers a unit with its own encoding, whatever the budget,  *)
(* the encodings and the order of hits, misses and wipes, as long as the   *)
(* budget keeps the arena under the limit of its u32 offsets: an entry of  *)
(* the front cache or a map always points to the tokens of its key.        *)
(***************************************************************************)
THEOREM EncodesItsUnit == Spec => []EmitsEncoding
<1>1. IInv => EmitsEncoding
  BY DEF IInv
<1> QED
  BY <1>1, SpecInv, PTL

-----------------------------------------------------------------------------
(* What the growing caches hold is a number. *)
LEMMA FootprintType ==
    ASSUME IInv
    PROVE  /\ IsFiniteSet(DOMAIN short) /\ Cardinality(DOMAIN short) \in Nat
           /\ long_bytes_used \in Nat /\ Len(arena) \in Nat /\ arena \in Seq(Nat)
           /\ Footprint \in Nat /\ budget \in Nat /\ max_encoding * TokenBytes \in Nat
<1>1. DOMAIN short \subseteq Keys /\ long_bytes_used \in Nat /\ arena \in Seq(Nat)
  BY DEF IInv, Sound, MapSound, Caches
<1>2. IsFiniteSet(DOMAIN short) /\ Cardinality(DOMAIN short) \in Nat
  BY <1>1, KeysAssumption, FS_Subset, FS_CardinalityType
<1>3. Len(arena) \in Nat
  BY <1>1, LenProperties
<1>4. /\ EntryBytes \in Nat /\ TokenBytes \in Nat /\ max_encoding \in Nat
      /\ budget \in Nat
  BY KeysAssumption DEF IInv
<1>5. \A m, n \in Nat : m * n \in Nat
  OBVIOUS
<1>6. /\ Cardinality(DOMAIN short) * EntryBytes \in Nat /\ Len(arena) * TokenBytes \in Nat
      /\ max_encoding * TokenBytes \in Nat
  BY <1>2, <1>3, <1>4, <1>5
<1>7. Footprint \in Nat
  BY <1>1, <1>6 DEF Footprint
<1> QED
  BY <1>1, <1>2, <1>3, <1>4, <1>6, <1>7

(* Numbers: an entry more, and its tokens. *)
LEMMA AddEntry ==
    ASSUME NEW c \in Nat, NEW e \in Nat, NEW b \in Nat, NEW n \in Nat, NEW t \in Nat, NEW u \in Nat,
           NEW kb \in Nat
    PROVE  /\ (c + 1) * e + u + (b + n) * t = (c * e + u + b * t) + (e + n * t + 0)
           /\ c * e + (u + kb + e) + (b + n) * t = (c * e + u + b * t) + (e + n * t + kb)
<1>1. (c + 1) * e = c * e + e /\ (b + n) * t = b * t + n * t
  OBVIOUS
<1>2. c * e \in Nat /\ b * t \in Nat /\ n * t \in Nat
  <2>1. \A x, y \in Nat : x * y \in Nat
    OBVIOUS
  <2> QED
    BY <2>1
<1> QED
  BY <1>1, <1>2

(* A miss adds what its entry costs to what was kept: all, or nothing. *)
LEMMA MissFootprint ==
    ASSUME IInv, NEW k \in Keys, Miss(k)
    PROVE  /\ Cost(k) \in Nat
           /\ Footprint' = (IF OverBudget THEN 0 ELSE Footprint) + Cost(k)
<1> DEFINE n == Len(Encoding[k])
<1>1. /\ n \in Nat /\ KeyBytes[k] \in Nat /\ EntryBytes \in Nat /\ TokenBytes \in Nat
      /\ Encoding[k] \in Seq(Nat) /\ n * TokenBytes \in Nat
  BY KeysAssumption, LengthFits
<1>2. Cost(k) \in Nat
  BY <1>1 DEF Cost
<1> DEFINE base == Kept(OverBudget)
           c == Cardinality(DOMAIN base.short)
<1>3. /\ base.arena \in Seq(Nat) /\ Len(base.arena) \in Nat /\ base.used \in Nat
      /\ IsFiniteSet(DOMAIN base.short) /\ c \in Nat /\ (Packed(k) => k \notin DOMAIN base.short)
      /\ c * EntryBytes + base.used + Len(base.arena) * TokenBytes = IF OverBudget THEN 0 ELSE Footprint
  <2>1. CASE OverBudget
    <3>1. base.arena = <<>> /\ base.used = 0 /\ DOMAIN base.short = {}
      BY <2>1 DEF Kept, NoMap
    <3>2. c = 0 /\ IsFiniteSet({})
      BY <3>1, FS_EmptySet
    <3>3. Len(base.arena) = 0 /\ base.arena \in Seq(Nat)
      BY <3>1, EmptySeq
    <3> HIDE DEF base, c
    <3> QED
      BY <2>1, <3>1, <3>2, <3>3, <1>1
  <2>2. CASE ~OverBudget
    <3>1. base.arena = arena /\ base.used = long_bytes_used /\ base.short = short
      BY <2>2 DEF Kept
    <3>2. c = Cardinality(DOMAIN short)
      BY <3>1
    <3>3. Packed(k) => k \notin DOMAIN short
      BY DEF Miss, Cached
    <3> HIDE DEF base, c
    <3> QED
      BY <2>2, <3>1, <3>2, <3>3, FootprintType DEF Footprint
  <2> QED
    BY <2>1, <2>2
<1>4. /\ arena' = base.arena \o Encoding[k]
      /\ DOMAIN short' = IF Packed(k) THEN DOMAIN base.short \cup {k} ELSE DOMAIN base.short
      /\ long_bytes_used' = IF Packed(k) THEN base.used ELSE base.used + KeyBytes[k] + EntryBytes
  BY DEF Miss, With
<1>5. Cardinality(DOMAIN short') = IF Packed(k) THEN c + 1 ELSE c
  BY <1>3, <1>4, FS_AddElement
<1>6. Len(arena') = Len(base.arena) + n
  BY <1>1, <1>3, <1>4, ConcatProperties
<1> DEFINE b == Len(base.arena)
           u == base.used
           before == c * EntryBytes + u + b * TokenBytes
<1>7. c \in Nat /\ b \in Nat /\ u \in Nat
  BY <1>3
<1>8. before = IF OverBudget THEN 0 ELSE Footprint
  BY <1>3
<1>9. CASE Packed(k)
  <2>1. Footprint' = (c + 1) * EntryBytes + u + (b + n) * TokenBytes
    BY <1>4, <1>5, <1>6, <1>9 DEF Footprint
  <2>2. Cost(k) = EntryBytes + n * TokenBytes + 0
    BY <1>9 DEF Cost
  <2> HIDE DEF c, b, u, n
  <2>3. Footprint' = before + Cost(k)
    BY <1>1, <1>7, <2>1, <2>2, AddEntry
  <2> HIDE DEF before
  <2> QED
    BY <1>2, <1>8, <2>3
<1>10. CASE ~Packed(k)
  <2>1. Footprint' = c * EntryBytes + (u + KeyBytes[k] + EntryBytes) + (b + n) * TokenBytes
    BY <1>4, <1>5, <1>6, <1>10 DEF Footprint
  <2>2. Cost(k) = EntryBytes + n * TokenBytes + KeyBytes[k]
    BY <1>10 DEF Cost
  <2> HIDE DEF c, b, u, n
  <2>3. Footprint' = before + Cost(k)
    BY <1>1, <1>7, <2>1, <2>2, AddEntry
  <2> HIDE DEF before
  <2> QED
    BY <1>2, <1>8, <2>3
<1> QED
  BY <1>9, <1>10

(* Products in order: the slack never shrinks. *)
LEMMA SlackGrows ==
    ASSUME NEW m \in Nat, NEW p \in Nat, NEW size \in Nat, m <= p
    PROVE  m * size <= p * size
<1>1. (p - m) * size >= 0
  <2>1. p - m \in Nat
    OBVIOUS
  <2> QED
    BY <2>1
<1>2. (p - m) * size = p * size - m * size
  OBVIOUS
<1> QED
  BY <1>1, <1>2

(* The slack after a miss covers the slack before it and the new encoding. *)
LEMMA MissSlack ==
    ASSUME IInv, NEW k \in Keys, Miss(k)
    PROVE  /\ max_encoding' * TokenBytes \in Nat /\ budget' = budget
           /\ max_encoding * TokenBytes <= max_encoding' * TokenBytes
           /\ Len(Encoding[k]) * TokenBytes <= max_encoding' * TokenBytes
<1>1. max_encoding \in Nat /\ Len(Encoding[k]) \in Nat /\ TokenBytes \in Nat
  BY KeysAssumption, LengthFits DEF IInv
<1>2. /\ max_encoding' = IF Len(Encoding[k]) > max_encoding THEN Len(Encoding[k]) ELSE max_encoding
      /\ budget' = budget
  BY DEF Miss
<1>3. max_encoding' \in Nat /\ max_encoding <= max_encoding' /\ Len(Encoding[k]) <= max_encoding'
  BY <1>1, <1>2
<1> QED
  BY <1>1, <1>2, <1>3, SlackGrows

LEMMA BudgetStep == IInv /\ WithinBudget /\ [Next]_vars => WithinBudget'
<1> SUFFICES ASSUME IInv, WithinBudget, [Next]_vars PROVE WithinBudget'
  OBVIOUS
<1>1. ASSUME NEW k \in Keys, Miss(k) PROVE WithinBudget'
  <2>1. k \in (DOMAIN short \cup DOMAIN long)'
    BY <1>1 DEF Miss, With
  <2>2. Cost(k) \in Nat /\ Footprint' = (IF OverBudget THEN 0 ELSE Footprint) + Cost(k)
    BY <1>1, MissFootprint
  <2>3. ~OverBudget => Footprint <= budget + max_encoding * TokenBytes
    BY FootprintType DEF OverBudget
  <2>4. Footprint' <= budget' + max_encoding' * TokenBytes + Cost(k)
    BY <1>1, <2>2, <2>3, FootprintType, MissSlack
  <2> QED
    BY <2>1, <2>4 DEF WithinBudget, Cost, Packed
<1>2. ASSUME UNCHANGED <<budget, arena, short, long, long_bytes_used, max_encoding>> PROVE WithinBudget'
  BY <1>2 DEF WithinBudget, Footprint
<1>3. CASE Next
  <2>1. PICK k \in Keys : EncodeUnit(k)
    BY <1>3 DEF Next
  <2> QED
    BY <1>1, <1>2, <2>1 DEF EncodeUnit, FrontHit, MapHit
<1>4. CASE UNCHANGED vars
  BY <1>2, <1>4 DEF vars
<1> QED
  BY <1>3, <1>4

(***************************************************************************)
(* What the maps and the arena hold never exceeds the byte budget and the  *)
(* slack of the longest encoding by more than the one entry recorded last, *)
(* for every budget and every length of keys and encodings: over_budget is *)
(* asked before an entry is recorded, never after.                         *)
(***************************************************************************)
THEOREM StaysWithinBudget == Spec => []WithinBudget
<1>1. Init => WithinBudget
  <2> SUFFICES ASSUME Init PROVE WithinBudget
    OBVIOUS
  <2>1. Len(arena) = 0 /\ Cardinality(DOMAIN short) = 0 /\ long_bytes_used = 0
    BY EmptySeq, FS_EmptySet DEF Init, NoMap
  <2>2. budget \in Nat /\ max_encoding = 0 /\ EntryBytes \in Nat /\ TokenBytes \in Nat
    BY KeysAssumption DEF Init
  <2>3. Footprint = 0
    BY <2>1, <2>2 DEF Footprint
  <2>4. Footprint <= budget + max_encoding * TokenBytes
    BY <2>2, <2>3
  <2> QED
    BY <2>4 DEF WithinBudget
<1> QED
  BY <1>1, InitInv, StepInv, BudgetStep, PTL DEF Spec

(***************************************************************************)
(* A wipe always makes room: the miss that wiped leaves the caches within  *)
(* their budget, if the key and the entry of its unit fit it, so that the  *)
(* next miss does not wipe again, however long the encoding.               *)
(***************************************************************************)
THEOREM WipesMakeRoom == Spec => RoomAfterWipe
<1>1. ASSUME IInv, NEW k \in Keys, Miss(k), OverBudget,
             Cost(k) - Len(Encoding[k]) * TokenBytes <= budget
      PROVE  ~OverBudget'
  <2>1. Cost(k) \in Nat /\ Footprint' = Cost(k)
    BY <1>1, MissFootprint
  <2>2. Len(Encoding[k]) * TokenBytes \in Nat
    <3>1. Len(Encoding[k]) \in Nat /\ TokenBytes \in Nat
      BY <1>1, KeysAssumption, LengthFits
    <3> QED
      BY <3>1
  <2>3. Footprint' <= budget' + max_encoding' * TokenBytes
    BY <1>1, <2>1, <2>2, FootprintType, MissSlack
  <2>4. Footprint' \in Nat /\ budget' + max_encoding' * TokenBytes \in Nat
    BY <1>1, <2>1, FootprintType, MissSlack
  <2> QED
    BY <2>3, <2>4 DEF OverBudget
<1>2. IInv /\ [Next]_vars =>
        [\A k \in Keys : Miss(k) /\ OverBudget /\ Cost(k) - Len(Encoding[k]) * TokenBytes <= budget
            => ~OverBudget']_vars
  BY <1>1
<1> QED
  BY <1>2, SpecInv, PTL DEF Spec, RoomAfterWipe
=============================================================================
