------------------------ MODULE PretokenTableProofs -------------------------
(***************************************************************************)
(* Theorems about PretokenTable: for every set of keys, every hash and     *)
(* every capacity, walks end where they should and the table is a map.     *)
(***************************************************************************)
EXTENDS PretokenTable, FiniteSetTheorems, WellFoundedInduction, TLAPS

(* No key is stored twice. *)
Distinct == \A s, t \in Used(slots) : slots[s].key = slots[t].key => s = t

(* A growth leaves room for the entry it was started for; what is still to be moved,
   what has been moved and that entry have different keys. *)
Growing ==
    grow.active =>
        /\ miss = None
        /\ (len + 1) * 4 <= cap * 3
        /\ \A s, t \in Unmoved : grow.old[s].key = grow.old[t].key => s = t
        /\ \A s \in Unmoved :
              /\ grow.old[s].key # grow.key
              /\ \A t \in Used(slots) : slots[t].key # grow.old[s].key
        /\ \A t \in Used(slots) : slots[t].key # grow.key

IInv == TypeOK /\ WalksRight /\ Distinct /\ Growing

(* Reaches and Finds in a table of this capacity whose slots are a. *)
ReachesIn(a, k, d) == \A e \in 0..(d - 1) : \A s \in InPair(PairAt(k, e)) : a[s] # Absent
FindsIn(a, k, s) ==
    \E d \in 0..(Pairs - 1) :
        ReachesIn(a, k, d) /\ s \in InPair(PairAt(k, d)) /\ a[s] # Absent /\ a[s].key = k
ReachableIn(a) == \A s \in Used(a) : FindsIn(a, a[s].key, s)

-----------------------------------------------------------------------------
(* The least element of a set of numbers. *)
LEMMA LeastElement ==
    ASSUME NEW S \in SUBSET Nat, S # {}
    PROVE  \E n \in S : \A m \in S : n <= m
<1>1. IsWellFoundedOn(OpToRel(<, Nat), Nat)
  BY NatLessThanWellFounded
<1>2. PICK n \in S : \A m \in S : ~ (<<m, n>> \in OpToRel(<, Nat))
  BY <1>1, WFMin
<1>3. \A m \in S : ~ (m < n)
  BY <1>2 DEF OpToRel
<1> QED
  BY <1>3

(* The walk of a key visits every pair. *)
LEMMA PairFacts ==
    ASSUME TypeOK, NEW k \in Keys
    PROVE  /\ Pairs \in Nat \ {0} /\ DOMAIN slots = 0..(2 * Pairs - 1)
           /\ \A d \in 0..(Pairs - 1) : PairAt(k, d) \in 0..(Pairs - 1)
           /\ \A p \in 0..(Pairs - 1) :
                 InPair(p) \subseteq DOMAIN slots /\ \E d \in 0..(Pairs - 1) : PairAt(k, d) = p
           /\ \A s \in DOMAIN slots : s \div 2 \in 0..(Pairs - 1) /\ s \in InPair(s \div 2)
<1>1. Pairs \in Nat \ {0} /\ DOMAIN slots = 0..(2 * Pairs - 1)
  BY DEF TypeOK, Pairs
<1>2. Home(k) \in 0..(Pairs - 1)
  BY <1>1, HashAssumption DEF Home
<1>3. ASSUME NEW p \in 0..(Pairs - 1) PROVE \E d \in 0..(Pairs - 1) : PairAt(k, d) = p
  <2>1. CASE p >= Home(k)
    <3>1. p - Home(k) \in 0..(Pairs - 1) /\ PairAt(k, p - Home(k)) = p
      BY <1>1, <1>2, <2>1 DEF PairAt
    <3> QED
      BY <3>1
  <2>2. CASE p < Home(k)
    <3>1. p + Pairs - Home(k) \in 0..(Pairs - 1) /\ PairAt(k, p + Pairs - Home(k)) = p
      BY <1>1, <1>2, <2>2 DEF PairAt
    <3> QED
      BY <3>1
  <2> QED
    BY <1>1, <1>2, <2>1, <2>2
<1>4. \A d \in 0..(Pairs - 1) : PairAt(k, d) \in 0..(Pairs - 1)
  BY <1>1, <1>2 DEF PairAt
<1>5. \A s \in DOMAIN slots : s \div 2 \in 0..(Pairs - 1) /\ s \in InPair(s \div 2)
  BY <1>1 DEF InPair
<1>6. \A p \in 0..(Pairs - 1) : InPair(p) \subseteq DOMAIN slots
  BY <1>1 DEF InPair
<1> QED
  BY <1>1, <1>3, <1>4, <1>5, <1>6

(* Where there is an empty slot, every walk ends at one. *)
LEMMA WalkEnds ==
    ASSUME TypeOK, NEW k \in Keys, NEW hole \in DOMAIN slots, slots[hole] = Absent
    PROVE  FirstEmpty(k) \in DOMAIN slots /\ IsFirstEmpty(k, FirstEmpty(k))
<1> DEFINE D == {d \in 0..(Pairs - 1) : \E s \in InPair(PairAt(k, d)) : slots[s] = Absent}
<1>1. D \in SUBSET Nat /\ D # {}
  <2>1. PICK d \in 0..(Pairs - 1) : PairAt(k, d) = hole \div 2
    BY PairFacts
  <2>2. hole \in InPair(PairAt(k, d))
    BY PairFacts, <2>1
  <2>3. d \in D
    BY <2>2
  <2> QED
    BY <2>3
<1>2. PICK d \in D : \A e \in D : d <= e
  BY <1>1, LeastElement
<1>3. d \in 0..(Pairs - 1) /\ \E t \in InPair(PairAt(k, d)) : slots[t] = Absent
  OBVIOUS
<1> DEFINE p == PairAt(k, d)
           s == IF slots[2 * p] = Absent THEN 2 * p ELSE 2 * p + 1
<1>4. p \in 0..(Pairs - 1) /\ Reaches(k, d)
  <2>1. SUFFICES ASSUME NEW e \in 0..(d - 1), NEW t \in InPair(PairAt(k, e)), slots[t] = Absent
                 PROVE  FALSE
    BY <1>3, PairFacts DEF Reaches
  <2>2. e \in 0..(Pairs - 1) /\ e < d
    BY <1>3, PairFacts
  <2>3. e \in D
    BY <2>1, <2>2
  <2> QED
    BY <2>2, <2>3, <1>2, <1>3
<1>5. slots[s] = Absent /\ s \in InPair(p) /\ (s = 2 * p + 1 => slots[s - 1] # Absent)
  <2> HIDE DEF p
  <2>1. slots[2 * p] = Absent \/ slots[2 * p + 1] = Absent
    BY <1>3 DEF InPair, p
  <2>2. p \in Nat
    BY <1>4
  <2>3. CASE slots[2 * p] = Absent
    BY <2>2, <2>3 DEF InPair
  <2>4. CASE slots[2 * p] # Absent
    <3>1. s = 2 * p + 1 /\ s - 1 = 2 * p
      BY <2>2, <2>4
    <3> QED
      BY <3>1, <2>1, <2>4 DEF InPair
  <2> QED
    BY <2>3, <2>4
<1>6. s \in DOMAIN slots
  BY <1>4, <1>5, PairFacts
<1>7. IsFirstEmpty(k, s)
  BY <1>3, <1>4, <1>5 DEF IsFirstEmpty
<1> QED
  BY <1>6, <1>7 DEF FirstEmpty

-----------------------------------------------------------------------------
(* Sizes. *)
LEMMA UsedFinite ==
    ASSUME TypeOK
    PROVE  /\ IsFiniteSet(Used(slots)) /\ Cardinality(Used(slots)) \in Nat
           /\ IsFiniteSet(Unmoved) /\ Cardinality(Unmoved) \in Nat
<1>1. cap \in Nat /\ IsFiniteSet(0..(cap - 1)) /\ Used(slots) \subseteq 0..(cap - 1)
  BY FS_Interval DEF TypeOK, Used
<1>2. IsFiniteSet(0..(Pairs - 1)) /\ Unmoved \subseteq 0..(Pairs - 1)
  <2>1. CASE grow = None
    BY <2>1, FS_Interval, <1>1 DEF Unmoved, None, Pairs
  <2>2. CASE grow # None
    <3>1. DOMAIN grow.old = 0..(Pairs - 1)
      BY <2>2 DEF TypeOK
    <3> QED
      BY <3>1, FS_Interval, <1>1 DEF Unmoved, Used, Pairs
  <2> QED
    BY <2>1, <2>2
<1> QED
  BY <1>1, <1>2, FS_Subset, FS_CardinalityType

(* A table within its load has an empty slot. *)
LEMMA HoleExists ==
    ASSUME TypeOK, LoadBounded
    PROVE  \E hole \in DOMAIN slots : slots[hole] = Absent
<1>1. SUFFICES ASSUME Used(slots) = 0..(cap - 1) PROVE FALSE
  BY DEF TypeOK, Used
<1>2. cap \in Nat \ {0} /\ Cardinality(Used(slots)) = cap
  BY <1>1, FS_Interval DEF TypeOK
<1>3. len = cap + Cardinality(Unmoved) /\ Cardinality(Unmoved) \in Nat /\ len * 4 <= cap * 3
  BY <1>2, UsedFinite DEF LoadBounded
<1> QED
  BY <1>2, <1>3

(* Whoever walks for a key that is stored finds it. *)
LEMMA StoredIsFound ==
    ASSUME Reachable, NEW k, ~Found(k)
    PROVE  \A t \in Used(slots) : slots[t].key # k
  BY DEF Reachable, Found, Used

LEMMA FoundIsStored ==
    ASSUME NEW k, Found(k)
    PROVE  Where(k) \in Used(slots) /\ slots[Where(k)].key = k
<1>1. Where(k) \in DOMAIN slots /\ Finds(k, Where(k))
  BY DEF Found, Where
<1> QED
  BY <1>1 DEF Finds, Holds, Used

(* The walks of a table that keeps its capacity. *)
LEMMA SameWalks ==
    /\ Reachable <=> ReachableIn(slots)
    /\ \A k, s : Finds(k, s) <=> FindsIn(slots, k, s)
    /\ cap' = cap => /\ Reachable' <=> ReachableIn(slots')
                     /\ Pairs' = Pairs
                     /\ \A k, d : PairAt(k, d)' = PairAt(k, d)
  BY SMTT(30) DEF Reachable, ReachableIn, Finds, FindsIn, Reaches, ReachesIn, Holds, PairAt, Home, Pairs,
         InPair, Used

(* Walks only depend on the array. *)
LEMMA SameTable ==
    ASSUME cap' = cap, slots' = slots, NEW k, NEW s
    PROVE  (Found(k)' <=> Found(k)) /\ (IsFirstEmpty(k, s)' <=> IsFirstEmpty(k, s))
<1>1. Pairs' = Pairs /\ \A d : PairAt(k, d)' = PairAt(k, d)
  BY DEF PairAt, Home, Pairs
<1>2. \A d : Reaches(k, d)' <=> Reaches(k, d)
  BY <1>1 DEF Reaches, InPair
<1>3. IsFirstEmpty(k, s)' <=> IsFirstEmpty(k, s)
  BY <1>1, <1>2 DEF IsFirstEmpty, InPair
<1>4. ASSUME NEW t PROVE Finds(k, t)' <=> Finds(k, t)
  BY <1>1, <1>2 DEF Finds, InPair, Holds
<1> QED
  BY <1>3, <1>4 DEF Found

(* An entry that goes to the slot where the walk for its key ends is found, and so is
   every other. *)
LEMMA StoreEntry ==
    ASSUME TypeOK, Reachable, Distinct, NEW k \in Keys, NEW v \in Vals,
           NEW s \in DOMAIN slots, IsFirstEmpty(k, s),
           \A t \in Used(slots) : slots[t].key # k,
           cap' = cap, slots' = [slots EXCEPT ![s] = [key |-> k, val |-> v]]
    PROVE  /\ slots' \in [0..(cap - 1) -> Entries \cup {Absent}]
           /\ slots'[s] = [key |-> k, val |-> v]
           /\ \A t \in DOMAIN slots \ {s} : slots'[t] = slots[t]
           /\ Used(slots') = Used(slots) \cup {s} /\ s \notin Used(slots)
           /\ Cardinality(Used(slots')) = Cardinality(Used(slots)) + 1
           /\ Reachable' /\ Distinct'
<1> DEFINE entry == [key |-> k, val |-> v]
<1>1. entry \in Entries /\ entry # Absent /\ entry.key = k
  BY AbsentAssumption DEF Entries
<1>2. slots[s] = Absent
  BY DEF IsFirstEmpty
<1>3. /\ slots' \in [0..(cap - 1) -> Entries \cup {Absent}]
      /\ DOMAIN slots' = DOMAIN slots
      /\ slots'[s] = entry /\ \A t \in DOMAIN slots \ {s} : slots'[t] = slots[t]
  BY <1>1 DEF TypeOK
<1> HIDE DEF entry
<1>4. Used(slots') = Used(slots) \cup {s} /\ s \notin Used(slots)
  BY <1>1, <1>2, <1>3 DEF Used
<1>5. Cardinality(Used(slots')) = Cardinality(Used(slots)) + 1
  BY <1>4, UsedFinite, FS_AddElement
<1>6. ASSUME NEW j \in Keys, NEW d \in 0..(Pairs - 1), ReachesIn(slots, j, d)
      PROVE  ReachesIn(slots', j, d)
  <2>1. SUFFICES ASSUME NEW e \in 0..(d - 1), NEW t \in InPair(PairAt(j, e))
                 PROVE  slots'[t] # Absent
    BY DEF ReachesIn
  <2>2. slots[t] # Absent
    BY <1>6, <2>1 DEF ReachesIn
  <2>3. Pairs \in Nat
    BY PairFacts
  <2>4. e \in 0..(Pairs - 1)
    BY <2>1, <2>3
  <2>5. t \in DOMAIN slots
    BY <2>1, <2>4, PairFacts
  <2> QED
    BY <2>2, <2>5, <1>1, <1>3
<1>7. Reachable'
  <2>1. SUFFICES ASSUME NEW t \in Used(slots') PROVE FindsIn(slots', slots'[t].key, t)
    BY SameWalks DEF ReachableIn
  <2>2. CASE t = s
    <3>1. PICK d \in 0..(Pairs - 1) : ReachesIn(slots, k, d) /\ s \in InPair(PairAt(k, d))
      BY DEF IsFirstEmpty, Reaches, ReachesIn
    <3>2. ReachesIn(slots', k, d)
      BY <3>1, <1>6
    <3> QED
      BY <2>2, <3>1, <3>2, <1>1, <1>3 DEF FindsIn
  <2>3. CASE t \in Used(slots) \ {s}
    <3>1. slots[t].key \in Keys /\ slots'[t] = slots[t] /\ slots[t] # Absent
      BY <2>3, <1>3 DEF Used, TypeOK, Entries
    <3>2. PICK d \in 0..(Pairs - 1) :
             ReachesIn(slots, slots[t].key, d) /\ t \in InPair(PairAt(slots[t].key, d))
      BY <2>3, SameWalks DEF ReachableIn, FindsIn
    <3>3. ReachesIn(slots', slots[t].key, d)
      BY <3>1, <3>2, <1>6
    <3> QED
      BY <3>1, <3>2, <3>3 DEF FindsIn
  <2> QED
    BY <2>1, <2>2, <2>3, <1>4
<1>8. Distinct'
  BY <1>1, <1>3, <1>4 DEF Distinct, Used
<1> QED
  BY <1>3, <1>4, <1>5, <1>7, <1>8 DEF entry

(* A table without entries. *)
LEMMA EmptyTable ==
    ASSUME NEW c \in Nat
    PROVE  /\ Blank(c) \in [0..(c - 1) -> Entries \cup {Absent}]
           /\ Used(Blank(c)) = {} /\ Cardinality(Used(Blank(c))) = 0
  BY FS_EmptySet DEF Blank, Used

-----------------------------------------------------------------------------
(* The invariant, one lemma for each action. *)
LEMMA InitIInv == Init => IInv
<1> SUFFICES ASSUME Init PROVE IInv
  OBVIOUS
<1>1. cap \in Nat /\ cap > 0 /\ cap = 2 * Pairs /\ Used(slots) = {} /\ Unmoved = {}
      /\ ~miss.active /\ ~grow.active /\ slots = Blank(cap) /\ len = 0
  BY CapsAssumption, EmptyTable DEF Init, None, Pairs, Unmoved
<1>2. TypeOK
  BY <1>1, EmptyTable, SMTT(30) DEF Init, TypeOK
<1>3. LoadBounded
  BY <1>1, EmptyTable, FS_EmptySet, SMTT(30) DEF LoadBounded
<1> QED
  BY <1>1, <1>2, <1>3 DEF IInv, WalksRight, Reachable, MissSlotValid, Distinct, Growing

(* Lookups change nothing that walks depend on. *)
LEMMA LookupKeeps == ASSUME IInv, NEW k \in Keys, Lookup(k) PROVE IInv'
<1>1. TypeOK /\ LoadBounded /\ Reachable /\ Distinct /\ ~grow.active
      /\ UNCHANGED <<cap, slots, len, grow>>
  BY DEF IInv, WalksRight, Lookup, Idle
<1>2. LoadBounded' /\ Reachable' /\ Distinct' /\ Growing'
  BY <1>1, SameWalks DEF LoadBounded, Distinct, Growing, Unmoved, Used, ReachableIn
<1>3. CASE Found(k)
  <2>1. miss' = None /\ result' \in Vals
    BY <1>1, <1>3, FoundIsStored DEF Lookup, TypeOK, Used, Entries
  <2>2. TypeOK'
    BY <1>1, <2>1 DEF TypeOK, Pairs
  <2>3. MissSlotValid'
    BY <2>1 DEF MissSlotValid, None
  <2> QED
    BY <1>2, <2>2, <2>3 DEF IInv, WalksRight
<1>4. CASE ~Found(k)
  <2>1. FirstEmpty(k) \in DOMAIN slots /\ IsFirstEmpty(k, FirstEmpty(k))
    BY <1>1, HoleExists, WalkEnds
  <2>2. result' = Absent /\ miss' = [active |-> TRUE, key |-> k, slot |-> FirstEmpty(k)]
    BY <1>4 DEF Lookup
  <2>3. TypeOK'
    BY <1>1, <2>1, <2>2 DEF TypeOK, Pairs
  <2>4. miss'.key = k /\ miss'.slot = FirstEmpty(k)
    BY <2>2
  <2>5. ASSUME NEW s, s = FirstEmpty(k) PROVE ~Found(k)' /\ IsFirstEmpty(k, s)'
    BY <1>1, <1>4, <2>1, <2>5, SameTable
  <2>6. MissSlotValid'
    BY <2>4, <2>5 DEF MissSlotValid
  <2> QED
    BY <1>2, <2>3, <2>6 DEF IInv, WalksRight
<1> QED
  BY <1>3, <1>4

(* Entries go where the walk for their key ends, or a growth begins. *)
LEMMA StoreKeeps ==
    ASSUME IInv, Idle, NEW k \in Keys, NEW v \in Vals, NEW s, Store(k, v, s),
           ~Overloaded => s \in DOMAIN slots /\ IsFirstEmpty(k, s),
           \A t \in Used(slots) : slots[t].key # k
    PROVE  IInv'
<1>1. /\ TypeOK /\ LoadBounded /\ Reachable /\ Distinct /\ ~grow.active /\ Unmoved = {}
      /\ grow = None
  <2>1. TypeOK /\ LoadBounded /\ Reachable /\ Distinct /\ ~grow.active
    BY DEF IInv, WalksRight, Idle
  <2> QED
    BY <2>1 DEF TypeOK, Unmoved
<1>2. miss' = None /\ MissSlotValid' /\ UNCHANGED result
  BY DEF Store, MissSlotValid, None
<1>3. cap \in Nat \ {0} /\ cap = 2 * Pairs /\ Pairs \in Nat \ {0} /\ len \in Nat
      /\ len = Cardinality(Used(slots)) /\ len * 4 <= cap * 3
  <2>1. cap \in Nat \ {0} /\ cap = 2 * Pairs /\ Pairs \in Nat \ {0} /\ len \in Nat
    BY <1>1 DEF TypeOK, Pairs
  <2>2. Cardinality(Unmoved) = 0 /\ Cardinality(Used(slots)) \in Nat
    BY <1>1, FS_EmptySet, UsedFinite
  <2> QED
    BY <1>1, <2>1, <2>2 DEF LoadBounded
<1>4. CASE ~Overloaded
  <2>1. /\ cap' = cap /\ slots' = [slots EXCEPT ![s] = [key |-> k, val |-> v]]
        /\ len' = len + 1 /\ grow' = grow
        /\ s \in DOMAIN slots /\ IsFirstEmpty(k, s)
    BY <1>4 DEF Store
  <2>2. /\ slots' \in [0..(cap - 1) -> Entries \cup {Absent}]
        /\ Cardinality(Used(slots')) = Cardinality(Used(slots)) + 1
        /\ Reachable' /\ Distinct'
    BY <1>1, <2>1, StoreEntry
  <2>3. TypeOK'
    <3>1. Pairs' = Pairs /\ grow' = None /\ len' \in Nat
      BY <1>1, <1>3, <2>1 DEF Pairs
    <3> QED
      BY <1>1, <1>2, <1>3, <2>1, <2>2, <3>1 DEF TypeOK
  <2>4. Unmoved' = {} /\ ~grow'.active
    BY <1>1, <2>1 DEF Unmoved
  <2>5. (len + 1) * 4 <= cap * 3
    BY <1>3, <1>4 DEF Overloaded
  <2>6. LoadBounded'
    BY <1>3, <2>1, <2>2, <2>4, <2>5, FS_EmptySet DEF LoadBounded
  <2> QED
    BY <1>2, <2>2, <2>3, <2>4, <2>6 DEF IInv, WalksRight, Growing
<1>5. CASE Overloaded
  <2>1. /\ grow' = [active |-> TRUE, old |-> slots, next |-> 0, key |-> k, val |-> v]
        /\ cap' = 2 * cap /\ slots' = Blank(2 * cap) /\ len' = len
    BY <1>5 DEF Store
  <2>2. /\ slots' \in [0..(2 * cap - 1) -> Entries \cup {Absent}]
        /\ Used(slots') = {} /\ Cardinality(Used(slots')) = 0
    <3>1. 2 * cap \in Nat
      BY <1>3
    <3> QED
      BY <2>1, <3>1, EmptyTable
  <2>3. Pairs' = cap
    BY <1>3, <2>1 DEF Pairs
  <2>4. TypeOK'
    <3>1. grow' \in [active: {TRUE}, old: [0..(cap - 1) -> Entries \cup {Absent}],
                     next: 0..cap, key: Keys, val: Vals]
      BY <1>1, <1>3, <2>1 DEF TypeOK
    <3>2. cap' \in Nat /\ cap' > 0 /\ cap' = 2 * Pairs' /\ len' \in Nat
      BY <1>3, <2>1, <2>3
    <3>3. slots' \in [0..(cap' - 1) -> Entries \cup {Absent}]
      BY <2>1, <2>2
    <3> QED
      BY <1>1, <1>2, <2>3, <3>1, <3>2, <3>3 DEF TypeOK
  <2>5. Unmoved' = Used(slots) /\ grow'.active /\ grow'.old = slots /\ grow'.key = k
    BY <1>1, <1>3, <2>1 DEF Unmoved, Used, TypeOK
  <2>6. LoadBounded'
    BY <1>3, <2>1, <2>2, <2>5 DEF LoadBounded
  <2>7. Growing'
    <3>1. (len + 1) * 4 <= 2 * cap * 3
      BY <1>3
    <3> QED
      BY <1>1, <1>2, <2>1, <2>2, <2>5, <3>1 DEF Growing, Distinct
  <2> QED
    BY <1>2, <2>2, <2>4, <2>6, <2>7 DEF IInv, WalksRight, Reachable, Distinct
<1> QED
  BY <1>4, <1>5

(* Both inserts put a key that is not stored where its walk ends. *)
LEMMA InsertStores ==
    ASSUME IInv, NEW v \in Vals, InsertAt(v) \/ Insert(v)
    PROVE  /\ Idle /\ miss.key \in Keys /\ \A t \in Used(slots) : slots[t].key # miss.key
           /\ \E s \in DOMAIN slots : IsFirstEmpty(miss.key, s) /\ Store(miss.key, v, s)
<1>1. TypeOK /\ LoadBounded /\ Reachable /\ Idle /\ miss.active /\ MissSlotValid
  BY DEF IInv, WalksRight, InsertAt, Insert
<1>2. miss.key \in Keys /\ miss.slot \in DOMAIN slots
  <2>1. miss # None
    BY <1>1 DEF None
  <2>2. miss \in [active: {TRUE}, key: Keys, slot: DOMAIN slots]
    BY <1>1, <2>1 DEF TypeOK
  <2> QED
    BY <2>2
<1>3. ~Found(miss.key) /\ IsFirstEmpty(miss.key, miss.slot)
  BY <1>1 DEF MissSlotValid
<1>4. \A t \in Used(slots) : slots[t].key # miss.key
  BY <1>1, <1>3, StoredIsFound
<1>5. FirstEmpty(miss.key) \in DOMAIN slots /\ IsFirstEmpty(miss.key, FirstEmpty(miss.key))
  BY <1>1, <1>2, HoleExists, WalkEnds
<1> QED
  BY <1>1, <1>2, <1>3, <1>4, <1>5 DEF InsertAt, Insert

LEMMA InsertKeeps == ASSUME IInv, NEW v \in Vals, InsertAt(v) \/ Insert(v) PROVE IInv'
  BY InsertStores, StoreKeeps

LEMMA ReplaceKeeps == ASSUME IInv, NEW k \in Keys, NEW v \in Vals, Replace(k, v) PROVE IInv'
<1>1. TypeOK /\ LoadBounded /\ Reachable /\ Distinct /\ Idle /\ ~grow.active
  BY DEF IInv, WalksRight, Replace, Idle
<1>2. CASE Found(k)
  <2>1. /\ slots' = [slots EXCEPT ![Where(k)] = [key |-> k, val |-> v]]
        /\ miss' = None /\ UNCHANGED <<cap, len, grow, result>>
    BY <1>2 DEF Replace
  <2>2. PICK w \in Used(slots) : w = Where(k) /\ slots[w].key = k
    BY <1>2, FoundIsStored
  <2>3. /\ w \in DOMAIN slots /\ slots' \in [0..(cap - 1) -> Entries \cup {Absent}]
        /\ \A t \in DOMAIN slots : (slots'[t] = Absent <=> slots[t] = Absent)
        /\ \A t \in Used(slots) : slots'[t].key = slots[t].key
        /\ DOMAIN slots' = DOMAIN slots
    BY <1>1, <2>1, <2>2, AbsentAssumption DEF TypeOK, Used, Entries
  <2>4. Used(slots') = Used(slots)
    BY <2>3 DEF Used
  <2>5. TypeOK'
    BY <1>1, <2>1, <2>3 DEF TypeOK, Pairs
  <2>6. LoadBounded' /\ Distinct' /\ Growing' /\ MissSlotValid'
    BY <1>1, <2>1, <2>3, <2>4, ZenonT(60)
       DEF LoadBounded, Distinct, Growing, Unmoved, MissSlotValid, None
  <2>7. Reachable'
    <3>1. SUFFICES ASSUME NEW t \in Used(slots) PROVE FindsIn(slots', slots[t].key, t)
      BY <2>1, <2>3, <2>4, SameWalks DEF ReachableIn
    <3>2. slots[t].key \in Keys
      BY <1>1 DEF Used, TypeOK, Entries
    <3>3. PICK d \in 0..(Pairs - 1) :
             ReachesIn(slots, slots[t].key, d) /\ t \in InPair(PairAt(slots[t].key, d))
      BY <1>1, SameWalks DEF ReachableIn, FindsIn
    <3>4. ReachesIn(slots', slots[t].key, d)
      <4>1. SUFFICES ASSUME NEW e \in 0..(d - 1), NEW u \in InPair(PairAt(slots[t].key, e))
                     PROVE  slots'[u] # Absent
        BY DEF ReachesIn
      <4>2. e \in 0..(Pairs - 1)
        BY <1>1, <3>2, PairFacts
      <4>3. u \in DOMAIN slots /\ slots[u] # Absent
        BY <1>1, <3>2, <3>3, <4>2, PairFacts DEF ReachesIn
      <4> QED
        BY <2>3, <4>3
    <3> QED
      BY <2>3, <3>3, <3>4 DEF FindsIn, Used
  <2> QED
    BY <2>5, <2>6, <2>7 DEF IInv, WalksRight
<1>3. CASE ~Found(k)
  <2>1. \A t \in Used(slots) : slots[t].key # k
    BY <1>1, <1>3, StoredIsFound
  <2>2. FirstEmpty(k) \in DOMAIN slots /\ IsFirstEmpty(k, FirstEmpty(k))
    BY <1>1, HoleExists, WalkEnds
  <2> QED
    BY <1>1, <1>3, <2>1, <2>2, StoreKeeps DEF Replace
<1> QED
  BY <1>2, <1>3

LEMMA ResetKeeps == ASSUME IInv, NEW c \in Caps \cup {cap}, Reset(c) PROVE IInv'
<1>1. TypeOK /\ ~grow.active
  BY DEF IInv, Reset, Idle
<1>2. /\ cap' = c /\ slots' = Blank(c) /\ len' = 0 /\ miss' = None
      /\ UNCHANGED <<grow, result>>
  BY DEF Reset
<1>3. c \in Nat /\ c > 0 /\ c = 2 * (c \div 2)
  BY <1>1, CapsAssumption DEF TypeOK, Pairs
<1>4. slots' \in [0..(c - 1) -> Entries \cup {Absent}] /\ Used(slots') = {}
  BY <1>2, <1>3, EmptyTable
<1>5. TypeOK'
  BY <1>1, <1>2, <1>3, <1>4 DEF TypeOK, Pairs
<1>6. LoadBounded'
  BY <1>1, <1>2, <1>3, <1>4, FS_EmptySet DEF LoadBounded, Unmoved
<1> QED
  BY <1>1, <1>2, <1>4, <1>5, <1>6
     DEF IInv, WalksRight, Reachable, Distinct, Growing, MissSlotValid, None

(* A growth under way. *)
LEMMA GrowFacts ==
    ASSUME IInv, grow.active
    PROVE  /\ grow \in [active: {TRUE}, old: [0..(Pairs - 1) -> Entries \cup {Absent}],
                         next: 0..Pairs, key: Keys, val: Vals]
           /\ DOMAIN grow.old = 0..(Pairs - 1) /\ miss = None
           /\ TypeOK /\ LoadBounded /\ Reachable /\ Distinct /\ Growing
<1>1. TypeOK /\ LoadBounded /\ Reachable /\ Distinct /\ Growing
  BY DEF IInv, WalksRight
<1>2. grow # None
  BY DEF None
<1> QED
  BY <1>1, <1>2 DEF TypeOK, Growing

(* Each turn of the loop takes one slot of the old array ... *)
LEMMA TurnFacts ==
    ASSUME IInv, MoveEntry
    PROVE  /\ UNCHANGED <<cap, len, miss, result>>
           /\ grow' \in [active: {TRUE}, old: [0..(Pairs - 1) -> Entries \cup {Absent}],
                         next: 0..Pairs, key: Keys, val: Vals]
           /\ grow.active /\ grow'.active /\ grow'.old = grow.old /\ grow'.key = grow.key
           /\ Unmoved' = Unmoved \ {grow.next}
           /\ grow.next \in Unmoved <=> grow.old[grow.next] # Absent
<1>1. grow.active /\ grow.next \in DOMAIN grow.old
  BY DEF MoveEntry
<1>2. /\ grow \in [active: {TRUE}, old: [0..(Pairs - 1) -> Entries \cup {Absent}],
                    next: 0..Pairs, key: Keys, val: Vals]
      /\ DOMAIN grow.old = 0..(Pairs - 1) /\ Pairs \in Nat
  <2>1. TypeOK
    BY <1>1, GrowFacts
  <2>2. Pairs \in Nat
    BY <2>1 DEF TypeOK, Pairs
  <2> QED
    BY <1>1, <2>2, GrowFacts
<1>3. /\ UNCHANGED <<cap, len, miss, result>>
      /\ grow' \in [active: {TRUE}, old: [0..(Pairs - 1) -> Entries \cup {Absent}],
                     next: 0..Pairs, key: Keys, val: Vals]
      /\ grow'.active /\ grow'.old = grow.old /\ grow'.next = grow.next + 1
      /\ grow'.key = grow.key
  <2>1. grow' = [grow EXCEPT !.next = @ + 1] /\ UNCHANGED <<cap, len, miss, result>>
    BY DEF MoveEntry
  <2>2. grow.next + 1 \in 0..Pairs
    BY <1>1, <1>2
  <2> QED
    BY <1>2, <2>1, <2>2
<1> DEFINE U == Used(grow.old)
<1>4. Unmoved = {s \in U : s >= grow.next} /\ Unmoved' = {s \in U : s >= grow.next + 1}
  BY <1>1, <1>3 DEF Unmoved
<1>5. U \subseteq 0..(Pairs - 1) /\ (grow.next \in U <=> grow.old[grow.next] # Absent)
  BY <1>1, <1>2 DEF Used
<1> HIDE DEF U
<1>6. \A s \in U : s \in Nat /\ grow.next \in Nat
  BY <1>2, <1>5
<1>7. Unmoved' = Unmoved \ {grow.next} /\ (grow.next \in Unmoved <=> grow.next \in U)
  BY <1>4, <1>6, <1>2
<1> QED
  BY <1>1, <1>3, <1>5, <1>7

(* ... and puts the entry in it, if there is one, at the end of its walk. *)
LEMMA TurnStores ==
    ASSUME IInv, MoveEntry, NEW e, e = grow.old[grow.next], e # Absent
    PROVE  /\ slots' \in [0..(cap - 1) -> Entries \cup {Absent}]
           /\ \E s \in DOMAIN slots :
                 /\ slots'[s] = e /\ \A t \in DOMAIN slots \ {s} : slots'[t] = slots[t]
                 /\ Used(slots') = Used(slots) \cup {s} /\ s \notin Used(slots)
           /\ Cardinality(Used(slots')) = Cardinality(Used(slots)) + 1
           /\ Reachable' /\ Distinct'
<1>1. /\ grow.active /\ grow.next \in DOMAIN grow.old /\ cap' = cap
      /\ TypeOK /\ LoadBounded /\ Reachable /\ Distinct /\ Growing
      /\ grow.old \in [0..(Pairs - 1) -> Entries \cup {Absent}] /\ grow.next \in Unmoved
  BY GrowFacts, TurnFacts DEF MoveEntry
<1>2. e \in Entries /\ e.key \in Keys /\ e.val \in Vals /\ e = [key |-> e.key, val |-> e.val]
  BY <1>1 DEF Entries
<1> DEFINE s == FirstEmpty(e.key)
<1>3. s \in DOMAIN slots /\ IsFirstEmpty(e.key, s)
  BY <1>1, <1>2, HoleExists, WalkEnds
<1>4. slots' = [slots EXCEPT ![s] = [key |-> e.key, val |-> e.val]]
  BY <1>2 DEF MoveEntry
<1>5. \A t \in Used(slots) : slots[t].key # e.key
  BY <1>1 DEF Growing
<1> HIDE DEF s
<1> QED
  BY <1>1, <1>2, <1>3, <1>4, <1>5, StoreEntry

LEMMA MoveEntryKeeps == ASSUME IInv, MoveEntry PROVE IInv'
<1>1. /\ UNCHANGED <<cap, len, miss, result>> /\ Pairs' = Pairs
      /\ grow' \in [active: {TRUE}, old: [0..(Pairs - 1) -> Entries \cup {Absent}],
                     next: 0..Pairs, key: Keys, val: Vals]
      /\ grow.active /\ grow'.active /\ grow'.old = grow.old /\ grow'.key = grow.key
      /\ Unmoved' = Unmoved \ {grow.next}
      /\ grow.next \in Unmoved <=> grow.old[grow.next] # Absent
  BY TurnFacts DEF Pairs
<1>2. TypeOK /\ LoadBounded /\ Reachable /\ Distinct /\ Growing /\ miss = None
  BY <1>1, GrowFacts
<1>3. MissSlotValid'
  BY <1>1, <1>2 DEF MissSlotValid, None
<1>4. CASE grow.old[grow.next] = Absent
  <2>1. slots' = slots /\ Unmoved' = Unmoved
    BY <1>1, <1>4 DEF MoveEntry
  <2>2. TypeOK'
    BY <1>1, <1>2, <2>1 DEF TypeOK
  <2>3. Reachable'
    BY <1>1, <1>2, <2>1, SameWalks
  <2>4. Used(slots') = Used(slots)
    BY <2>1
  <2>5. LoadBounded'
    BY <1>1, <1>2, <2>1, <2>4 DEF LoadBounded
  <2>6. Distinct'
    BY <1>2, <2>1, <2>4 DEF Distinct
  <2>7. Growing'
    BY <1>1, <1>2, <2>1, <2>4 DEF Growing
  <2> QED
    BY <1>3, <2>2, <2>3, <2>5, <2>6, <2>7 DEF IInv, WalksRight
<1>5. CASE grow.old[grow.next] # Absent
  <2> DEFINE e == grow.old[grow.next]
  <2>1. /\ slots' \in [0..(cap - 1) -> Entries \cup {Absent}]
        /\ Cardinality(Used(slots')) = Cardinality(Used(slots)) + 1
        /\ Reachable' /\ Distinct'
    BY <1>5, TurnStores
  <2>2. PICK s \in DOMAIN slots :
           /\ slots'[s] = e /\ \A t \in DOMAIN slots \ {s} : slots'[t] = slots[t]
           /\ Used(slots') = Used(slots) \cup {s}
    BY <1>5, TurnStores
  <2>3. Cardinality(Unmoved') = Cardinality(Unmoved) - 1
    BY <1>1, <1>2, <1>5, UsedFinite, FS_RemoveElement
  <2>4. TypeOK'
    BY <1>1, <1>2, <2>1 DEF TypeOK
  <2>5. LoadBounded'
    BY <1>1, <1>2, <2>1, <2>3, UsedFinite DEF LoadBounded
  <2>6. Growing'
    <3>1. \A t \in Used(slots') : slots'[t] = e \/ (t \in Used(slots) /\ slots'[t] = slots[t])
      BY <2>2 DEF Used
    <3> QED
      BY <1>1, <1>2, <1>5, <3>1 DEF Growing
  <2> QED
    BY <1>3, <2>1, <2>4, <2>5, <2>6 DEF IInv, WalksRight
<1> QED
  BY <1>4, <1>5

(* The entry that started the growth finds its place at the end of it. *)
LEMMA FinishFacts ==
    ASSUME IInv, FinishGrow
    PROVE  LET s == FirstEmpty(grow.key)
           IN  /\ grow.key \in Keys /\ grow.val \in Vals /\ Unmoved = {} /\ ~grow'.active
               /\ s \in DOMAIN slots /\ IsFirstEmpty(grow.key, s)
               /\ slots' = [slots EXCEPT ![s] = [key |-> grow.key, val |-> grow.val]]
               /\ cap' = cap /\ UNCHANGED result
               /\ (len + 1) * 4 <= cap * 3
               /\ \A t \in Used(slots) : slots[t].key # grow.key
               /\ TypeOK /\ LoadBounded /\ Reachable /\ Distinct /\ miss = None
<1>1. grow.active /\ grow.next \notin DOMAIN grow.old
  BY DEF FinishGrow
<1>2. /\ grow.key \in Keys /\ grow.val \in Vals /\ grow.next \in 0..Pairs
      /\ DOMAIN grow.old = 0..(Pairs - 1) /\ miss = None
      /\ TypeOK /\ LoadBounded /\ Reachable /\ Distinct /\ Growing
  BY <1>1, GrowFacts
<1>3. Unmoved = {}
  <2>1. Pairs \in Nat
    BY <1>2 DEF TypeOK, Pairs
  <2>2. \A t \in 0..(Pairs - 1) : ~ (t >= grow.next)
    BY <1>1, <1>2, <2>1
  <2> QED
    BY <1>1, <1>2, <2>2 DEF Unmoved, Used
<1>4. FirstEmpty(grow.key) \in DOMAIN slots /\ IsFirstEmpty(grow.key, FirstEmpty(grow.key))
  BY <1>2, HoleExists, WalkEnds
<1> QED
  BY <1>1, <1>2, <1>3, <1>4 DEF FinishGrow, Growing, None

LEMMA FinishGrowKeeps == ASSUME IInv, FinishGrow PROVE IInv'
<1> DEFINE s == FirstEmpty(grow.key)
<1>1. /\ grow.key \in Keys /\ grow.val \in Vals /\ Unmoved = {}
      /\ s \in DOMAIN slots /\ slots' = [slots EXCEPT ![s] = [key |-> grow.key, val |-> grow.val]]
      /\ IsFirstEmpty(grow.key, s)
      /\ \A t \in Used(slots) : slots[t].key # grow.key
      /\ TypeOK /\ LoadBounded /\ Reachable /\ Distinct
      /\ (len + 1) * 4 <= cap * 3 /\ miss = None
  BY FinishFacts
<1>2. len' = len + 1 /\ grow' = None /\ UNCHANGED <<cap, miss, result>>
  BY DEF FinishGrow
<1> HIDE DEF s
<1>3. /\ slots' \in [0..(cap - 1) -> Entries \cup {Absent}]
      /\ Cardinality(Used(slots')) = Cardinality(Used(slots)) + 1
      /\ Reachable' /\ Distinct'
  BY <1>1, <1>2, StoreEntry
<1>4. TypeOK'
  BY <1>1, <1>2, <1>3 DEF TypeOK, Pairs
<1>5. LoadBounded'
  <2>1. Unmoved' = {} /\ Cardinality({}) = 0
    BY <1>2, FS_EmptySet DEF Unmoved, None
  <2>2. len = Cardinality(Used(slots)) /\ Cardinality(Used(slots)) \in Nat
    BY <1>1, <2>1, UsedFinite DEF LoadBounded
  <2> QED
    BY <1>1, <1>2, <1>3, <2>1, <2>2 DEF LoadBounded
<1>6. MissSlotValid' /\ Growing'
  BY <1>1, <1>2 DEF MissSlotValid, Growing, None
<1> QED
  BY <1>3, <1>4, <1>5, <1>6 DEF IInv, WalksRight

LEMMA NextKeeps == IInv /\ [Next]_vars => IInv'
<1> SUFFICES ASSUME IInv, [Next]_vars PROVE IInv'
  OBVIOUS
<1>1. CASE \E k \in Keys : Lookup(k)
  BY <1>1, LookupKeeps
<1>2. CASE \E v \in Vals : InsertAt(v) \/ Insert(v)
  BY <1>2, InsertKeeps
<1>3. CASE \E k \in Keys, v \in Vals : Replace(k, v)
  BY <1>3, ReplaceKeeps
<1>4. CASE MoveEntry
  BY <1>4, MoveEntryKeeps
<1>5. CASE FinishGrow
  BY <1>5, FinishGrowKeeps
<1>6. CASE \E c \in Caps \cup {cap} : Reset(c)
  BY <1>6, ResetKeeps
<1>7. CASE UNCHANGED vars
  <2>1. UNCHANGED <<cap, slots, len, miss, grow, result>>
    BY <1>7 DEF vars
  <2>2. MissSlotValid'
    BY <2>1, SameTable DEF MissSlotValid, IInv, WalksRight
  <2>3. TypeOK' /\ LoadBounded' /\ Reachable' /\ Distinct' /\ Growing'
    BY <2>1, SameWalks
       DEF IInv, WalksRight, TypeOK, Pairs, LoadBounded, Distinct, Growing, Unmoved
  <2> QED
    BY <2>2, <2>3 DEF IInv, WalksRight
<1> QED
  BY <1>1, <1>2, <1>3, <1>4, <1>5, <1>6, <1>7 DEF Next

LEMMA Invariant == Spec => []IInv
  BY InitIInv, NextKeeps, PTL DEF Spec

(***************************************************************************)
(* The table is well-typed, whatever its keys, hashes and capacities.      *)
(***************************************************************************)
THEOREM TypeCorrect == Spec => []TypeOK
<1>1. IInv => TypeOK
  BY DEF IInv
<1> QED
  BY <1>1, Invariant, PTL

(***************************************************************************)
(* The load limit leaves every walk an empty slot to end at; every entry   *)
(* is found, also in the middle of a growth; and the slot a failed lookup  *)
(* reported to its caller is the one an insert would take, as long as      *)
(* nothing was inserted (get_or_slot, insert_at, grow).                    *)
(***************************************************************************)
THEOREM WalksEndRight == Spec => []WalksRight
<1>1. IInv => WalksRight
  BY DEF IInv
<1> QED
  BY <1>1, Invariant, PTL

-----------------------------------------------------------------------------
(* The table as a map. *)

(* The entries of the table, in the array or still to be moved. *)
Held == {slots[s] : s \in Used(slots)} \cup {grow.old[s] : s \in Unmoved}

(* Each key has at most one of them, which is the answer for it. *)
Answers ==
    \A k \in Keys :
        /\ \A e \in Held : e.key = k => ValueOf(k) = e.val
        /\ (\A e \in Held : e.key # k) => ValueOf(k) = Absent

LEMMA AnswersFollow == IInv => Answers
<1> SUFFICES ASSUME IInv, NEW k \in Keys
             PROVE  /\ \A e \in Held : e.key = k => ValueOf(k) = e.val
                    /\ (\A e \in Held : e.key # k) => ValueOf(k) = Absent
  BY DEF Answers
<1>1. ASSUME NEW s \in Used(slots), slots[s].key = k PROVE ValueOf(k) = slots[s].val
  <2>1. \A t \in Used(slots) : slots[t].key = k => t = s
    BY <1>1 DEF IInv, Distinct
  <2>2. (CHOOSE t \in Used(slots) : slots[t].key = k) = s
    BY <1>1, <2>1
  <2> QED
    BY <1>1, <2>2 DEF ValueOf
<1>2. ASSUME NEW s \in Unmoved, grow.old[s].key = k PROVE ValueOf(k) = grow.old[s].val
  <2>1. /\ \A t \in Unmoved : grow.old[t].key = k => t = s
        /\ \A t \in Used(slots) : slots[t].key # k
    BY <1>2 DEF IInv, Growing, Unmoved
  <2>2. (CHOOSE t \in Unmoved : grow.old[t].key = k) = s
    BY <1>2, <2>1
  <2> QED
    BY <1>2, <2>1, <2>2 DEF ValueOf
<1>3. ASSUME \A e \in Held : e.key # k PROVE ValueOf(k) = Absent
  BY <1>3 DEF ValueOf, Held
<1> QED
  BY <1>1, <1>2, <1>3 DEF Held

LEMMA AnswersNext == IInv /\ [Next]_vars => Answers /\ Answers'
<1>1. (IInv => Answers)'
  BY AnswersFollow, PTL
<1> QED
  BY <1>1, AnswersFollow, NextKeeps

(* Where entries are does not matter. *)
LEMMA MovedIsAnswer ==
    ASSUME Answers, Answers', Held' = Held, NEW k \in Keys PROVE ValueOf(k)' = ValueOf(k)
<1>1. CASE \E e \in Held : e.key = k
  BY <1>1 DEF Answers
<1>2. CASE \A e \in Held : e.key # k
  BY <1>2 DEF Answers
<1> QED
  BY <1>1, <1>2

(* An entry that is written is the answer for its key and for no other. *)
LEMMA WrittenIsAnswer ==
    ASSUME Answers, Answers', NEW k \in Keys, NEW v,
           Held' = {e \in Held : e.key # k} \cup {[key |-> k, val |-> v]}
    PROVE  \A j \in Keys : ValueOf(j)' = IF j = k THEN v ELSE ValueOf(j)
<1>1. ValueOf(k)' = v
  BY DEF Answers
<1>2. ASSUME NEW j \in Keys \ {k} PROVE ValueOf(j)' = ValueOf(j)
  <2>1. CASE \E e \in Held : e.key = j
    BY <1>2, <2>1 DEF Answers
  <2>2. CASE \A e \in Held : e.key # j
    BY <1>2, <2>2 DEF Answers
  <2> QED
    BY <2>1, <2>2
<1> QED
  BY <1>1, <1>2

Content == [k \in Keys |-> ValueOf(k)]

LEMMA PutStep ==
    ASSUME Answers, Answers', NEW k \in Keys, NEW v \in Vals, UNCHANGED result,
           Held' = {e \in Held : e.key # k} \cup {[key |-> k, val |-> v]}
    PROVE  Map!Put(k, v)
<1>1. \A j \in Keys : ValueOf(j)' = IF j = k THEN v ELSE ValueOf(j)
  BY WrittenIsAnswer
<1>2. [j \in Keys |-> ValueOf(j)]' = [[j \in Keys |-> ValueOf(j)] EXCEPT ![k] = v]
  BY <1>1
<1> QED
  BY <1>2 DEF Map!Put

LEMMA SilentStep ==
    ASSUME Answers, Answers', UNCHANGED result, Held' = Held
    PROVE  UNCHANGED Map!vars
  BY MovedIsAnswer DEF Map!vars

(* Nothing but the array holds entries while no growth is under way. *)
LEMMA IdleHolds ==
    ASSUME ~grow.active
    PROVE  Held = {slots[s] : s \in Used(slots)}
  BY DEF Held, Unmoved

LEMMA StoreRefines ==
    ASSUME IInv, Answers, Answers', Idle, NEW k \in Keys, NEW v \in Vals, NEW s, Store(k, v, s),
           ~Overloaded => s \in DOMAIN slots /\ IsFirstEmpty(k, s),
           \A t \in Used(slots) : slots[t].key # k
    PROVE  Map!Put(k, v) \/ UNCHANGED Map!vars
<1>1. TypeOK /\ Reachable /\ Distinct /\ ~grow.active /\ UNCHANGED result
  BY DEF IInv, WalksRight, Idle, Store
<1>2. Held = {slots[t] : t \in Used(slots)}
  BY <1>1, IdleHolds
<1>3. CASE ~Overloaded
  <2>1. /\ cap' = cap /\ slots' = [slots EXCEPT ![s] = [key |-> k, val |-> v]]
        /\ grow' = grow /\ s \in DOMAIN slots /\ IsFirstEmpty(k, s)
    BY <1>3 DEF Store
  <2>2. /\ slots'[s] = [key |-> k, val |-> v]
        /\ \A t \in DOMAIN slots \ {s} : slots'[t] = slots[t]
        /\ Used(slots') = Used(slots) \cup {s} /\ s \notin Used(slots)
    BY <1>1, <2>1, StoreEntry
  <2>3. Held' = {slots'[t] : t \in Used(slots')}
    BY <1>1, <2>1 DEF Held, Unmoved
  <2>4. Held' = {e \in Held : e.key # k} \cup {[key |-> k, val |-> v]}
    BY <1>2, <2>2, <2>3 DEF Used
  <2> QED
    BY <1>1, <2>4, PutStep
<1>4. CASE Overloaded
  <2>1. /\ grow' = [active |-> TRUE, old |-> slots, next |-> 0, key |-> k, val |-> v]
        /\ slots' = Blank(2 * cap)
    BY <1>4 DEF Store
  <2>2. 2 * cap \in Nat /\ DOMAIN slots = 0..(cap - 1) /\ cap \in Nat
    BY <1>1 DEF TypeOK
  <2>3. Used(slots') = {}
    BY <2>1, <2>2, EmptyTable
  <2>4. Unmoved' = Used(slots) /\ grow'.old = slots
    BY <2>1, <2>2 DEF Unmoved, Used
  <2>5. Held' = Held
    BY <1>2, <2>3, <2>4 DEF Held
  <2> QED
    BY <1>1, <2>5, SilentStep
<1> QED
  BY <1>3, <1>4

LEMMA ReplaceRefines ==
    ASSUME IInv, Answers, Answers', NEW k \in Keys, NEW v \in Vals, Replace(k, v)
    PROVE  Map!Put(k, v) \/ UNCHANGED Map!vars
<1>1. TypeOK /\ LoadBounded /\ Reachable /\ Distinct /\ Idle /\ ~grow.active
  BY DEF IInv, WalksRight, Replace, Idle
<1>2. CASE Found(k)
  <2>1. /\ slots' = [slots EXCEPT ![Where(k)] = [key |-> k, val |-> v]]
        /\ UNCHANGED <<grow, result>>
    BY <1>2 DEF Replace
  <2>2. PICK w \in Used(slots) : w = Where(k) /\ slots[w].key = k
    BY <1>2, FoundIsStored
  <2>3. /\ slots'[w] = [key |-> k, val |-> v] /\ DOMAIN slots' = DOMAIN slots
        /\ \A t \in DOMAIN slots \ {w} : slots'[t] = slots[t]
        /\ w \in DOMAIN slots /\ slots'[w] # Absent
    BY <1>1, <2>1, <2>2, AbsentAssumption DEF TypeOK, Used
  <2>4. Used(slots') = Used(slots)
    BY <2>2, <2>3 DEF Used
  <2>5. \A t \in Used(slots) \ {w} : slots[t].key # k
    BY <1>1, <2>2 DEF Distinct
  <2>6. Held = {slots[t] : t \in Used(slots)} /\ Held' = {slots'[t] : t \in Used(slots')}
    BY <1>1, <2>1 DEF Held, Unmoved
  <2>7. \A t \in Used(slots) \ {w} : slots'[t] = slots[t]
    BY <2>3 DEF Used
  <2>8. Held' = {e \in Held : e.key # k} \cup {[key |-> k, val |-> v]}
    BY <2>2, <2>3, <2>4, <2>5, <2>6, <2>7
  <2> QED
    BY <2>1, <2>8, PutStep
<1>3. CASE ~Found(k)
  <2>1. \A t \in Used(slots) : slots[t].key # k
    BY <1>1, <1>3, StoredIsFound
  <2>2. FirstEmpty(k) \in DOMAIN slots /\ IsFirstEmpty(k, FirstEmpty(k))
    BY <1>1, HoleExists, WalkEnds
  <2> QED
    BY <1>1, <1>3, <2>1, <2>2, StoreRefines DEF Replace
<1> QED
  BY <1>2, <1>3

LEMMA MoveEntryRefines ==
    ASSUME IInv, Answers, Answers', MoveEntry PROVE UNCHANGED Map!vars
<1>1. /\ UNCHANGED result /\ grow.active /\ grow'.active /\ grow'.old = grow.old
      /\ Unmoved' = Unmoved \ {grow.next}
      /\ grow.next \in Unmoved <=> grow.old[grow.next] # Absent
  BY TurnFacts
<1>2. CASE grow.old[grow.next] = Absent
  <2>1. slots' = slots /\ Unmoved' = Unmoved
    BY <1>1, <1>2 DEF MoveEntry
  <2>2. Held' = Held
    BY <1>1, <2>1 DEF Held
  <2> QED
    BY <1>1, <2>2, SilentStep
<1>3. CASE grow.old[grow.next] # Absent
  <2>1. PICK s \in DOMAIN slots :
           /\ slots'[s] = grow.old[grow.next]
           /\ \A t \in DOMAIN slots \ {s} : slots'[t] = slots[t]
           /\ Used(slots') = Used(slots) \cup {s} /\ s \notin Used(slots)
    BY <1>3, TurnStores
  <2>2. \A t \in Used(slots) : slots'[t] = slots[t]
    BY <2>1 DEF Used
  <2>3. Held' = Held
    BY <1>1, <1>3, <2>1, <2>2 DEF Held
  <2> QED
    BY <1>1, <2>3, SilentStep
<1> QED
  BY <1>2, <1>3

LEMMA FinishGrowRefines ==
    ASSUME IInv, Answers, Answers', FinishGrow PROVE \E k \in Keys, v \in Vals : Map!Put(k, v)
<1> DEFINE s == FirstEmpty(grow.key)
<1>1. /\ grow.key \in Keys /\ grow.val \in Vals /\ Unmoved = {} /\ ~grow'.active
      /\ s \in DOMAIN slots /\ slots' = [slots EXCEPT ![s] = [key |-> grow.key, val |-> grow.val]]
      /\ cap' = cap /\ UNCHANGED result /\ IsFirstEmpty(grow.key, s)
      /\ \A t \in Used(slots) : slots[t].key # grow.key
      /\ TypeOK /\ Reachable /\ Distinct
  BY FinishFacts
<1> HIDE DEF s
<1>2. /\ slots'[s] = [key |-> grow.key, val |-> grow.val]
      /\ \A t \in DOMAIN slots \ {s} : slots'[t] = slots[t]
      /\ Used(slots') = Used(slots) \cup {s} /\ s \notin Used(slots)
  BY <1>1, StoreEntry
<1>3. Held = {slots[t] : t \in Used(slots)} /\ Held' = {slots'[t] : t \in Used(slots')}
  BY <1>1 DEF Held, Unmoved
<1>4. Held' = {e \in Held : e.key # grow.key} \cup {[key |-> grow.key, val |-> grow.val]}
  BY <1>1, <1>2, <1>3 DEF Used
<1> QED
  BY <1>1, <1>4, PutStep

LEMMA LookupRefines ==
    ASSUME IInv, Answers, NEW k \in Keys, Lookup(k) PROVE Map!Get(k)
<1>1. Reachable /\ ~grow.active /\ UNCHANGED <<slots, grow>>
  BY DEF IInv, WalksRight, Lookup, Idle
<1>2. Held = {slots[t] : t \in Used(slots)}
  BY <1>1, IdleHolds
<1>3. result' = ValueOf(k)
  <2>1. CASE Found(k)
    BY <1>2, <2>1, FoundIsStored DEF Lookup, Answers
  <2>2. CASE ~Found(k)
    BY <1>1, <1>2, <2>2, StoredIsFound DEF Lookup, Answers
  <2> QED
    BY <2>1, <2>2
<1>4. \A j : ValueOf(j)' = ValueOf(j)
  BY <1>1 DEF ValueOf, Used, Unmoved
<1>5. [j \in Keys |-> ValueOf(j)]' = [j \in Keys |-> ValueOf(j)]
  BY <1>4
<1> QED
  BY <1>3, <1>5 DEF Map!Get

LEMMA ResetRefines ==
    ASSUME IInv, Answers', NEW c \in Caps \cup {cap}, Reset(c) PROVE Map!Empty
<1>1. c \in Nat /\ slots' = Blank(c) /\ ~grow'.active /\ UNCHANGED result
  BY CapsAssumption DEF IInv, TypeOK, Reset, Idle
<1>2. Held' = {}
  BY <1>1, EmptyTable DEF Held, Unmoved
<1>3. \A j \in Keys : ValueOf(j)' = Absent
  BY <1>2 DEF Answers
<1>4. [j \in Keys |-> ValueOf(j)]' = [j \in Keys |-> Absent]
  BY <1>3
<1> QED
  BY <1>1, <1>4 DEF Map!Empty

LEMMA NextRefines == IInv /\ [Next]_vars => [Map!Next]_Map!vars
<1> SUFFICES ASSUME IInv, [Next]_vars PROVE [Map!Next]_Map!vars
  OBVIOUS
<1> Answers /\ Answers'
  BY AnswersNext
<1>1. CASE \E k \in Keys : Lookup(k)
  BY <1>1, LookupRefines DEF Map!Next
<1>2. CASE \E v \in Vals : InsertAt(v) \/ Insert(v)
  BY <1>2, InsertStores, StoreRefines DEF Map!Next
<1>3. CASE \E k \in Keys, v \in Vals : Replace(k, v)
  BY <1>3, ReplaceRefines DEF Map!Next
<1>4. CASE MoveEntry
  BY <1>4, MoveEntryRefines
<1>5. CASE FinishGrow
  BY <1>5, FinishGrowRefines DEF Map!Next
<1>6. CASE \E c \in Caps \cup {cap} : Reset(c)
  BY <1>6, ResetRefines DEF Map!Next
<1>7. CASE UNCHANGED vars
  BY <1>7, SilentStep DEF vars, Held, Used, Unmoved
<1> QED
  BY <1>1, <1>2, <1>3, <1>4, <1>5, <1>6, <1>7 DEF Next

LEMMA InitRefines == Init => Map!Init
<1> SUFFICES ASSUME Init PROVE Map!Init
  OBVIOUS
<1>1. cap \in Nat /\ slots = Blank(cap) /\ ~grow.active /\ result = Absent /\ IInv
  BY CapsAssumption, InitIInv DEF Init, None
<1>2. Held = {}
  BY <1>1, EmptyTable DEF Held, Unmoved
<1>3. \A k \in Keys : ValueOf(k) = Absent
  BY <1>1, <1>2, AnswersFollow DEF Answers
<1> QED
  BY <1>1, <1>3 DEF Map!Init

(***************************************************************************)
(* ShortPretokenCache is a map: whatever is inserted at a remembered slot, *)
(* at the end of a walk or in place, and however often the table grows, a  *)
(* lookup answers with what was stored last under its key.  Moving entries *)
(* is invisible; an insert that makes the table grow takes effect when the *)
(* growth is done.                                                         *)
(***************************************************************************)
THEOREM ImplementsKeyStore == Spec => ImplementsStore
<1>1. Init => Map!Init
  BY InitRefines
<1>2. IInv /\ [Next]_vars => [Map!Next]_Map!vars
  BY NextRefines
<1> QED
  BY <1>1, <1>2, Invariant, PTL DEF Spec, ImplementsStore, Map!Spec
=============================================================================
