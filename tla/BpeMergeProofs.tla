--------------------------- MODULE BpeMergeProofs ---------------------------
(***************************************************************************)
(* Proofs about the merge loops, for any word, any merge table and any     *)
(* width of lanes: what the loops keep of their list, that they take the   *)
(* lowest pair, that they implement LowestFirstMerge, and that a           *)
(* PairRankTable answers as their merge table does.                        *)
(***************************************************************************)
EXTENDS BpeMerge, PairRank, FiniteSets, TLAPS,
        NaturalsInduction, WellFoundedInduction, SequenceTheorems, FiniteSetTheorems

(* The list: neighbours of live positions are live and know each other. *)
Linked ==
    /\ N >= 1 => 1 \in live
    /\ \A p \in live :
          /\ next[p] # 0 => next[p] \in live /\ p < next[p] /\ prev[next[p]] = p
          /\ prev[p] # 0 => prev[p] \in live /\ next[prev[p]] = p

(* The heap has an entry for every pair that merges; dead positions start none. *)
HeapCovers ==
    /\ \A p \in live : Mergeable(p) => <<PairAt(p).rank, p>> \in heap
    /\ \A p \in (1..N) \ live : next[p] = 0

(* The arrays hold the ranks of the pairs there are. *)
RanksExact ==
    \A p \in 1..N :
        /\ p \in live /\ next[p] # 0 => ranks[p] = PairAt(p)
        /\ ~(p \in live /\ next[p] # 0) => ranks[p].rank = NoRank
LanesExact ==
    \A p \in 1..N :
        /\ p \in live /\ next[p] # 0 => lanes[p] = Lane(PairAt(p).rank, p)
        /\ ~(p \in live /\ next[p] # 0) => lanes[p] = NoRank

Queued ==
    /\ input.core = "heap" => HeapCovers
    /\ input.core = "scan" => RanksExact
    /\ input.core = "lanes" => LanesExact

(* Compaction writes behind what it has yet to read. *)
Compacting ==
    /\ at \in live /\ write < at
    /\ \A q \in live : q >= at /\ next[q] # 0 => PairAt(q).rank = NoRank
    /\ \A k \in 1..(write - 1) : Look(symbols[k], symbols[k + 1]).rank = NoRank
    /\ write # 0 => Look(symbols[write], symbols[at]).rank = NoRank

IInv ==
    /\ TypeOK
    /\ Linked
    /\ phase = "merge" => N >= 2 /\ write = 0 /\ at = 1 /\ Queued
    /\ phase = "compact" => Compacting
    /\ Irreducible
-----------------------------------------------------------------------------
(* The word and the answers of the merge table have their types. *)
LEMMA InputType ==
    ASSUME IsInput(input)
    PROVE  /\ N \in Nat
           /\ input.word \in [1..N -> Ids]
           /\ \A a \in Ids, b \in Ids : Look(a, b) \in [token: Ids, rank: 0..NoRank]
BY DEF IsInput, N, Look

(* Division undoes the packing of a rank and a position. *)
LEMMA Unpack ==
    ASSUME NEW b \in Nat \ {0}, NEW q \in Nat, NEW r \in 0..(b - 1)
    PROVE  (q * b + r) % b = r /\ (q * b + r) \div b = q
OBVIOUS

(* Multiples of the span are at least a span apart. *)
LEMMA SpansApart ==
    ASSUME NEW b \in Nat \ {0}, NEW q \in Nat, NEW s \in Nat, q < s
    PROVE  q * b + b <= s * b
OBVIOUS

(* The floor is one span below the end of the word. *)
LEMMA Floor ==
    NoMergeFloor = LaneSpan - PosSpan /\ NoMergeFloor \in Nat /\ NoMergeFloor <= NoRank
<1>1. NoRank \in Nat /\ PosSpan \in Nat \ {0} /\ PosSpan <= LaneSpan
    BY SpansAssumption
<1> DEFINE q == PosSpan - 1
           r == LaneSpan - PosSpan
<1>2. q \in Nat /\ r \in 0..(LaneSpan - 1) /\ LaneSpan \in Nat \ {0}
    BY <1>1 DEF LaneSpan
<1>3. q * LaneSpan + r = NoRank * PosSpan
    BY <1>1 DEF LaneSpan
<1>4. (q * LaneSpan + r) % LaneSpan = r
    <2> HIDE DEF q, r
    <2> QED BY <1>2, Unpack
<1> QED BY <1>1, <1>2, <1>3, <1>4 DEF NoMergeFloor, LaneSpan

(* A rank that fits a lane is packed without loss, below the floor. *)
LEMMA LaneOfMerge ==
    ASSUME NEW rank \in Nat, NEW p \in 1..PosSpan, (rank + 2) * PosSpan <= LaneSpan
    PROVE  /\ Lane(rank, p) = rank * PosSpan + (p - 1)
           /\ Lane(rank, p) % PosSpan = p - 1
           /\ Lane(rank, p) \div PosSpan = rank
           /\ Lane(rank, p) \in Nat /\ Lane(rank, p) < NoMergeFloor
<1>1. NoRank \in Nat /\ PosSpan \in Nat \ {0} /\ LaneSpan \in Nat \ {0}
    BY SpansAssumption DEF LaneSpan
<1> DEFINE lane == rank * PosSpan + (p - 1)
<1>2. rank * PosSpan \in Nat /\ (rank + 2) * PosSpan = rank * PosSpan + PosSpan + PosSpan
    BY <1>1
<1>3. lane \in Nat /\ lane < LaneSpan - PosSpan
    BY <1>1, <1>2
<1>4. lane % LaneSpan = lane
    <2>1. lane \in 0..(LaneSpan - 1)
        BY <1>1, <1>3
    <2> HIDE DEF lane
    <2>2. 0 * LaneSpan + lane = lane
        BY <1>1, <1>3
    <2> QED BY <1>1, <2>1, <2>2, Unpack
<1>5. lane % PosSpan = p - 1 /\ lane \div PosSpan = rank
    <2>1. p - 1 \in 0..(PosSpan - 1)
        BY <1>1
    <2> QED BY <1>1, <2>1, Unpack
<1> QED BY <1>3, <1>4, <1>5, Floor DEF Lane

(* A lane without a merge is at the floor or above it, and in a machine word. *)
LEMMA LaneOfNoMerge ==
    ASSUME NEW p \in 1..PosSpan
    PROVE  Lane(NoRank, p) >= NoMergeFloor
<1>1. NoRank \in Nat /\ PosSpan \in Nat \ {0} /\ PosSpan <= LaneSpan
    BY SpansAssumption
<1> DEFINE q == PosSpan - 1
           r == LaneSpan - PosSpan + (p - 1)
<1>2. q \in Nat /\ r \in 0..(LaneSpan - 1) /\ LaneSpan \in Nat \ {0}
    BY <1>1 DEF LaneSpan
<1>3. q * LaneSpan + r = NoRank * PosSpan + (p - 1)
    BY <1>1 DEF LaneSpan
<1>4. (q * LaneSpan + r) % LaneSpan = r
    <2> HIDE DEF q, r
    <2> QED BY <1>2, Unpack
<1> QED BY <1>1, <1>2, <1>3, <1>4, Floor DEF Lane, LaneSpan

(* Any lane is a machine word. *)
LEMMA LaneType ==
    ASSUME NEW rank \in 0..NoRank, NEW p \in Nat \ {0}
    PROVE  Lane(rank, p) \in 0..NoRank
<1>1. NoRank \in Nat /\ PosSpan \in Nat \ {0} /\ LaneSpan \in Nat \ {0}
    BY SpansAssumption DEF LaneSpan
<1> DEFINE lane == rank * PosSpan + (p - 1)
<1>2. lane \in Nat
    <2>1. rank * PosSpan \in Nat
        BY <1>1
    <2> QED BY <2>1
<1> HIDE DEF lane
<1>3. lane % LaneSpan \in 0..(LaneSpan - 1)
    BY <1>1, <1>2
<1> QED BY <1>1, <1>3 DEF Lane, lane, LaneSpan

(* The initial state satisfies the invariant: the list is the word. *)
LEMMA InitInv == Init => IInv
<1> SUFFICES ASSUME Init PROVE IInv
    OBVIOUS
<1> DEFINE pair(p) == IF p < N THEN Look(symbols[p], symbols[p + 1])
                      ELSE [token |-> symbols[p], rank |-> NoRank]
<1>1. IsInput(input)
    BY InputsAssumption DEF Init
<1>2. /\ N \in Nat /\ symbols \in [1..N -> Ids]
      /\ \A a \in Ids, b \in Ids : Look(a, b) \in [token: Ids, rank: 0..NoRank]
    BY <1>1, InputType DEF Init
<1>3. NoRank \in Nat
    BY SpansAssumption
<1>4. \A p \in 1..N : pair(p) \in [token: Ids, rank: 0..NoRank]
    <2> TAKE p \in 1..N
    <2>1. CASE p < N
        BY <1>2, <2>1
    <2>2. CASE ~(p < N)
        BY <1>2, <1>3, <2>2
    <2> QED BY <2>1, <2>2
<1>5. /\ phase = IF N < 2 THEN "done" ELSE "merge"
      /\ live = 1..N
      /\ next = [p \in 1..N |-> IF p < N THEN p + 1 ELSE 0]
      /\ prev = [p \in 1..N |-> p - 1]
      /\ heap = IF input.core # "heap" THEN {}
                ELSE {<<pair(p).rank, p>> : p \in {q \in 1..N : pair(q).rank # NoRank}}
      /\ ranks = [p \in 1..N |-> pair(p)]
      /\ lanes = [p \in 1..N |-> IF p < N THEN Lane(pair(p).rank, p) ELSE NoRank]
      /\ write = IF N < 2 THEN N ELSE 0
      /\ at = IF N < 2 THEN 0 ELSE 1
    BY DEF Init
<1>6. \A p \in 1..N : p < N => pair(p) = PairAt(p)
    BY <1>2, <1>5 DEF PairAt
<1> HIDE DEF pair
<1>7. TypeOK
    <2>1. heap \in SUBSET ((0..(NoRank - 1)) \X (1..N))
        BY <1>3, <1>4, <1>5
    <2>2. lanes \in [1..N -> 0..NoRank]
        <3>1. ASSUME NEW p \in 1..N
              PROVE  Lane(pair(p).rank, p) \in 0..NoRank /\ NoRank \in 0..NoRank
            <4>1. pair(p).rank \in 0..NoRank
                BY <1>4
            <4>2. p \in Nat \ {0} /\ NoRank \in 0..NoRank
                BY <1>2, <1>3
            <4>3. Lane(pair(p).rank, p) \in 0..NoRank
                BY <4>1, <4>2, LaneType
            <4> QED BY <4>2, <4>3
        <3> QED BY <1>5, <3>1
    <2>3. ranks \in [1..N -> [token: Ids, rank: 0..NoRank]]
        BY <1>4, <1>5
    <2>4. next \in [1..N -> 0..N] /\ prev \in [1..N -> 0..N] /\ live \in SUBSET (1..N)
        BY <1>2, <1>5
    <2>5. phase \in {"merge", "compact", "done"} /\ write \in 0..N /\ at \in 0..N
        BY <1>2, <1>5
    <2> QED BY <1>1, <1>2, <2>1, <2>2, <2>3, <2>4, <2>5 DEF TypeOK
<1>8. Linked
    BY <1>2, <1>5 DEF Linked
<1>9. Queued
    <2>1. input.core = "heap" => HeapCovers
        <3> SUFFICES ASSUME input.core = "heap" PROVE HeapCovers
            OBVIOUS
        <3>1. ASSUME NEW p \in live, Mergeable(p)
              PROVE  <<PairAt(p).rank, p>> \in heap
            <4>1. p \in 1..N /\ p < N
                BY <1>2, <1>5, <3>1 DEF Mergeable
            <4>2. pair(p) = PairAt(p) /\ pair(p).rank # NoRank
                BY <1>6, <3>1, <4>1 DEF Mergeable
            <4> QED BY <1>5, <4>1, <4>2
        <3> QED BY <1>5, <3>1 DEF HeapCovers
    <2>2. RanksExact
        BY <1>2, <1>5, <1>6 DEF RanksExact, pair
    <2>3. LanesExact
        BY <1>2, <1>5, <1>6 DEF LanesExact
    <2> QED BY <2>1, <2>2, <2>3 DEF Queued
<1>10. Irreducible
    BY <1>2, <1>5 DEF Irreducible
<1> QED BY <1>2, <1>5, <1>7, <1>8, <1>9, <1>10 DEF IInv

(* A merge keeps the list, and changes the pairs that touch the new symbol only. *)
LEMMA AfterMerge ==
    ASSUME TypeOK, Linked, NEW p \in live, next[p] # 0, NEW token \in Ids, Merge(p, token)
    PROVE  /\ Linked'
           /\ symbols' \in [1..N -> Ids] /\ next' \in [1..N -> 0..N]
           /\ prev' \in [1..N -> 0..N] /\ live' \in SUBSET (1..N)
           /\ N' = N /\ next[p] \in live /\ next[p] # p
           /\ \A q \in Touched(p) :
                 /\ q \in live' /\ next'[q] # 0
                 /\ PairAt(q)' = Refreshed(q, p, token, next[next[p]])
           /\ \A q \in (1..N) \ Touched(p) :
                 q \in live' /\ next'[q] # 0 =>
                    /\ q \in live /\ q # p /\ q # next[p] /\ next[q] # 0
                    /\ PairAt(q)' = PairAt(q)
           /\ \A q \in (1..N) \ {p, next[p]} :
                 ~(q \in live' /\ next'[q] # 0) => ~(q \in live /\ next[q] # 0)
<1> DEFINE dead == next[p]
           right == next[dead]
<1>1. /\ N \in Nat /\ symbols \in [1..N -> Ids] /\ next \in [1..N -> 0..N]
      /\ prev \in [1..N -> 0..N] /\ live \in SUBSET (1..N)
      /\ p \in 1..N
    BY InputType DEF TypeOK
<1>2. /\ symbols' = [symbols EXCEPT ![p] = token]
      /\ next' = [q \in 1..N |-> IF q = p THEN right
                                 ELSE IF q = dead /\ input.core = "heap" THEN 0 ELSE next[q]]
      /\ prev' = IF right = 0 THEN prev ELSE [prev EXCEPT ![right] = p]
      /\ live' = live \ {dead}
      /\ input' = input
    BY DEF Merge
<1>3. /\ dead \in live /\ p < dead /\ prev[dead] = p /\ dead \in 1..N
      /\ right # 0 => right \in live /\ dead < right /\ prev[right] = dead
    BY <1>1 DEF Linked
<1>4. /\ prev[p] # 0 => prev[p] \in live /\ next[prev[p]] = p /\ prev[p] < p
    BY <1>1 DEF Linked
<1>5. N' = N
    BY <1>2 DEF N
<1>6. ASSUME NEW q \in live', q # p
      PROVE  /\ q \in live /\ q \in 1..N /\ q # dead
             /\ next'[q] = next[q] /\ next[q] # dead
             /\ next[q] # 0 => next[q] \in live'
             /\ next[q] = p => q = prev[p]
    <2>1. q \in live /\ q # dead /\ q \in 1..N
        BY <1>1, <1>2, <1>6
    <2>2. next[q] # 0 => next[q] \in live /\ prev[next[q]] = q
        BY <2>1 DEF Linked
    <2> QED BY <1>1, <1>2, <1>3, <1>6, <2>1, <2>2
<1>7. next'[p] = right /\ p \in live'
    BY <1>1, <1>2, <1>3
<1>8. /\ symbols' \in [1..N -> Ids] /\ next' \in [1..N -> 0..N]
      /\ prev' \in [1..N -> 0..N] /\ live' \in SUBSET (1..N)
    <2>1. right \in 0..N
        BY <1>1, <1>3
    <2>2. next' \in [1..N -> 0..N]
        BY <1>1, <1>2, <2>1
    <2>3. prev' \in [1..N -> 0..N]
        <3>1. CASE right = 0
            BY <1>1, <1>2, <3>1
        <3>2. CASE right # 0
            BY <1>1, <1>2, <1>3, <3>2
        <3> QED BY <3>1, <3>2
    <2> QED BY <1>1, <1>2, <2>2, <2>3
<1>9. Linked'
    <2>1. (N >= 1)' => 1 \in live'
        BY <1>1, <1>2, <1>3, <1>5 DEF Linked
    <2>2. ASSUME NEW q \in live', next'[q] # 0
          PROVE  next'[q] \in live' /\ q < next'[q] /\ prev'[next'[q]] = q
        <3>1. CASE q = p
            BY <1>1, <1>2, <1>3, <1>7, <2>2, <3>1
        <3>2. CASE q # p
            <4>1. next[q] \in live /\ q < next[q] /\ prev[next[q]] = q
                BY <1>6, <2>2, <3>2 DEF Linked
            <4>2. next[q] # right \/ right = 0
                BY <1>3, <1>6, <3>2, <4>1
            <4> QED BY <1>1, <1>2, <1>6, <2>2, <3>2, <4>1, <4>2
        <3> QED BY <3>1, <3>2
    <2>3. ASSUME NEW q \in live', prev'[q] # 0
          PROVE  prev'[q] \in live' /\ next'[prev'[q]] = q
        <3>1. q \in live /\ q # dead /\ q \in 1..N
            BY <1>1, <1>2
        <3>2. CASE right # 0 /\ q = right
            BY <1>1, <1>2, <1>3, <1>7, <3>2
        <3>3. CASE ~(right # 0 /\ q = right)
            <4>1. prev'[q] = prev[q] /\ prev[q] # 0
                BY <1>1, <1>2, <2>3, <3>1, <3>3
            <4>2. prev[q] \in live /\ next[prev[q]] = q
                BY <3>1, <4>1 DEF Linked
            <4>3. prev[q] # dead /\ prev[q] # p
                BY <1>1, <3>1, <3>3, <4>1, <4>2, SMTT(30)
            <4> QED BY <1>1, <1>2, <4>1, <4>2, <4>3
        <3> QED BY <3>2, <3>3
    <2> QED BY <2>1, <2>2, <2>3 DEF Linked
<1>10. ASSUME NEW q \in Touched(p)
       PROVE  /\ q \in live' /\ next'[q] # 0
              /\ PairAt(q)' = Refreshed(q, p, token, right)
    <2>1. CASE q = p
        <3>1. right # 0
            BY <1>10, <2>1 DEF Touched
        <3>2. symbols'[p] = token /\ symbols'[right] = symbols[right]
            BY <1>1, <1>2, <1>3, <3>1
        <3>3. PairAt(p)' = Look(token, symbols[right])
            BY <1>2, <1>7, <3>2 DEF PairAt, Look
        <3>4. Refreshed(p, p, token, right) = Look(token, symbols[right])
            BY DEF Refreshed
        <3> QED BY <1>7, <2>1, <3>1, <3>3, <3>4
    <2>2. CASE q # p
        <3>1. q = prev[p] /\ q # 0
            BY <1>10, <2>2 DEF Touched
        <3>2. q \in live /\ next[q] = p /\ q # dead /\ q \in 1..N
            BY <1>1, <1>3, <1>4, <3>1
        <3>3. q \in live' /\ next'[q] = p
            BY <1>2, <2>2, <3>2
        <3>4. symbols'[q] = symbols[q] /\ symbols'[p] = token
            BY <1>1, <1>2, <2>2, <3>2
        <3>5. PairAt(q)' = Look(symbols[q], token)
            BY <1>2, <3>3, <3>4 DEF PairAt, Look
        <3>6. Refreshed(q, p, token, right) = Look(symbols[q], token)
            BY <2>2 DEF Refreshed
        <3> QED BY <1>1, <3>2, <3>3, <3>5, <3>6
    <2> QED BY <2>1, <2>2
<1>11. ASSUME NEW q \in (1..N) \ Touched(p), q \in live', next'[q] # 0
       PROVE  /\ q \in live /\ q # p /\ q # dead /\ next[q] # 0
              /\ PairAt(q)' = PairAt(q)
    <2>1. q # p
        BY <1>7, <1>11 DEF Touched
    <2>2. q # prev[p]
        BY <1>11, <2>1 DEF Touched
    <2>3. /\ q \in live /\ q # dead /\ next'[q] = next[q] /\ next[q] # 0
          /\ next[q] # p /\ next[q] # dead
        BY <1>6, <1>11, <2>1, <2>2
    <2>4. symbols'[q] = symbols[q] /\ symbols'[next[q]] = symbols[next[q]]
        BY <1>1, <1>2, <2>1, <2>3
    <2> QED BY <1>2, <2>1, <2>3, <2>4 DEF PairAt, Look
<1>12. ASSUME NEW q \in (1..N) \ {p, dead}, ~(q \in live' /\ next'[q] # 0)
       PROVE  ~(q \in live /\ next[q] # 0)
    BY <1>2, <1>12
<1> QED BY <1>3, <1>5, <1>8, <1>9, <1>10, <1>11, <1>12

(* What a step establishes besides the invariant: a merge takes the lowest pair. *)
TakesLowest(p) ==
    /\ Lowest(p)
    /\ Merge(p, PairAt(p).token)

(* Lowest pairs merge into tokens, and are pairs of live positions. *)
LEMMA LowestType ==
    ASSUME TypeOK, Linked, NEW p, Lowest(p)
    PROVE  p \in live /\ next[p] # 0 /\ PairAt(p).token \in Ids
<1>1. p \in live /\ next[p] # 0
    BY DEF Lowest, Mergeable
<1>2. next[p] \in live
    BY <1>1 DEF Linked
<1>3. symbols[p] \in Ids /\ symbols[next[p]] \in Ids
    BY <1>1, <1>2 DEF TypeOK
<1>4. PairAt(p) \in [token: Ids, rank: 0..NoRank]
    BY <1>3, InputType DEF PairAt, TypeOK
<1> QED BY <1>1, <1>4

(* The type of the pair that is looked at again, and of a lane made of it. *)
LEMMA RefreshedType ==
    ASSUME TypeOK, Linked, NEW p \in live, next[p] # 0, NEW token \in Ids, NEW q \in Touched(p)
    PROVE  /\ q \in 1..N
           /\ Refreshed(q, p, token, next[next[p]]) \in [token: Ids, rank: 0..NoRank]
           /\ Lane(Refreshed(q, p, token, next[next[p]]).rank, q) \in 0..NoRank
<1>1. N \in Nat /\ live \in SUBSET (1..N)
    BY InputType DEF TypeOK
<1>2. q \in live /\ (q = p => next[next[p]] # 0)
    BY DEF Touched, Linked
<1>3. next[p] \in live
    BY DEF Linked
<1>4. symbols[q] \in Ids /\ (q = p => symbols[next[next[p]]] \in Ids)
    BY <1>1, <1>2, <1>3, SMTT(30) DEF TypeOK
<1>5. Refreshed(q, p, token, next[next[p]]) \in [token: Ids, rank: 0..NoRank]
    <2>1. CASE q = p
        BY <1>4, <2>1, InputType DEF Refreshed, TypeOK
    <2>2. CASE q # p
        BY <1>4, <2>2, InputType DEF Refreshed, TypeOK
    <2> QED BY <2>1, <2>2
<1>6. q \in Nat \ {0} /\ Refreshed(q, p, token, next[next[p]]).rank \in 0..NoRank
    BY <1>1, <1>2, <1>5
<1> QED BY <1>1, <1>2, <1>5, <1>6, LaneType

(* A merge that leaves its queue right leaves the invariant right. *)
LEMMA MergeInv ==
    ASSUME IInv, phase = "merge", NEW p, TakesLowest(p), Queued',
           heap' \in SUBSET ((0..(NoRank - 1)) \X (1..N)),
           ranks' \in [1..N -> [token: Ids, rank: 0..NoRank]],
           lanes' \in [1..N -> 0..NoRank]
    PROVE  IInv'
<1>1. TypeOK /\ Linked /\ N >= 2 /\ write = 0 /\ at = 1 /\ Queued
    BY DEF IInv
<1>2. Lowest(p) /\ Merge(p, PairAt(p).token)
    BY DEF TakesLowest
<1>3. p \in live /\ next[p] # 0 /\ PairAt(p).token \in Ids
    BY <1>1, <1>2, LowestType
<1>4. /\ Linked' /\ N' = N
      /\ symbols' \in [1..N -> Ids] /\ next' \in [1..N -> 0..N]
      /\ prev' \in [1..N -> 0..N] /\ live' \in SUBSET (1..N)
    BY <1>1, <1>2, <1>3, AfterMerge
<1>5. input' = input /\ phase' = phase /\ write' = write /\ at' = at
    BY <1>2 DEF Merge
<1>6. IsInput(input)'
    BY <1>1, <1>5 DEF TypeOK, IsInput
<1>7. TypeOK'
    BY <1>1, <1>4, <1>5, <1>6 DEF TypeOK
<1>8. Irreducible'
    BY <1>5 DEF Irreducible
<1> QED BY <1>1, <1>4, <1>5, <1>7, <1>8 DEF IInv

LEMMA PopMergeStep == IInv /\ PopMerge => IInv' /\ \E p \in live : TakesLowest(p)
<1> SUFFICES ASSUME IInv, PopMerge PROVE IInv' /\ \E p \in live : TakesLowest(p)
    OBVIOUS
<1>1. TypeOK /\ Linked /\ HeapCovers /\ phase = "merge" /\ input.core = "heap"
    BY DEF IInv, PopMerge, Queued
<1>2. PICK e \in heap : 
          /\ IsLeast(e) /\ Valid(e)
          /\ Merge(e[2], PairAt(e[2]).token)
          /\ heap' = (heap \ {e}) \cup
                 {<<Refreshed(q, e[2], PairAt(e[2]).token, next[next[e[2]]]).rank, q>> :
                    q \in {r \in Touched(e[2]) :
                             Refreshed(r, e[2], PairAt(e[2]).token, next[next[e[2]]]).rank # NoRank}}
    BY DEF PopMerge, PairAt
<1> DEFINE p == e[2]
           token == PairAt(p).token
           fresh(q) == Refreshed(q, p, token, next[next[p]])
<1>3. UNCHANGED <<ranks, lanes>>
    BY DEF PopMerge
<1>4. N \in Nat /\ live \in SUBSET (1..N) /\ NoRank \in Nat
    BY <1>1, InputType, SpansAssumption DEF TypeOK
<1>5. e[1] \in 0..(NoRank - 1) /\ p \in 1..N /\ e = <<e[1], p>>
    BY <1>1, <1>2 DEF TypeOK
<1>6. next[p] # 0 /\ PairAt(p).rank = e[1] /\ p \in live
    BY <1>1, <1>2, <1>5 DEF Valid, HeapCovers, PairAt
<1>7. Lowest(p)
    <2>1. Mergeable(p)
        BY <1>4, <1>5, <1>6 DEF Mergeable
    <2>2. ASSUME NEW q \in live, Mergeable(q)
          PROVE  \/ PairAt(p).rank < PairAt(q).rank
                 \/ PairAt(p).rank = PairAt(q).rank /\ p <= q
        <3>1. <<PairAt(q).rank, q>> \in heap
            BY <1>1, <2>2 DEF HeapCovers
        <3> QED BY <1>2, <1>6, <3>1 DEF IsLeast
    <2> QED BY <2>1, <2>2 DEF Lowest
<1>8. TakesLowest(p)
    BY <1>2, <1>7 DEF TakesLowest
<1>9. token \in Ids
    BY <1>1, <1>7, LowestType
<1>10. /\ N' = N /\ next[p] \in live /\ next[p] # p
       /\ \A q \in Touched(p) : PairAt(q)' = fresh(q)
       /\ \A q \in (1..N) \ Touched(p) :
             q \in live' /\ next'[q] # 0 =>
                q \in live /\ q # p /\ next[q] # 0 /\ PairAt(q)' = PairAt(q)
    BY <1>1, <1>2, <1>6, <1>9, AfterMerge
<1>11. \A q \in Touched(p) : q \in 1..N /\ fresh(q).rank \in 0..NoRank
    BY <1>1, <1>6, <1>9, RefreshedType
<1>12. heap' = (heap \ {e}) \cup {<<fresh(q).rank, q>> : q \in {r \in Touched(p) : fresh(r).rank # NoRank}}
    BY <1>2
<1>13. live' = live \ {next[p]}
    BY <1>8 DEF TakesLowest, Merge, p
<1>14. next' = [q \in 1..N |-> IF q = p THEN next[next[p]]
                               ELSE IF q = next[p] /\ input.core = "heap" THEN 0 ELSE next[q]]
    BY <1>2 DEF Merge
<1> HIDE DEF p, token, fresh
<1>15. heap' \in SUBSET ((0..(NoRank - 1)) \X (1..N))
    <2>1. heap \in SUBSET ((0..(NoRank - 1)) \X (1..N))
        BY <1>1 DEF TypeOK
    <2> QED BY <1>4, <1>11, <1>12, <2>1
<1>16. HeapCovers'
    <2>1. ASSUME NEW q \in live', Mergeable(q)'
          PROVE  <<PairAt(q).rank, q>>' \in heap'
        <3>1. q \in 1..N /\ next'[q] # 0 /\ PairAt(q)'.rank # NoRank
            BY <1>4, <1>13, <2>1 DEF Mergeable
        <3>2. CASE q \in Touched(p)
            <4>1. PairAt(q)' = fresh(q)
                BY <1>10, <3>2
            <4> QED BY <1>12, <3>1, <3>2, <4>1
        <3>3. CASE q \notin Touched(p)
            <4>1. q \in live /\ q # p /\ next[q] # 0 /\ PairAt(q)' = PairAt(q)
                BY <1>10, <2>1, <3>1, <3>3
            <4>2. <<PairAt(q).rank, q>> \in heap
                BY <1>1, <3>1, <4>1 DEF HeapCovers, Mergeable
            <4>3. <<PairAt(q).rank, q>> # e
                BY <1>5, <4>1
            <4> QED BY <1>12, <4>1, <4>2, <4>3
        <3> QED BY <3>2, <3>3
    <2>2. ASSUME NEW q \in (1..N)' \ live'
          PROVE  next'[q] = 0
        <3>1. q \in 1..N /\ (q = next[p] \/ q \notin live)
            BY <1>10, <1>13, <2>2
        <3>2. CASE q = next[p]
            BY <1>1, <1>10, <1>14, <3>1, <3>2
        <3>3. CASE q # next[p]
            <4>1. q \notin live /\ q # p
                BY <1>6, <3>1, <3>3
            <4>2. next[q] = 0
                BY <1>1, <3>1, <4>1 DEF HeapCovers
            <4> QED BY <1>14, <3>1, <3>3, <4>1, <4>2
        <3> QED BY <3>2, <3>3
    <2> QED BY <2>1, <2>2 DEF HeapCovers
<1>17. Queued'
    BY <1>1, <1>2, <1>16 DEF Queued, Merge
<1>18. ranks' \in [1..N -> [token: Ids, rank: 0..NoRank]] /\ lanes' \in [1..N -> 0..NoRank]
    BY <1>1, <1>3 DEF TypeOK
<1>19. Merge(p, PairAt(p).token)
    BY <1>2 DEF p
<1> QED BY <1>1, <1>6, <1>8, <1>15, <1>17, <1>18, <1>19, MergeInv

LEMMA ScanMergeStep == IInv /\ ScanMerge => IInv' /\ \E p \in live : TakesLowest(p)
<1> SUFFICES ASSUME IInv, ScanMerge PROVE IInv' /\ \E p \in live : TakesLowest(p)
    OBVIOUS
<1>1. TypeOK /\ Linked /\ RanksExact /\ phase = "merge" /\ input.core = "scan"
    BY DEF IInv, ScanMerge, Queued
<1>2. PICK p \in 1..N :
          /\ ranks[p].rank # NoRank /\ IsFirstLeast(p)
          /\ Merge(p, ranks[p].token)
          /\ ranks' = [q \in 1..N |->
                 IF q \in Touched(p) THEN Refreshed(q, p, ranks[p].token, next[next[p]])
                 ELSE IF q \in {p, next[p]} THEN [ranks[q] EXCEPT !.rank = NoRank]
                 ELSE ranks[q]]
    BY DEF ScanMerge
<1> DEFINE token == PairAt(p).token
           fresh(q) == Refreshed(q, p, token, next[next[p]])
<1>3. UNCHANGED <<heap, lanes>>
    BY DEF ScanMerge
<1>4. N \in Nat /\ live \in SUBSET (1..N) /\ NoRank \in Nat
    BY <1>1, InputType, SpansAssumption DEF TypeOK
<1>5. p \in live /\ next[p] # 0 /\ ranks[p] = PairAt(p)
    BY <1>1, <1>2 DEF RanksExact
<1>6. Lowest(p)
    <2>1. \A q \in live : Mergeable(q) => ranks[q] = PairAt(q) /\ q \in 1..N
        BY <1>1, <1>4 DEF RanksExact, Mergeable
    <2> QED BY <1>2, <1>5, <2>1 DEF Lowest, Mergeable, IsFirstLeast
<1>7. TakesLowest(p)
    BY <1>2, <1>5, <1>6 DEF TakesLowest
<1>8. token \in Ids
    BY <1>1, <1>6, LowestType
<1>9. Merge(p, token)
    BY <1>2, <1>5
<1>10. /\ N' = N /\ next[p] \in live /\ next[p] # p
       /\ \A q \in Touched(p) :
             q \in live' /\ next'[q] # 0 /\ PairAt(q)' = fresh(q)
       /\ \A q \in (1..N) \ Touched(p) :
             q \in live' /\ next'[q] # 0 =>
                /\ q \in live /\ q # p /\ q # next[p] /\ next[q] # 0
                /\ PairAt(q)' = PairAt(q)
       /\ \A q \in (1..N) \ {p, next[p]} :
             ~(q \in live' /\ next'[q] # 0) => ~(q \in live /\ next[q] # 0)
    BY <1>1, <1>5, <1>8, <1>9, AfterMerge
<1>11. \A q \in Touched(p) : q \in 1..N /\ fresh(q) \in [token: Ids, rank: 0..NoRank]
    BY <1>1, <1>5, <1>8, RefreshedType
<1>12. ranks' = [q \in 1..N |-> IF q \in Touched(p) THEN fresh(q)
                                ELSE IF q \in {p, next[p]} THEN [ranks[q] EXCEPT !.rank = NoRank]
                                ELSE ranks[q]]
    BY <1>2, <1>5
<1> HIDE DEF token, fresh
<1>13. \A q \in 1..N : ranks[q] \in [token: Ids, rank: 0..NoRank]
    BY <1>1 DEF TypeOK
<1>14. ranks' \in [1..N -> [token: Ids, rank: 0..NoRank]]
    BY <1>4, <1>11, <1>12, <1>13
<1>15. RanksExact'
    <2>1. ASSUME NEW q \in 1..N, q \in live', next'[q] # 0
          PROVE  ranks'[q] = PairAt(q)'
        <3>1. CASE q \in Touched(p)
            BY <1>10, <1>12, <3>1
        <3>2. CASE q \notin Touched(p)
            <4>1. q \in live /\ q # p /\ q # next[p] /\ next[q] # 0 /\ PairAt(q)' = PairAt(q)
                BY <1>10, <2>1, <3>2
            <4>2. ranks[q] = PairAt(q)
                BY <1>1, <4>1 DEF RanksExact
            <4> QED BY <1>12, <3>2, <4>1, <4>2
        <3> QED BY <3>1, <3>2
    <2>2. ASSUME NEW q \in 1..N, ~(q \in live' /\ next'[q] # 0)
          PROVE  ranks'[q].rank = NoRank
        <3>1. q \notin Touched(p)
            BY <1>10, <2>2
        <3>2. CASE q \in {p, next[p]}
            BY <1>12, <1>13, <3>1, <3>2
        <3>3. CASE q \notin {p, next[p]}
            <4>1. ranks[q].rank = NoRank
                BY <1>1, <1>10, <2>2, <3>3 DEF RanksExact
            <4> QED BY <1>12, <3>1, <3>3, <4>1
        <3> QED BY <3>2, <3>3
    <2> QED BY <1>10, <2>1, <2>2 DEF RanksExact
<1>16. Queued'
    BY <1>1, <1>9, <1>15 DEF Queued, Merge
<1>17. heap' \in SUBSET ((0..(NoRank - 1)) \X (1..N)) /\ lanes' \in [1..N -> 0..NoRank]
    BY <1>1, <1>3 DEF TypeOK
<1> QED BY <1>1, <1>5, <1>7, <1>9, <1>14, <1>16, <1>17, MergeInv DEF token

(* Lanes are what they were packed from; the order of lanes is that of rank and position. *)
LEMMA LaneOfPair ==
    ASSUME TypeOK, Linked, LanesExact, input.core = "lanes", NEW q \in live, Mergeable(q)
    PROVE  /\ q \in 1..N /\ PairAt(q).rank \in Nat
           /\ lanes[q] = PairAt(q).rank * PosSpan + (q - 1)
           /\ lanes[q] % PosSpan = q - 1 /\ lanes[q] \div PosSpan = PairAt(q).token
           /\ lanes[q] \in Nat /\ lanes[q] < NoMergeFloor
<1>1. /\ N \in Nat /\ live \in SUBSET (1..N) /\ N <= PosSpan /\ PosSpan \in Nat
      /\ next[q] # 0 /\ PairAt(q).rank # NoRank
    BY InputType, SpansAssumption DEF TypeOK, IsInput, N, Mergeable
<1>2. q \in 1..N /\ q \in 1..PosSpan
    BY <1>1
<1>3. next[q] \in 1..N
    BY <1>1 DEF Linked
<1>4. symbols[q] \in Ids /\ symbols[next[q]] \in Ids
    BY <1>2, <1>3 DEF TypeOK
<1>5. PairAt(q) \in [token: Ids, rank: 0..NoRank]
    BY <1>4, InputType DEF PairAt, TypeOK
<1>6. PairAt(q).rank = PairAt(q).token /\ (PairAt(q).rank + 2) * PosSpan <= LaneSpan
    BY <1>1, <1>4 DEF PairAt, Look, TypeOK, IsInput
<1>7. PairAt(q).rank \in Nat
    BY <1>5, SpansAssumption
<1>8. lanes[q] = Lane(PairAt(q).rank, q)
    BY <1>1, <1>2 DEF LanesExact
<1> QED BY <1>2, <1>6, <1>7, <1>8, LaneOfMerge

(* Other lanes are at the floor or above it. *)
LEMMA LaneOfOther ==
    ASSUME TypeOK, LanesExact, input.core = "lanes", NEW q \in 1..N, ~Mergeable(q)
    PROVE  lanes[q] >= NoMergeFloor
<1>1. N \in Nat /\ N <= PosSpan /\ NoRank \in Nat /\ PosSpan \in Nat
    BY InputType, SpansAssumption DEF TypeOK, IsInput, N
<1>2. CASE q \in live /\ next[q] # 0
    <2>1. lanes[q] = Lane(NoRank, q)
        BY <1>2 DEF LanesExact, Mergeable
    <2>2. q \in 1..PosSpan
        BY <1>1
    <2> QED BY <2>1, <2>2, LaneOfNoMerge
<1>3. CASE ~(q \in live /\ next[q] # 0)
    <2>1. lanes[q] = NoRank
        BY <1>3 DEF LanesExact
    <2> QED BY <1>1, <2>1, Floor
<1> QED BY <1>2, <1>3

LEMMA LaneMergeStep == IInv /\ LaneMerge => IInv' /\ \E p \in live : TakesLowest(p)
<1> SUFFICES ASSUME IInv, LaneMerge PROVE IInv' /\ \E p \in live : TakesLowest(p)
    OBVIOUS
<1>1. TypeOK /\ Linked /\ LanesExact /\ phase = "merge" /\ input.core = "lanes"
    BY DEF IInv, LaneMerge, Queued
<1>2. PICK p \in 1..N : lanes[p] < NoMergeFloor /\ \A q \in 1..N : lanes[p] <= lanes[q]
    BY DEF LaneMerge
<1>3. /\ N \in Nat /\ live \in SUBSET (1..N) /\ NoRank \in Nat /\ PosSpan \in Nat \ {0}
      /\ \A q \in 1..N : lanes[q] \in Nat
      /\ NoMergeFloor \in Nat
    <2>1. N \in Nat /\ live \in SUBSET (1..N) /\ lanes \in [1..N -> 0..NoRank]
        BY <1>1, InputType DEF TypeOK
    <2>2. NoRank \in Nat /\ PosSpan \in Nat \ {0} /\ NoMergeFloor \in Nat
        BY SpansAssumption, Floor
    <2> QED BY <2>1, <2>2
<1>4. Mergeable(p)
    BY <1>1, <1>2, <1>3, LaneOfOther
<1>5. /\ p \in live /\ next[p] # 0 /\ PairAt(p).rank \in Nat
      /\ lanes[p] = PairAt(p).rank * PosSpan + (p - 1)
      /\ lanes[p] % PosSpan = p - 1 /\ lanes[p] \div PosSpan = PairAt(p).token
    BY <1>1, <1>4, LaneOfPair DEF Mergeable
<1> DEFINE token == PairAt(p).token
           fresh(q) == Refreshed(q, p, token, next[next[p]])
<1>6. /\ Merge(p, token)
      /\ lanes' = [q \in 1..N |-> IF q \in Touched(p) THEN Lane(fresh(q).rank, q)
                                  ELSE IF q \in {p, next[p]} THEN NoRank
                                  ELSE lanes[q]]
    <2>1. PICK best \in {lanes[q] : q \in 1..N} :
              /\ best < NoMergeFloor /\ \A q \in 1..N : best <= lanes[q]
              /\ Merge((best % PosSpan) + 1, best \div PosSpan)
              /\ lanes' = [q \in 1..N |->
                    IF q \in Touched((best % PosSpan) + 1)
                    THEN Lane(Refreshed(q, (best % PosSpan) + 1, best \div PosSpan,
                                        next[next[(best % PosSpan) + 1]]).rank, q)
                    ELSE IF q \in {(best % PosSpan) + 1, next[(best % PosSpan) + 1]} THEN NoRank
                    ELSE lanes[q]]
        BY DEF LaneMerge
    <2>2. best = lanes[p]
        BY <1>2, <1>3, <2>1
    <2>3. (best % PosSpan) + 1 = p /\ best \div PosSpan = token
        BY <1>3, <1>5, <2>2
    <2> HIDE DEF token
    <2> QED BY <2>1, <2>3
<1>7. UNCHANGED <<heap, ranks>>
    BY DEF LaneMerge
<1>8. Lowest(p)
    <2>1. ASSUME NEW q \in live, Mergeable(q)
          PROVE  \/ PairAt(p).rank < PairAt(q).rank
                 \/ PairAt(p).rank = PairAt(q).rank /\ p <= q
        <3>1. q \in 1..N /\ PairAt(q).rank \in Nat /\ lanes[q] = PairAt(q).rank * PosSpan + (q - 1)
            BY <1>1, <2>1, LaneOfPair
        <3>2. lanes[p] <= lanes[q]
            BY <1>2, <3>1
        <3>3. CASE PairAt(q).rank < PairAt(p).rank
            <4>1. PairAt(q).rank * PosSpan + PosSpan <= PairAt(p).rank * PosSpan
                BY <1>3, <1>5, <3>1, <3>3, SpansApart
            <4>2. q <= PosSpan
                <5>1. N <= PosSpan
                    BY <1>1 DEF TypeOK, IsInput, N
                <5> QED BY <1>3, <3>1, <5>1
            <4>3. PairAt(q).rank * PosSpan \in Nat /\ PairAt(p).rank * PosSpan \in Nat
                BY <1>3, <1>5, <3>1
            <4> QED BY <1>3, <1>5, <3>1, <3>2, <4>1, <4>2, <4>3
        <3>4. CASE PairAt(q).rank = PairAt(p).rank
            <4>1. PairAt(p).rank * PosSpan \in Nat
                BY <1>3, <1>5
            <4> QED BY <1>5, <3>1, <3>2, <3>4, <4>1
        <3> QED BY <1>5, <3>1, <3>3, <3>4
    <2> QED BY <1>4, <2>1 DEF Lowest
<1>9. TakesLowest(p)
    BY <1>6, <1>8 DEF TakesLowest
<1>10. token \in Ids
    BY <1>1, <1>8, LowestType
<1>11. /\ N' = N /\ next[p] \in live /\ next[p] # p
       /\ \A q \in Touched(p) :
             q \in live' /\ next'[q] # 0 /\ PairAt(q)' = fresh(q)
       /\ \A q \in (1..N) \ Touched(p) :
             q \in live' /\ next'[q] # 0 =>
                /\ q \in live /\ q # p /\ q # next[p] /\ next[q] # 0
                /\ PairAt(q)' = PairAt(q)
       /\ \A q \in (1..N) \ {p, next[p]} :
             ~(q \in live' /\ next'[q] # 0) => ~(q \in live /\ next[q] # 0)
    BY <1>1, <1>5, <1>6, <1>10, AfterMerge
<1>12. \A q \in Touched(p) : q \in 1..N /\ Lane(fresh(q).rank, q) \in 0..NoRank
    BY <1>1, <1>5, <1>10, RefreshedType
<1> HIDE DEF token, fresh
<1>13. lanes' \in [1..N -> 0..NoRank]
    <2>1. \A q \in 1..N : lanes[q] \in 0..NoRank
        BY <1>1 DEF TypeOK
    <2> QED BY <1>3, <1>6, <1>12, <2>1
<1>14. LanesExact'
    <2>1. ASSUME NEW q \in 1..N, q \in live', next'[q] # 0
          PROVE  lanes'[q] = Lane(PairAt(q).rank, q)'
        <3>1. CASE q \in Touched(p)
            BY <1>6, <1>11, <3>1 DEF Lane
        <3>2. CASE q \notin Touched(p)
            <4>1. q \in live /\ q # p /\ q # next[p] /\ next[q] # 0 /\ PairAt(q)' = PairAt(q)
                BY <1>11, <2>1, <3>2
            <4>2. lanes[q] = Lane(PairAt(q).rank, q)
                BY <1>1, <4>1 DEF LanesExact
            <4> QED BY <1>6, <3>2, <4>1, <4>2 DEF Lane
        <3> QED BY <3>1, <3>2
    <2>2. ASSUME NEW q \in 1..N, ~(q \in live' /\ next'[q] # 0)
          PROVE  lanes'[q] = NoRank
        <3>1. q \notin Touched(p)
            BY <1>11, <2>2
        <3>2. CASE q \in {p, next[p]}
            BY <1>6, <3>1, <3>2
        <3>3. CASE q \notin {p, next[p]}
            <4>1. lanes[q] = NoRank
                BY <1>1, <1>11, <2>2, <3>3 DEF LanesExact
            <4> QED BY <1>6, <3>1, <3>3, <4>1
        <3> QED BY <3>2, <3>3
    <2> QED BY <1>11, <2>1, <2>2 DEF LanesExact
<1>15. Queued'
    BY <1>1, <1>6, <1>14 DEF Queued, Merge
<1>16. /\ heap' \in SUBSET ((0..(NoRank - 1)) \X (1..N))
       /\ ranks' \in [1..N -> [token: Ids, rank: 0..NoRank]]
    BY <1>1, <1>7 DEF TypeOK
<1> QED BY <1>1, <1>5, <1>6, <1>9, <1>13, <1>15, <1>16, MergeInv DEF token

LEMMA PopStaleStep == IInv /\ PopStale => IInv' /\ UNCHANGED live
<1> SUFFICES ASSUME IInv, PopStale PROVE IInv' /\ UNCHANGED live
    OBVIOUS
<1>1. TypeOK /\ Linked /\ HeapCovers /\ phase = "merge" /\ input.core = "heap"
    BY DEF IInv, PopStale, Queued
<1>2. PICK e \in heap : IsLeast(e) /\ ~Valid(e) /\ heap' = heap \ {e}
    BY DEF PopStale
<1>3. UNCHANGED <<input, phase, symbols, next, prev, live, ranks, lanes, write, at>>
    BY DEF PopStale
<1>4. TypeOK'
    <2>1. heap' \in SUBSET ((0..(NoRank - 1)) \X (1..N))
        BY <1>1, <1>2 DEF TypeOK
    <2> QED BY <1>1, <1>3, <2>1 DEF TypeOK, N, IsInput
<1>5. Linked'
    BY <1>1, <1>3 DEF Linked, N
<1>6. HeapCovers'
    <2>1. ASSUME NEW q \in live, Mergeable(q)
          PROVE  <<PairAt(q).rank, q>> \in heap'
        <3>1. <<PairAt(q).rank, q>> \in heap
            BY <1>1, <2>1 DEF HeapCovers
        <3>2. next[q] # 0
            BY <2>1 DEF Mergeable
        <3>3. <<PairAt(q).rank, q>> # e
            BY <1>2, <3>2 DEF Valid, PairAt
        <3> QED BY <1>2, <3>1, <3>3
    <2> QED BY <1>1, <1>3, <2>1 DEF HeapCovers, Mergeable, PairAt, Look, N
<1>7. Queued'
    BY <1>1, <1>3, <1>6 DEF Queued
<1>8. Irreducible'
    BY <1>1, <1>3 DEF Irreducible
<1>9. (phase = "merge" => N >= 2 /\ write = 0 /\ at = 1 /\ Queued)'
    BY <1>1, <1>3, <1>7 DEF IInv, N
<1>10. (phase = "compact" => Compacting)'
    BY <1>1, <1>3
<1> QED BY <1>3, <1>4, <1>5, <1>8, <1>9, <1>10 DEF IInv

(* When the loop has nothing left to take, no pair of the list merges. *)
LEMMA NothingMergeable ==
    ASSUME IInv, phase = "merge", Exhausted, NEW q \in live, next[q] # 0
    PROVE  PairAt(q).rank = NoRank
<1>1. TypeOK /\ Linked /\ Queued
    BY DEF IInv
<1>2. q \in 1..N
    BY <1>1 DEF TypeOK
<1>3. CASE input.core = "heap"
    <2>1. heap = {} /\ HeapCovers
        BY <1>1, <1>3 DEF Exhausted, Queued
    <2> QED BY <2>1 DEF HeapCovers, Mergeable
<1>4. CASE input.core = "scan"
    <2>1. (\A r \in 1..N : ranks[r].rank = NoRank) /\ RanksExact
        BY <1>1, <1>4 DEF Exhausted, Queued
    <2> QED BY <1>2, <2>1 DEF RanksExact
<1>5. CASE input.core = "lanes"
    <2>1. (\A r \in 1..N : lanes[r] >= NoMergeFloor) /\ LanesExact
        BY <1>1, <1>5 DEF Exhausted, Queued
    <2>2. CASE PairAt(q).rank # NoRank
        <3>1. Mergeable(q)
            BY <2>2 DEF Mergeable
        <3>2. lanes[q] \in Nat /\ lanes[q] < NoMergeFloor
            BY <1>1, <1>5, <2>1, <3>1, LaneOfPair
        <3> QED BY <1>2, <2>1, <3>2, Floor
    <2> QED BY <2>2
<1> QED BY <1>1, <1>3, <1>4, <1>5 DEF TypeOK, IsInput

LEMMA StopStep == IInv /\ Stop => IInv' /\ UNCHANGED live
<1> SUFFICES ASSUME IInv, Stop PROVE IInv' /\ UNCHANGED live
    OBVIOUS
<1>1. TypeOK /\ Linked /\ phase = "merge" /\ N >= 2 /\ write = 0 /\ at = 1
    BY DEF IInv, Stop
<1>2. /\ phase' = "compact"
      /\ UNCHANGED <<input, symbols, next, prev, live, heap, ranks, lanes, write, at>>
    BY DEF Stop
<1>3. \A q \in live : next[q] # 0 => PairAt(q).rank = NoRank
    BY <1>1, NothingMergeable DEF Stop
<1>4. TypeOK'
    BY <1>1, <1>2 DEF TypeOK, N, IsInput
<1>5. Linked'
    BY <1>1, <1>2 DEF Linked, N
<1>6. 1 \in live
    BY <1>1, InputType DEF Linked, TypeOK
<1>7. Compacting
    BY <1>1, <1>3, <1>6 DEF Compacting
<1>8. Compacting'
    BY <1>2, <1>7 DEF Compacting, PairAt, Look
<1>9. Irreducible'
    BY <1>2 DEF Irreducible
<1> QED BY <1>2, <1>4, <1>5, <1>8, <1>9 DEF IInv

LEMMA CompactStep == IInv /\ Compact => IInv' /\ UNCHANGED live
<1> SUFFICES ASSUME IInv, Compact PROVE IInv' /\ UNCHANGED live
    OBVIOUS
<1>1. TypeOK /\ Linked /\ phase = "compact" /\ Compacting
    BY DEF IInv, Compact
<1>2. /\ symbols' = [symbols EXCEPT ![write + 1] = symbols[at]]
      /\ write' = write + 1 /\ at' = next[at]
      /\ phase' = IF next[at] = 0 THEN "done" ELSE "compact"
      /\ UNCHANGED <<input, next, prev, live, heap, ranks, lanes>>
    BY DEF Compact
<1>3. /\ N \in Nat /\ symbols \in [1..N -> Ids] /\ next \in [1..N -> 0..N]
      /\ live \in SUBSET (1..N) /\ write \in 0..N /\ at \in live /\ at \in 1..N
      /\ write < at
    BY <1>1, InputType DEF TypeOK, Compacting
<1>4. write + 1 \in 1..N /\ write + 1 <= at
    BY <1>3
<1>5. symbols' \in [1..N -> Ids] /\ symbols'[write + 1] = symbols[at]
    BY <1>2, <1>3, <1>4
<1>6. \A k \in 1..N : k # write + 1 => symbols'[k] = symbols[k]
    BY <1>2, <1>3
<1>7. TypeOK'
    BY <1>1, <1>2, <1>3, <1>4, <1>5, SMTT(30) DEF TypeOK, N, IsInput
<1>8. Linked'
    BY <1>1, <1>2 DEF Linked, N
<1>9. next[at] # 0 => next[at] \in live /\ at < next[at]
    BY <1>1, <1>3 DEF Linked
<1>10. \A k \in 1..write : Look(symbols'[k], symbols'[k + 1]).rank = NoRank
    <2> TAKE k \in 1..write
    <2>1. k \in 1..N /\ symbols'[k] = symbols[k]
        BY <1>3, <1>6
    <2>2. CASE k = write
        BY <1>1, <1>3, <1>5, <2>1, <2>2 DEF Compacting
    <2>3. CASE k # write
        <3>1. k \in 1..(write - 1) /\ k + 1 \in 1..N /\ symbols'[k + 1] = symbols[k + 1]
            BY <1>3, <1>6, <2>3
        <3> QED BY <1>1, <2>1, <3>1 DEF Compacting
    <2> QED BY <2>2, <2>3
<1>11. (write' - 1) = write /\ \A a, b : Look(a, b)' = Look(a, b)
    BY <1>2, <1>3 DEF Look
<1>12. Irreducible'
    BY <1>10, <1>11, <1>2 DEF Irreducible, Look
<1>13. ASSUME next[at] # 0
       PROVE  Compacting'
    <2>1. at' \in live' /\ write' < at' /\ at' = next[at]
        BY <1>2, <1>3, <1>9, <1>13
    <2>2. ASSUME NEW q \in live, q >= next[at], next[q] # 0
          PROVE  Look(symbols'[q], symbols'[next[q]]).rank = NoRank
        <3>1. q \in 1..N /\ q > at /\ next[q] \in 1..N /\ next[q] > q
            BY <1>1, <1>3, <1>9, <1>13, <2>2 DEF Linked
        <3>2. symbols'[q] = symbols[q] /\ symbols'[next[q]] = symbols[next[q]]
            BY <1>3, <1>4, <1>6, <3>1
        <3>3. PairAt(q).rank = NoRank
            BY <1>1, <1>3, <2>2, <3>1 DEF Compacting
        <3> QED BY <3>2, <3>3 DEF PairAt
    <2>3. Look(symbols'[write + 1], symbols'[next[at]]).rank = NoRank
        <3>1. symbols'[next[at]] = symbols[next[at]]
            BY <1>3, <1>4, <1>6, <1>9, <1>13
        <3>2. PairAt(at).rank = NoRank
            BY <1>1, <1>3, <1>13 DEF Compacting
        <3> QED BY <1>5, <3>1, <3>2 DEF PairAt
    <2>4. \A q \in live' : q >= at' /\ next'[q] # 0 => PairAt(q)'.rank = NoRank
        BY <1>2, <2>1, <2>2 DEF PairAt, Look
    <2>5. Look(symbols[write], symbols[at])'.rank = NoRank
        BY <1>2, <2>1, <2>3 DEF Look
    <2>6. \A k \in 1..(write' - 1) : Look(symbols[k], symbols[k + 1])'.rank = NoRank
        BY <1>2, <1>10, <1>11 DEF Look
    <2> QED BY <2>1, <2>4, <2>5, <2>6 DEF Compacting
<1> QED BY <1>2, <1>7, <1>8, <1>12, <1>13 DEF IInv

LEMMA NextInv ==
    IInv /\ [Next]_vars => IInv' /\ (live' # live => \E p \in live : TakesLowest(p))
<1> SUFFICES ASSUME IInv, [Next]_vars
             PROVE  IInv' /\ (live' # live => \E p \in live : TakesLowest(p))
    OBVIOUS
<1>1. CASE PopStale
    BY <1>1, PopStaleStep
<1>2. CASE PopMerge
    BY <1>2, PopMergeStep
<1>3. CASE ScanMerge
    BY <1>3, ScanMergeStep
<1>4. CASE LaneMerge
    BY <1>4, LaneMergeStep
<1>5. CASE Stop
    BY <1>5, StopStep
<1>6. CASE Compact
    BY <1>6, CompactStep
<1>7. CASE UNCHANGED vars
    <2>1. UNCHANGED <<input, phase, symbols, next, prev, live, heap, ranks, lanes, write, at>>
        BY <1>7 DEF vars
    <2>2. TypeOK'
        BY <2>1 DEF IInv, TypeOK, IsInput, N
    <2>3. Linked' /\ Irreducible'
        BY <2>1 DEF IInv, Linked, Irreducible, Look, N
    <2>4. (phase = "merge" => N >= 2 /\ write = 0 /\ at = 1 /\ Queued)'
        BY <2>1 DEF IInv, Queued, HeapCovers, RanksExact, LanesExact, Mergeable, PairAt, Look, Lane, N
    <2>5. (phase = "compact" => Compacting)'
        BY <2>1 DEF IInv, Compacting, PairAt, Look
    <2> QED BY <2>1, <2>2, <2>3, <2>4, <2>5 DEF IInv
<1> QED BY <1>1, <1>2, <1>3, <1>4, <1>5, <1>6, <1>7 DEF Next, Step, Finished

THEOREM Invariance == Spec => []IInv
BY InitInv, NextInv, PTL DEF Spec

(* Positions, ranks and lanes stay in range, whatever the word, the table and the
   width of a lane: no link leaves the word, no lane overflows its machine word. *)
THEOREM TypeCorrect == Spec => []TypeOK
<1>1. IInv => TypeOK
    BY DEF IInv
<1> QED BY <1>1, Invariance, PTL

(* No pair is overlooked: of the tokens that any loop returns, no adjacent two merge. *)
THEOREM NothingLeftToMerge == Spec => []Irreducible
<1>1. IInv => Irreducible
    BY DEF IInv
<1> QED BY <1>1, Invariance, PTL

(* The heap with its stale entries, the scan and the packed lanes all merge the
   leftmost pair of lowest rank, at every step: the loops agree. *)
THEOREM AlwaysLowestFirst == Spec => MergesLowest
<1>1. IInv /\ [Next]_vars =>
        [live' # live =>
            \E p \in live : /\ Lowest(p)
                            /\ live' = live \ {next[p]}
                            /\ symbols' = [symbols EXCEPT ![p] = PairAt(p).token]]_vars
    BY NextInv DEF TakesLowest, Merge
<1> QED BY <1>1, Invariance, PTL DEF Spec, MergesLowest
-----------------------------------------------------------------------------
-----------------------------------------------------------------------------
(* Every live position but the first has one before it; links lead forward, those of
   dead positions as well. *)
Rooted == \A p \in live : prev[p] = 0 => p = 1
Forward == \A p \in 1..N : next[p] = 0 \/ next[p] > p

(* The tables a loop looks pairs up in answer with the merge table. *)
Answered(i) ==
    \A a, b \in Ids :
        IF <<a, b>> \in DOMAIN i.merges
        THEN i.lookup[<<a, b>>] = i.merges[<<a, b>>] /\ i.lookup[<<a, b>>].rank # NoRank
        ELSE i.lookup[<<a, b>>].rank = NoRank
TablesAnswer == \A i \in Inputs : Answered(i)

RInv == IInv /\ input \in Inputs /\ Rooted /\ Forward

(* The word that the list spells from each position on. *)
IsChain(c) == c = [q \in 0..N |-> IF q = 0 THEN <<>> ELSE <<symbols[q]>> \o c[next[q]]]
Chain == CHOOSE c : IsChain(c)

(* The positions the list visits from q on. *)
IsWalk(z, q) ==
    /\ z \in Seq(1..N) /\ Len(z) > 0 /\ z[1] = q /\ next[z[Len(z)]] = 0
    /\ \A k \in 1..(Len(z) - 1) : next[z[k]] = z[k + 1]
Ascending(z) == \A i, j \in 1..Len(z) : i < j => z[i] < z[j]

(* A nonempty set of numbers has a least one. *)
LEMMA LeastElement ==
    ASSUME NEW S \in SUBSET Nat, S # {}
    PROVE  \E n \in S : \A m \in S : n <= m
<1>1. IsWellFoundedOn(OpToRel(<, Nat), Nat)
    BY NatLessThanWellFounded
<1>2. PICK n \in S : \A m \in S : ~ (<<m, n>> \in OpToRel(<, Nat))
    BY <1>1, WFMin
<1>3. \A m \in S : ~ (m < n)
    BY <1>2 DEF OpToRel
<1> QED BY <1>3

(* The list is finite as its links lead forward: the word it spells exists. *)
LEMMA ChainExists ==
    ASSUME TypeOK, Forward
    PROVE  \E c : IsChain(c)
<1> DEFINE Part(from) == {0} \cup (from..N)
           Body(f, q) == IF q = 0 THEN <<>> ELSE <<symbols[q]>> \o f[next[q]]
           Is(c, from) == c = [q \in Part(from) |-> Body(c, q)]
           bad == {k \in Nat : k <= N /\ ~ \E c : Is(c, N + 1 - k)}
<1>0. N \in Nat /\ next \in [1..N -> 0..N]
    BY InputType DEF TypeOK
<1>1. bad = {}
    <2> SUFFICES ASSUME bad # {} PROVE FALSE
        OBVIOUS
    <2>1. PICK k \in bad : \A m \in bad : k <= m
        BY LeastElement
    <2>2. k \in Nat /\ k <= N /\ ~ \E c : Is(c, N + 1 - k)
        OBVIOUS
    <2> DEFINE from == N + 1 - k
    <2>3. from \in 1..(N + 1)
        BY <1>0, <2>2
    <2>4. PICK h : k > 0 => Is(h, from + 1)
        <3>1. CASE k = 0
            BY <3>1
        <3>2. CASE k # 0
            <4>1. k - 1 \in Nat /\ k - 1 <= N /\ k - 1 \notin bad
                <5> HIDE DEF bad
                <5> QED BY <1>0, <2>1, <2>2, <3>2
            <4>2. from + 1 = N + 1 - (k - 1)
                BY <1>0, <2>2
            <4>3. \E c : Is(c, N + 1 - (k - 1))
                BY <4>1
            <4> HIDE DEF from, Is
            <4> QED BY <4>2, <4>3
        <3> QED BY <3>1, <3>2
    <2> DEFINE w == [q \in Part(from) |-> Body(h, q)]
    <2> HIDE DEF from
    <2>5. ASSUME NEW q \in Part(from) PROVE Body(w, q) = Body(h, q)
        <3>1. CASE q = 0
            BY <3>1
        <3>2. CASE q # 0
            <4> DEFINE n == next[q]
            <4>1. q \in from..N /\ q \in 1..N
                BY <1>0, <2>3, <3>2
            <4>2. n \in 0..N /\ (n = 0 \/ n > q)
                BY <1>0, <4>1 DEF Forward
            <4> HIDE DEF n
            <4>3. n \in Part(from + 1) /\ n \in Part(from) /\ k > 0
                BY <1>0, <2>2, <2>3, <4>1, <4>2 DEF from
            <4>4. h[n] = Body(h, n)
                BY <2>4, <4>3
            <4>5. w[n] = Body(h, n)
                BY <4>3
            <4> QED BY <4>4, <4>5 DEF n
        <3> QED BY <3>1, <3>2
    <2>6. [q \in Part(from) |-> Body(w, q)] = [q \in Part(from) |-> Body(h, q)]
        <3> HIDE DEF Body, w, Part
        <3> QED BY <2>5
    <2>7. Is(w, from)
        BY <2>6
    <2> HIDE DEF Is
    <2> QED BY <2>2, <2>7 DEF from
<1>2. \E c : Is(c, 1)
    <2>1. N \in Nat /\ N <= N /\ N + 1 - N = 1
        BY <1>0
    <2>2. N \notin bad
        BY <1>1
    <2>3. \E c : Is(c, N + 1 - N)
        BY <2>1, <2>2
    <2> HIDE DEF Is
    <2> QED BY <2>1, <2>3
<1>3. Part(1) = 0..N
    BY <1>0
<1> QED BY <1>2, <1>3 DEF IsChain

LEMMA ChainStep ==
    TypeOK /\ Forward =>
        /\ Chain[0] = <<>>
        /\ \A q \in 1..N : Chain[q] = <<symbols[q]>> \o Chain[next[q]]
<1> SUFFICES ASSUME TypeOK, Forward
             PROVE  /\ Chain[0] = <<>>
                    /\ \A q \in 1..N : Chain[q] = <<symbols[q]>> \o Chain[next[q]]
    OBVIOUS
<1>1. IsChain(Chain)
    BY ChainExists DEF Chain
<1>2. N \in Nat
    BY InputType DEF TypeOK
<1> DEFINE c == Chain
           Body(q) == IF q = 0 THEN <<>> ELSE <<symbols[q]>> \o c[next[q]]
<1> HIDE DEF c
<1>3. c = [q \in 0..N |-> Body(q)]
    BY <1>1 DEF IsChain, c
<1>4. \A q \in 0..N : c[q] = Body(q)
    <2> HIDE DEF Body
    <2> QED BY <1>3
<1>5. 0 \in 0..N /\ \A q \in 1..N : q \in 0..N /\ q # 0
    BY <1>2
<1>6. c[0] = <<>>
    BY <1>4, <1>5
<1>7. \A q \in 1..N : c[q] = <<symbols[q]>> \o c[next[q]]
    BY <1>4, <1>5
<1> QED BY <1>6, <1>7 DEF c

LEMMA ChainIs == \A p : ChainFrom(p) = Chain[p]
BY DEF ChainFrom, Chain, IsChain

(* A symbol put in front of a word. *)
LEMMA Prepend ==
    ASSUME NEW S, NEW s \in S, NEW n \in Nat, NEW f \in [1..n -> S]
    PROVE  <<s>> \o f = [k \in 1..(n + 1) |-> IF k = 1 THEN s ELSE f[k - 1]]
<1>1. f \in Seq(S) /\ Len(f) = n
    BY IsASeq
<1>2. <<s>> \in Seq(S) /\ Len(<<s>>) = 1
    OBVIOUS
<1> QED BY <1>1, <1>2

(* The list spells the symbols of the positions that it visits. *)
LEMMA WalkSpells ==
    TypeOK /\ Forward =>
        \A q \in 1..N : \A z \in Seq(1..N) :
            IsWalk(z, q) => Chain[q] = [k \in 1..Len(z) |-> symbols[z[k]]]
<1> SUFFICES ASSUME TypeOK, Forward, NEW q \in 1..N, NEW z \in Seq(1..N), IsWalk(z, q)
             PROVE  Chain[q] = [k \in 1..Len(z) |-> symbols[z[k]]]
    OBVIOUS
<1> DEFINE n == Len(z)
           Ending(m) == [k \in 1..(m + 1) |-> symbols[z[n - m - 1 + k]]]
           bad == {m \in Nat : m < n /\ Chain[z[n - m]] # Ending(m)}
<1>0. /\ N \in Nat /\ symbols \in [1..N -> Ids]
      /\ n \in Nat \ {0} /\ z[1] = q /\ next[z[n]] = 0
      /\ \A k \in 1..n : z[k] \in 1..N
      /\ \A k \in 1..(n - 1) : next[z[k]] = z[k + 1]
    BY InputType, SMTT(30) DEF TypeOK, IsWalk
<1>1. Chain[0] = <<>> /\ \A r \in 1..N : Chain[r] = <<symbols[r]>> \o Chain[next[r]]
    BY ChainStep
<1> HIDE DEF n
<1>2. bad = {}
    <2> SUFFICES ASSUME bad # {} PROVE FALSE
        OBVIOUS
    <2>1. PICK m \in bad : \A l \in bad : m <= l
        BY LeastElement
    <2>2. m \in Nat /\ m < n /\ Chain[z[n - m]] # Ending(m)
        OBVIOUS
    <2> DEFINE r == z[n - m]
    <2>3. n - m \in 1..n
        BY <1>0, <2>2, SMTT(30)
    <2>4. r \in 1..N /\ Chain[r] = <<symbols[r]>> \o Chain[next[r]] /\ symbols[r] \in Ids
        BY <1>0, <1>1, <2>3
    <2>5. CASE m = 0
        <3>1. r = z[n] /\ Chain[next[r]] = <<>>
            BY <1>0, <1>1, <2>5
        <3>2. Ending(0) = [k \in 1..1 |-> symbols[r]]
            <4>1. \A k \in 1..1 : n - 0 - 1 + k = n
                BY <1>0
            <4>2. 0 + 1 = 1 /\ n - m = n
                BY <1>0, <2>5
            <4> QED BY <4>1, <4>2
        <3>3. <<symbols[r]>> = [k \in 1..1 |-> symbols[r]]
            OBVIOUS
        <3>4. Chain[r] = <<symbols[r]>>
            <4> DEFINE s == symbols[r]
            <4>1. s \in Ids /\ Chain[r] = <<s>> \o <<>>
                BY <2>4, <3>1
            <4> HIDE DEF s
            <4>2. <<s>> \in Seq(Ids)
                BY <4>1
            <4> QED BY <4>1, <4>2, ConcatEmptySeq DEF s
        <3> HIDE DEF Ending, r
        <3> QED BY <2>2, <2>5, <3>2, <3>3, <3>4 DEF r
    <2>6. CASE m # 0
        <3> DEFINE l == m - 1
                   rest == Ending(l)
        <3>1. l \in Nat /\ l < n /\ l + 1 = m /\ n - l = n - m + 1 /\ n - m \in 1..(n - 1)
            BY <1>0, <2>2, <2>6
        <3>2. l \notin bad
            <4> HIDE DEF bad, l
            <4> QED BY <2>1, <2>2, <3>1
        <3>3. Chain[z[n - l]] = Ending(l)
            <4> HIDE DEF l, Ending
            <4> QED BY <3>1, <3>2
        <3>4. next[r] = z[n - l]
            BY <1>0, <3>1
        <3>5. \A k \in 1..m : symbols[z[n - l - 1 + k]] \in Ids
            <4> TAKE k \in 1..m
            <4>1. n - l - 1 + k \in 1..n
                BY <1>0, <2>2, <3>1
            <4> QED BY <1>0, <4>1
        <3>6. rest \in [1..m -> Ids]
            BY <3>1, <3>5
        <3> DEFINE full == [k \in 1..(m + 1) |-> IF k = 1 THEN symbols[r] ELSE rest[k - 1]]
        <3>7. <<symbols[r]>> \o rest = full
            <4> HIDE DEF rest, r
            <4> QED BY <2>2, <2>4, <3>6, Prepend
        <3>8. full = Ending(m)
            <4> DEFINE F(k) == IF k = 1 THEN symbols[r] ELSE rest[k - 1]
                       G(k) == symbols[z[n - m - 1 + k]]
            <4>1. ASSUME NEW k \in 1..(m + 1) PROVE F(k) = G(k)
                <5>1. CASE k = 1
                    <6>1. n - m - 1 + k = n - m
                        BY <1>0, <2>2, <5>1
                    <6> QED BY <5>1, <6>1
                <5>2. CASE k # 1
                    <6>1. k - 1 \in 1..m /\ l + 1 = m /\ n - l - 1 + (k - 1) = n - m - 1 + k
                        BY <1>0, <2>2, <5>2
                    <6>2. rest[k - 1] = symbols[z[n - l - 1 + (k - 1)]]
                        <7> DEFINE j == k - 1
                        <7>1. j \in 1..m /\ l + 1 = m
                            BY <6>1
                        <7> HIDE DEF j, l
                        <7>2. rest[j] = symbols[z[n - l - 1 + j]]
                            BY <7>1
                        <7> QED BY <7>2 DEF j
                    <6> HIDE DEF rest, l
                    <6> QED BY <5>2, <6>1, <6>2
                <5> QED BY <5>1, <5>2
            <4>2. [k \in 1..(m + 1) |-> F(k)] = [k \in 1..(m + 1) |-> G(k)]
                <5> HIDE DEF F, G
                <5> QED BY <4>1
            <4> QED BY <4>2
        <3> HIDE DEF Ending, rest, full, r
        <3> QED BY <2>2, <2>4, <3>3, <3>4, <3>7, <3>8 DEF rest, r
    <2> QED BY <2>5, <2>6
<1>3. n - 1 \in Nat /\ n - 1 < n /\ n - (n - 1) = 1 /\ n - 1 + 1 = n
    BY <1>0
<1>4. n - 1 \notin bad
    BY <1>2
<1>5. Chain[z[n - (n - 1)]] = Ending(n - 1)
    <2> DEFINE m == n - 1
    <2>1. m \in Nat /\ m < n /\ m \notin bad
        BY <1>3, <1>4
    <2> HIDE DEF m, Ending
    <2>2. Chain[z[n - m]] = Ending(m)
        BY <2>1
    <2> QED BY <2>2 DEF m
<1>6. Ending(n - 1) = [k \in 1..n |-> symbols[z[k]]]
    <2>1. \A k \in 1..n : n - (n - 1) - 1 + k = k
        BY <1>0
    <2> QED BY <1>3, <2>1
<1> HIDE DEF Ending
<1> QED BY <1>0, <1>3, <1>5, <1>6 DEF n

(* From a live position on, the list visits live positions in order. *)
LEMMA LiveWalk ==
    ASSUME TypeOK, Linked, NEW p \in live
    PROVE  \E z \in Seq(1..N) : IsWalk(z, p) /\ Ascending(z) /\ \A k \in 1..Len(z) : z[k] \in live
<1> DEFINE Good(z, q) == IsWalk(z, q) /\ Ascending(z) /\ \A k \in 1..Len(z) : z[k] \in live
           bad == {k \in Nat : \E q \in live : k = N - q /\ ~ \E z \in Seq(1..N) : Good(z, q)}
<1>0. N \in Nat /\ next \in [1..N -> 0..N] /\ live \in SUBSET (1..N)
    BY InputType DEF TypeOK
<1>1. bad = {}
    <2> SUFFICES ASSUME bad # {} PROVE FALSE
        OBVIOUS
    <2>1. PICK k \in bad : \A m \in bad : k <= m
        BY LeastElement
    <2>2. PICK q \in live : k = N - q /\ ~ \E z \in Seq(1..N) : Good(z, q)
        OBVIOUS
    <2>3. q \in 1..N
        BY <1>0
    <2>4. CASE next[q] = 0
        <3>1. /\ <<q>> \in Seq(1..N) /\ Len(<<q>>) = 1 /\ <<q>>[1] = q
            BY <2>3
        <3>2. IsWalk(<<q>>, q) /\ Ascending(<<q>>) /\ \A i \in 1..Len(<<q>>) : <<q>>[i] \in live
            BY <2>4, <3>1 DEF IsWalk, Ascending
        <3> QED BY <2>2, <3>1, <3>2
    <2>5. CASE next[q] # 0
        <3> DEFINE n == next[q]
        <3>1. n \in live /\ q < n /\ n \in 1..N
            BY <1>0, <2>5 DEF Linked
        <3> HIDE DEF n
        <3>2. N - n \in Nat /\ N - n < k
            BY <1>0, <2>2, <2>3, <3>1
        <3>3. N - n \notin bad
            <4> HIDE DEF bad
            <4> QED BY <1>0, <2>1, <2>2, <3>2
        <3>4. PICK y \in Seq(1..N) : Good(y, n)
            <4> HIDE DEF Good
            <4> QED BY <3>1, <3>2, <3>3
        <3> DEFINE l == Len(y)
                   z == <<q>> \o y
        <3>5. /\ l \in Nat \ {0} /\ y[1] = n /\ next[y[l]] = 0
              /\ \A i \in 1..(l - 1) : next[y[i]] = y[i + 1]
              /\ \A i \in 1..l : y[i] \in 1..N /\ y[i] \in live
              /\ \A i, j \in 1..l : i < j => y[i] < y[j]
            <4>1. y \in Seq(1..N) /\ IsWalk(y, n) /\ Ascending(y) /\ \A i \in 1..l : y[i] \in live
                BY <3>4
            <4>2. l \in Nat /\ \A i \in 1..l : y[i] \in 1..N
                <5> DEFINE S == 1..N
                <5>1. y \in Seq(S)
                    BY <4>1
                <5> HIDE DEF S
                <5>2. Len(y) \in Nat /\ \A i \in 1..Len(y) : y[i] \in S
                    BY <5>1, ElementOfSeq, LenProperties
                <5> QED BY <5>2 DEF S
            <4>3. l > 0 /\ y[1] = n /\ next[y[l]] = 0 /\ \A i \in 1..(l - 1) : next[y[i]] = y[i + 1]
                BY <4>1 DEF IsWalk
            <4>4. \A i, j \in 1..l : i < j => y[i] < y[j]
                BY <4>1 DEF Ascending
            <4> HIDE DEF l
            <4> QED BY <4>1, <4>2, <4>3, <4>4
        <3>6. /\ z \in Seq(1..N) /\ Len(z) = l + 1 /\ z[1] = q
              /\ \A i \in 1..l : z[i + 1] = y[i]
              /\ \A i \in 2..(l + 1) : i - 1 \in 1..l /\ z[i] = y[i - 1]
            <4>1. <<q>> \in Seq(1..N) /\ Len(<<q>>) = 1 /\ <<q>>[1] = q
                BY <2>3
            <4> QED BY <3>4, <3>5, <4>1
        <3> HIDE DEF z, l
        <3>7. \A i \in 1..l : q < y[i]
            <4> TAKE i \in 1..l
            <4>1. CASE i = 1
                BY <3>1, <3>5, <4>1
            <4>2. CASE i # 1
                <5>1. 1 \in 1..l /\ 1 < i
                    BY <3>5, <4>2
                <5>2. y[1] < y[i] /\ y[1] = n /\ y[i] \in 1..N
                    BY <3>5, <5>1
                <5> QED BY <2>3, <3>1, <5>2
            <4> QED BY <4>1, <4>2
        <3>8. IsWalk(z, q)
            <4>1. \A i \in 1..l : next[z[i]] = z[i + 1]
                <5> TAKE i \in 1..l
                <5>1. CASE i = 1
                    <6>1. z[1 + 1] = y[1]
                        BY <3>5, <3>6
                    <6> QED BY <3>5, <3>6, <5>1, <6>1 DEF n
                <5>2. CASE i # 1
                    <6>1. i \in 2..(l + 1) /\ i - 1 \in 1..(l - 1) /\ i - 1 + 1 = i
                        BY <3>5, <5>2
                    <6>2. z[i] = y[i - 1] /\ z[i + 1] = y[i]
                        BY <3>6, <6>1
                    <6>3. next[y[i - 1]] = y[i - 1 + 1]
                        BY <3>5, <6>1
                    <6> QED BY <6>1, <6>2, <6>3
                <5> QED BY <5>1, <5>2
            <4>2. next[z[l + 1]] = 0 /\ Len(z) - 1 = l /\ Len(z) > 0
                BY <3>5, <3>6
            <4> QED BY <3>6, <4>1, <4>2 DEF IsWalk
        <3>9. Ascending(z)
            <4>1. ASSUME NEW i \in 1..(l + 1), NEW j \in 1..(l + 1), i < j PROVE z[i] < z[j]
                <5>1. j \in 2..(l + 1)
                    BY <3>5, <4>1
                <5>2. j - 1 \in 1..l /\ z[j] = y[j - 1]
                    BY <3>6, <5>1
                <5>3. CASE i = 1
                    BY <3>6, <3>7, <5>2, <5>3
                <5>4. CASE i # 1
                    <6>1. i \in 2..(l + 1) /\ i - 1 < j - 1
                        BY <3>5, <4>1, <5>4
                    <6>2. i - 1 \in 1..l /\ z[i] = y[i - 1]
                        BY <3>6, <6>1
                    <6> QED BY <3>5, <5>2, <6>1, <6>2
                <5> QED BY <5>3, <5>4
            <4> QED BY <3>6, <4>1 DEF Ascending
        <3>10. \A i \in 1..(l + 1) : z[i] \in live
            <4> TAKE i \in 1..(l + 1)
            <4>1. CASE i = 1
                BY <3>6, <4>1
            <4>2. CASE i # 1
                <5>1. i \in 2..(l + 1)
                    BY <3>5, <4>2
                <5>2. i - 1 \in 1..l /\ z[i] = y[i - 1]
                    BY <3>6, <5>1
                <5> QED BY <3>5, <5>2
            <4> QED BY <4>1, <4>2
        <3> QED BY <2>2, <3>6, <3>8, <3>9, <3>10
    <2> QED BY <2>4, <2>5
<1>2. N - p \in Nat /\ N - p \notin bad
    <2>1. p \in 1..N
        BY <1>0
    <2>2. N - p \notin bad
        BY <1>1
    <2> QED BY <1>0, <2>1, <2>2
<1> HIDE DEF Good
<1>3. \E z \in Seq(1..N) : Good(z, p)
    BY <1>2
<1> QED BY <1>3 DEF Good

(* From the first position on it visits all of them. *)
LEMMA AllWalked ==
    ASSUME TypeOK, Linked, Rooted, NEW z \in Seq(1..N), IsWalk(z, 1), NEW p \in live
    PROVE  \E k \in 1..Len(z) : z[k] = p
<1> DEFINE bad == {q \in live : ~ \E k \in 1..Len(z) : z[k] = q}
<1>0. N \in Nat /\ next \in [1..N -> 0..N] /\ prev \in [1..N -> 0..N] /\ live \in SUBSET (1..N)
    BY InputType DEF TypeOK
<1>1. bad = {}
    <2> SUFFICES ASSUME bad # {} PROVE FALSE
        OBVIOUS
    <2>1. bad \in SUBSET Nat
        <3>1. bad \subseteq live
            OBVIOUS
        <3> HIDE DEF bad
        <3> QED BY <1>0, <3>1
    <2>2. PICK q \in bad : \A m \in bad : q <= m
        <3> HIDE DEF bad
        <3> QED BY <2>1, LeastElement
    <2>3. q \in live /\ q \in 1..N /\ ~ \E k \in 1..Len(z) : z[k] = q
        BY <1>0
    <2>4. Len(z) \in Nat /\ Len(z) > 0 /\ z[1] = 1 /\ 1 \in 1..Len(z)
        BY DEF IsWalk
    <2>5. q # 1
        BY <2>3, <2>4
    <2>6. prev[q] # 0 /\ prev[q] \in live /\ next[prev[q]] = q /\ prev[q] < q /\ prev[q] \in 1..N
        BY <1>0, <2>3, <2>5 DEF Rooted, Linked
    <2>7. prev[q] \notin bad
        <3> HIDE DEF bad
        <3> QED BY <2>1, <2>2, <2>3, <2>6
    <2>8. PICK k \in 1..Len(z) : z[k] = prev[q]
        BY <2>6, <2>7
    <2>9. k # Len(z)
        <3>1. next[z[Len(z)]] = 0
            BY DEF IsWalk
        <3> QED BY <2>3, <2>6, <2>8, <3>1
    <2>10. k \in 1..(Len(z) - 1) /\ k + 1 \in 1..Len(z)
        BY <2>4, <2>8, <2>9
    <2>11. z[k + 1] = q
        BY <2>6, <2>8, <2>10 DEF IsWalk
    <2> QED BY <2>3, <2>10, <2>11
<1> QED BY <1>1

(* A merge in a sequence, place by place. *)
Merged(w, k, t) ==
    [i \in 1..(Len(w) - 1) |-> IF i < k THEN w[i] ELSE IF i = k THEN t ELSE w[i + 1]]

LEMMA MergedPlaces ==
    ASSUME NEW S, NEW w \in Seq(S), NEW k \in 1..(Len(w) - 1), NEW t \in S
    PROVE  SubSeq(w, 1, k - 1) \o <<t>> \o SubSeq(w, k + 2, Len(w)) = Merged(w, k, t)
<1> DEFINE n == Len(w)
           a == SubSeq(w, 1, k - 1)
           b == SubSeq(w, k + 2, n)
<1>1. n \in Nat /\ \A i \in 1..n : w[i] \in S
    BY ElementOfSeq, LenProperties
<1>2. a \in Seq(S) /\ Len(a) = k - 1 /\ \A i \in 1..(k - 1) : a[i] = w[i]
    BY <1>1
<1>3. b \in Seq(S) /\ Len(b) = n - k - 1 /\ \A i \in 1..(n - k - 1) : b[i] = w[k + 1 + i]
    BY <1>1
<1>4. <<t>> \in Seq(S) /\ Len(<<t>>) = 1 /\ <<t>>[1] = t
    OBVIOUS
<1>10. n \in Nat /\ k \in 1..(n - 1)
    BY <1>1
<1> DEFINE c == a \o <<t>>
<1> HIDE DEF a, b, n
<1>5. c \in Seq(S) /\ Len(c) = k /\ c[k] = t /\ \A i \in 1..(k - 1) : c[i] = w[i]
    <2> DEFINE u == <<t>>
    <2> HIDE DEF u
    <2>1. u \in Seq(S) /\ Len(u) = 1 /\ u[1] = t
        BY <1>4 DEF u
    <2>2. /\ a \o u \in Seq(S) /\ Len(a \o u) = Len(a) + Len(u)
          /\ \A i \in 1..(Len(a) + Len(u)) : (a \o u)[i] = IF i <= Len(a) THEN a[i] ELSE u[i - Len(a)]
        BY <1>2, <2>1, ConcatProperties
    <2>3. k \in Nat /\ k - 1 + 1 = k /\ k - (k - 1) = 1 /\ k \in 1..k /\ ~(k <= k - 1)
        BY <1>10
    <2>4. (a \o u)[k] = u[1]
        BY <1>2, <2>1, <2>2, <2>3
    <2>5. \A i \in 1..(k - 1) : (a \o u)[i] = a[i]
        BY <1>2, <2>1, <2>2, <2>3
    <2> QED BY <1>2, <2>1, <2>2, <2>3, <2>4, <2>5 DEF u
<1> HIDE DEF c
<1> DEFINE d == c \o b
           e == [i \in 1..(n - 1) |-> IF i < k THEN w[i] ELSE IF i = k THEN t ELSE w[i + 1]]
<1>6. /\ d \in Seq(S) /\ Len(d) = n - 1
      /\ \A i \in 1..(n - 1) : d[i] = IF i <= k THEN c[i] ELSE b[i - k]
    <2>1. /\ d \in Seq(S) /\ Len(d) = Len(c) + Len(b)
          /\ \A i \in 1..(Len(c) + Len(b)) : d[i] = IF i <= Len(c) THEN c[i] ELSE b[i - Len(c)]
        BY <1>3, <1>5, ConcatProperties
    <2> HIDE DEF d
    <2>2. Len(c) + Len(b) = n - 1
        BY <1>3, <1>5, <1>10
    <2> QED BY <1>5, <2>1, <2>2
<1>7. e \in Seq(S) /\ Len(e) = n - 1
    <2>1. \A i \in 1..(n - 1) : (IF i < k THEN w[i] ELSE IF i = k THEN t ELSE w[i + 1]) \in S
        BY <1>1
    <2>2. n - 1 \in Nat
        BY <1>1 DEF n
    <2> QED BY <2>1, <2>2
<1>8. ASSUME NEW i \in 1..(n - 1) PROVE d[i] = e[i]
    <2>1. e[i] = IF i < k THEN w[i] ELSE IF i = k THEN t ELSE w[i + 1]
        OBVIOUS
    <2>2. CASE i > k
        <3>1. i - k \in 1..(n - k - 1) /\ k + 1 + (i - k) = i + 1
            BY <1>10, <2>2
        <3>2. b[i - k] = w[k + 1 + (i - k)]
            BY <1>3, <3>1
        <3>3. ~(i <= k) /\ ~(i < k) /\ i # k
            BY <1>10, <2>2
        <3> HIDE DEF d, e
        <3>4. d[i] = b[i - k]
            BY <1>6, <3>3
        <3> QED BY <2>1, <3>1, <3>2, <3>3, <3>4
    <2>3. CASE i <= k
        <3> HIDE DEF d, e
        <3>1. d[i] = c[i]
            BY <1>6, <2>3
        <3>2. CASE i = k
            BY <1>5, <1>10, <2>1, <3>1, <3>2
        <3>3. CASE i # k
            <4>1. i \in 1..(k - 1) /\ i < k
                BY <1>10, <2>3, <3>3
            <4> QED BY <1>5, <2>1, <3>1, <4>1
        <3> QED BY <3>2, <3>3
    <2>4. i > k \/ i <= k
        BY <1>10
    <2> QED BY <2>2, <2>3, <2>4
<1>9. d = e
    <2> HIDE DEF d, e
    <2> QED BY <1>6, <1>7, <1>8, SeqEqual
<1> QED BY <1>9 DEF c, a, b, n, Merged

(* The positions visited after a merge at the k-th of them: all but the next one. *)
Without(z, k) == [i \in 1..(Len(z) - 1) |-> IF i <= k THEN z[i] ELSE z[i + 1]]

LEMMA WalkMerged ==
    ASSUME TypeOK, Linked, NEW z \in Seq(1..N), IsWalk(z, 1), Ascending(z),
           NEW k \in 1..(Len(z) - 1), NEW token, Merge(z[k], token)
    PROVE  /\ Without(z, k) \in Seq(1..N) /\ Len(Without(z, k)) = Len(z) - 1
           /\ IsWalk(Without(z, k), 1)'
<1> DEFINE n == Len(z)
           y == Without(z, k)
           p == z[k]
<1>1. /\ n \in Nat /\ \A i \in 1..n : z[i] \in 1..N
      /\ z[1] = 1 /\ next[z[n]] = 0 /\ \A i \in 1..(n - 1) : next[z[i]] = z[i + 1]
      /\ \A i, j \in 1..n : i < j => z[i] < z[j]
    <2> DEFINE S == 1..N
    <2>1. z \in Seq(S)
        OBVIOUS
    <2> HIDE DEF S
    <2>2. Len(z) \in Nat /\ \A i \in 1..Len(z) : z[i] \in S
        BY <2>1, ElementOfSeq, LenProperties
    <2> QED BY <2>2 DEF S, IsWalk, Ascending
<1>2. N \in Nat /\ N' = N
    BY InputType DEF TypeOK, Merge, N
<1> HIDE DEF n
<1>3. k \in 1..n /\ k + 1 \in 1..n /\ next[p] = z[k + 1] /\ n - 1 \in Nat /\ n - 1 > 0 /\ n \in Nat
    BY <1>1 DEF n
<1>4. next' = [q \in 1..N |-> IF q = p THEN next[z[k + 1]]
                              ELSE IF q = z[k + 1] /\ input.core = "heap" THEN 0 ELSE next[q]]
    BY <1>3 DEF Merge
<1>5. \A i \in 1..n : (z[i] = p => i = k) /\ (z[i] = z[k + 1] => i = k + 1)
    <2> TAKE i \in 1..n
    <2>1. /\ i < k => z[i] < z[k]
          /\ i > k => z[i] > z[k]
          /\ i < k + 1 => z[i] < z[k + 1]
          /\ i > k + 1 => z[i] > z[k + 1]
        BY <1>1, <1>3
    <2>2. z[i] \in Nat /\ z[k] \in Nat /\ z[k + 1] \in Nat
        BY <1>1, <1>3
    <2> QED BY <1>3, <2>1, <2>2
<1> HIDE DEF p
<1>6. \A i \in 1..n : i # k /\ i # k + 1 => next'[z[i]] = next[z[i]]
    BY <1>1, <1>4, <1>5
<1>7. next'[z[k]] = next[z[k + 1]]
    BY <1>1, <1>3, <1>4 DEF p
<1>8. y \in Seq(1..N) /\ Len(y) = n - 1
    <2>1. \A i \in 1..(n - 1) : (IF i <= k THEN z[i] ELSE z[i + 1]) \in 1..N
        BY <1>1
    <2> QED BY <1>3, <2>1 DEF Without, n
<1>9. \A i \in 1..(n - 1) : y[i] = IF i <= k THEN z[i] ELSE z[i + 1]
    BY DEF Without, n
<1> HIDE DEF y
<1>10. ASSUME NEW i \in 1..(n - 2) PROVE next'[y[i]] = y[i + 1]
    <2>1. i \in 1..(n - 1) /\ i + 1 \in 1..(n - 1) /\ i \in 1..n /\ i + 1 \in 1..n
        BY <1>3
    <2>2. CASE i < k
        <3>1. y[i] = z[i] /\ y[i + 1] = z[i + 1] /\ i # k /\ i # k + 1
            BY <1>3, <1>9, <2>1, <2>2, SMTT(30)
        <3> QED BY <1>1, <1>6, <2>1, <3>1
    <2>3. CASE i = k
        <3>1. y[i] = z[k] /\ y[i + 1] = z[k + 1 + 1]
            BY <1>3, <1>9, <2>1, <2>3
        <3>2. k + 1 \in 1..(n - 1)
            BY <2>1, <2>3
        <3> QED BY <1>1, <1>7, <3>1, <3>2
    <2>4. CASE i > k
        <3>1. y[i] = z[i + 1] /\ y[i + 1] = z[i + 1 + 1]
            BY <1>3, <1>9, <2>1, <2>4
        <3>2. i + 1 # k /\ i + 1 # k + 1
            BY <1>3, <2>4
        <3> QED BY <1>1, <1>6, <2>1, <3>1, <3>2
    <2> QED BY <1>3, <2>2, <2>3, <2>4
<1>11. next'[y[n - 1]] = 0
    <2>1. CASE k = n - 1
        BY <1>1, <1>3, <1>7, <1>9, <2>1
    <2>2. CASE k # n - 1
        <3>1. y[n - 1] = z[n - 1 + 1] /\ n - 1 + 1 = n /\ n # k /\ n # k + 1 /\ n \in 1..n
            BY <1>3, <1>9, <2>2
        <3>2. next'[z[n]] = next[z[n]]
            BY <1>6, <3>1
        <3> QED BY <1>1, <3>1, <3>2
    <2> QED BY <2>1, <2>2
<1>12. y[1] = 1
    BY <1>1, <1>3, <1>9
<1>13. IsWalk(y, 1)'
    <2>1. Len(y) - 1 = n - 2 /\ Len(y) > 0
        <3>1. Len(y) = n - 1
            BY <1>8
        <3> QED BY <1>3, <3>1
    <2> QED BY <1>2, <1>8, <1>10, <1>11, <1>12, <2>1 DEF IsWalk
<1> QED BY <1>8, <1>13 DEF y, n

(* A step merges the lowest pair, or touches neither the list nor the input. *)
LEMMA StepKinds ==
    IInv /\ [Next]_vars =>
        \/ phase = "merge" /\ \E p \in live : TakesLowest(p)
        \/ PopStale \/ Stop \/ Compact \/ UNCHANGED vars
<1>1. IInv /\ PopMerge => phase = "merge" /\ \E p \in live : TakesLowest(p)
    BY PopMergeStep DEF PopMerge
<1>2. IInv /\ ScanMerge => phase = "merge" /\ \E p \in live : TakesLowest(p)
    BY ScanMergeStep DEF ScanMerge
<1>3. IInv /\ LaneMerge => phase = "merge" /\ \E p \in live : TakesLowest(p)
    BY LaneMergeStep DEF LaneMerge
<1> QED BY <1>1, <1>2, <1>3 DEF Next, Step, Finished

LEMMA ReachInit == Init => RInv
<1> SUFFICES ASSUME Init PROVE RInv
    OBVIOUS
<1>1. IInv /\ input \in Inputs
    BY InitInv DEF Init
<1>2. N \in Nat
    BY <1>1, InputType DEF IInv, TypeOK
<1>3. /\ live = 1..N /\ prev = [p \in 1..N |-> p - 1]
      /\ next = [p \in 1..N |-> IF p < N THEN p + 1 ELSE 0]
    BY DEF Init
<1> QED BY <1>1, <1>2, <1>3 DEF RInv, Rooted, Forward

LEMMA ReachNext == RInv /\ [Next]_vars => RInv'
<1> SUFFICES ASSUME RInv, [Next]_vars PROVE RInv'
    OBVIOUS
<1>1. IInv /\ Rooted /\ Forward /\ input \in Inputs /\ TypeOK /\ Linked
    BY DEF RInv, IInv
<1>2. IInv'
    BY <1>1, NextInv
<1>3. /\ N \in Nat /\ live \in SUBSET (1..N)
      /\ next \in [1..N -> 0..N] /\ prev \in [1..N -> 0..N]
    BY <1>1, InputType DEF TypeOK
<1>4. CASE UNCHANGED <<input, next, prev, live>>
    BY <1>1, <1>2, <1>4 DEF RInv, Rooted, Forward, N
<1>5. ASSUME NEW p, TakesLowest(p) PROVE RInv'
    <2>1. p \in live /\ next[p] # 0 /\ Merge(p, PairAt(p).token)
        BY <1>1, <1>5, LowestType DEF TakesLowest
    <2> DEFINE d == next[p]
               r == next[d]
    <2>2. p \in 1..N /\ d \in live /\ p < d /\ d \in 1..N /\ r \in 0..N /\ (r = 0 \/ r > d)
        BY <1>1, <1>3, <2>1 DEF Linked, Forward
    <2>3. /\ input' = input /\ N' = N /\ live' = live \ {d}
          /\ next' = [q \in 1..N |-> IF q = p THEN r
                                     ELSE IF q = d /\ input.core = "heap" THEN 0 ELSE next[q]]
          /\ prev' = IF r = 0 THEN prev ELSE [prev EXCEPT ![r] = p]
        BY <2>1 DEF Merge, N
    <2> HIDE DEF d, r
    <2>4. ASSUME NEW q \in live', prev'[q] = 0 PROVE q = 1
        <3>1. q \in live /\ q \in 1..N
            BY <1>3, <2>3
        <3>2. CASE q = r
            BY <1>3, <2>2, <2>3, <2>4, <3>1, <3>2
        <3>3. CASE q # r
            <4>1. prev'[q] = prev[q]
                BY <1>3, <2>3, <3>1, <3>3
            <4> QED BY <1>1, <2>4, <3>1, <4>1 DEF Rooted
        <3> QED BY <3>2, <3>3
    <2>5. \A q \in 1..N : next'[q] = 0 \/ next'[q] > q
        <3> TAKE q \in 1..N
        <3>1. next[q] = 0 \/ next[q] > q
            BY <1>1 DEF Forward
        <3>2. next'[q] \in {r, 0, next[q]} /\ (q = p => next'[q] = r) /\ (q # p => next'[q] \in {0, next[q]})
            BY <2>3
        <3> QED BY <1>3, <2>2, <3>1, <3>2
    <2> QED BY <1>1, <1>2, <2>3, <2>4, <2>5 DEF RInv, Rooted, Forward
<1>6. CASE PopStale \/ Stop \/ Compact \/ UNCHANGED vars
    BY <1>4, <1>6 DEF PopStale, Stop, Compact, vars
<1> QED BY <1>1, <1>5, <1>6, StepKinds

(* A list that does not change spells what it did. *)
LEMMA ChainKept == UNCHANGED <<input, symbols, next>> => Chain' = Chain
<1> SUFFICES ASSUME UNCHANGED <<input, symbols, next>> PROVE Chain' = Chain
    OBVIOUS
<1>1. N' = N
    BY DEF N
<1> QED BY <1>1 DEF Chain, IsChain

(* The word is what the list spells from the first position on. *)
LEMMA SpelledIs ==
    Spelled = IF phase = "merge" THEN Chain[1]
              ELSE SubSeq(symbols, 1, write) \o IF phase = "done" THEN <<>> ELSE Chain[at]
BY ChainIs DEF Spelled

(* The facts about the list, of the state after a step. *)
LEMMA WalkSpellsAfter ==
    (TypeOK /\ Forward =>
        \A q \in 1..N : \A z \in Seq(1..N) :
            IsWalk(z, q) => Chain[q] = [k \in 1..Len(z) |-> symbols[z[k]]])'
BY WalkSpells, PTL

LEMMA SpelledAfter ==
    (Spelled = IF phase = "merge" THEN Chain[1]
               ELSE SubSeq(symbols, 1, write) \o IF phase = "done" THEN <<>> ELSE Chain[at])'
BY SpelledIs, PTL

(* One merge of a loop is one merge of the word. *)
LEMMA MergeMaps ==
    ASSUME RInv, RInv', Answered(input), phase = "merge", NEW p, TakesLowest(p)
    PROVE  LowestFirst!Next
<1> DEFINE t == PairAt(p).token
           W == Spelled
           V == Spelled'
<1>1. /\ TypeOK /\ Linked /\ Rooted /\ Forward /\ N >= 2 /\ TypeOK' /\ Forward'
      /\ N \in Nat /\ symbols \in [1..N -> Ids] /\ live \in SUBSET (1..N) /\ next \in [1..N -> 0..N]
    <2>1. TypeOK
        BY DEF RInv, IInv
    <2> QED BY <2>1, InputType DEF RInv, IInv, TypeOK
<1>2. Lowest(p) /\ Merge(p, t) /\ p \in live /\ next[p] # 0 /\ t \in Ids
    BY <1>1, LowestType DEF TakesLowest
<1>3. N' = N /\ input' = input /\ phase' = phase /\ symbols' = [symbols EXCEPT ![p] = t]
    BY <1>2 DEF Merge, N
<1>4. 1 \in live /\ 1 \in 1..N
    BY <1>1 DEF Linked
<1>5. PICK z \in Seq(1..N) : IsWalk(z, 1) /\ Ascending(z) /\ \A k \in 1..Len(z) : z[k] \in live
    BY <1>1, <1>4, LiveWalk
<1> DEFINE n == Len(z)
<1>6. /\ n \in Nat /\ n > 0 /\ next[z[n]] = 0
      /\ \A i \in 1..n : z[i] \in 1..N /\ z[i] \in live
      /\ \A i \in 1..(n - 1) : next[z[i]] = z[i + 1] /\ i \in 1..n /\ i + 1 \in 1..n
      /\ \A i, j \in 1..n : i < j => z[i] < z[j]
    <2> DEFINE S == 1..N
    <2>1. z \in Seq(S)
        OBVIOUS
    <2> HIDE DEF S
    <2>2. Len(z) \in Nat /\ \A i \in 1..Len(z) : z[i] \in S
        BY <2>1, ElementOfSeq, LenProperties
    <2> QED BY <1>5, <2>2 DEF S, IsWalk, Ascending
<1>7. PICK k \in 1..n : z[k] = p
    BY <1>1, <1>2, <1>5, AllWalked
<1> HIDE DEF n, W, V, t
<1>8. k \in 1..(n - 1) /\ k \in 1..n /\ k + 1 \in 1..n
    <2>1. k # n
        BY <1>2, <1>6, <1>7
    <2> QED BY <1>6, <2>1
<1> DEFINE y == Without(z, k)
<1>9. y \in Seq(1..N) /\ Len(y) = n - 1 /\ IsWalk(y, 1)'
    BY <1>1, <1>2, <1>5, <1>7, <1>8, WalkMerged DEF n
<1>10. \A i \in 1..(n - 1) : y[i] = IF i <= k THEN z[i] ELSE z[i + 1]
    BY DEF Without, n
<1> HIDE DEF y
<1>11. W = [i \in 1..n |-> symbols[z[i]]]
    <2>1. W = Chain[1]
        BY SpelledIs DEF W
    <2> QED BY <1>1, <1>4, <1>5, <2>1, WalkSpells DEF n
<1>12. V = [i \in 1..(n - 1) |-> symbols'[y[i]]]
    <2>1. V = Chain'[1]
        BY <1>3, SpelledAfter DEF V
    <2>3. \A q \in 1..N : \A x \in Seq(1..N) :
              IsWalk(x, q)' => Chain'[q] = [i \in 1..Len(x) |-> symbols'[x[i]]]
        BY <1>1, <1>3, WalkSpellsAfter
    <2>4. Chain'[1] = [i \in 1..Len(y) |-> symbols'[y[i]]]
        BY <1>4, <1>9, <2>3
    <2> QED BY <1>9, <2>1, <2>4
(* Places of the word and positions of the list. *)
<1>13. ASSUME NEW j \in 1..(n - 1)
       PROVE  /\ W[j] \in Ids /\ W[j + 1] \in Ids
              /\ PairAt(z[j]) = input.lookup[<<W[j], W[j + 1]>>]
              /\ Mergeable(z[j]) <=> <<W[j], W[j + 1]>> \in DOMAIN input.merges
              /\ Mergeable(z[j]) => input.merges[<<W[j], W[j + 1]>>] = PairAt(z[j])
    <2>1. j \in 1..n /\ j + 1 \in 1..n /\ next[z[j]] = z[j + 1] /\ z[j] \in live /\ z[j + 1] \in 1..N /\ z[j] \in 1..N
        BY <1>6
    <2>2. W[j] = symbols[z[j]] /\ W[j + 1] = symbols[z[j + 1]]
        BY <1>11, <2>1
    <2>3. W[j] \in Ids /\ W[j + 1] \in Ids
        BY <1>1, <2>1, <2>2
    <2>4. PairAt(z[j]) = input.lookup[<<W[j], W[j + 1]>>]
        BY <2>1, <2>2 DEF PairAt, Look
    <2>5. next[z[j]] # 0
        BY <1>1, <2>1
    <2>6. Mergeable(z[j]) <=> PairAt(z[j]).rank # NoRank
        BY <2>1, <2>5 DEF Mergeable
    <2> HIDE DEF W
    <2>7. IF <<W[j], W[j + 1]>> \in DOMAIN input.merges
          THEN /\ input.lookup[<<W[j], W[j + 1]>>] = input.merges[<<W[j], W[j + 1]>>]
               /\ input.lookup[<<W[j], W[j + 1]>>].rank # NoRank
          ELSE input.lookup[<<W[j], W[j + 1]>>].rank = NoRank
        BY <2>3 DEF Answered
    <2> QED BY <2>3, <2>4, <2>6, <2>7
<1>14. W \in Seq(Ids) /\ Len(W) = n
    <2>1. \A i \in 1..n : symbols[z[i]] \in Ids
        BY <1>1, <1>6
    <2> QED BY <1>6, <1>11, <2>1
<1>15. LowestFirst!Mergeable = {j \in 1..(n - 1) : Mergeable(z[j])}
    BY <1>13, <1>14 DEF LowestFirst!Mergeable, LowestFirst!Pair, W
<1>16. \A j \in LowestFirst!Mergeable : LowestFirst!Rank(j) = PairAt(z[j]).rank
    BY <1>13, <1>15 DEF LowestFirst!Rank, LowestFirst!Pair, W
<1>17. k \in LowestFirst!Mergeable
    BY <1>2, <1>7, <1>8, <1>15 DEF Lowest
<1>18. \A j \in LowestFirst!Mergeable :
          LowestFirst!Rank(k) < LowestFirst!Rank(j) \/ (LowestFirst!Rank(k) = LowestFirst!Rank(j) /\ k <= j)
    <2> TAKE j \in LowestFirst!Mergeable
    <2>1. j \in 1..(n - 1) /\ Mergeable(z[j])
        BY <1>15
    <2>5. j \in 1..n /\ z[j] \in live /\ z[j] \in Nat
        BY <1>1, <1>6, <2>1
    <2>2. \/ PairAt(p).rank < PairAt(z[j]).rank
          \/ PairAt(p).rank = PairAt(z[j]).rank /\ p <= z[j]
        BY <1>2, <2>1, <2>5 DEF Lowest
    <2>3. LowestFirst!Rank(j) = PairAt(z[j]).rank /\ LowestFirst!Rank(k) = PairAt(p).rank
        BY <1>7, <1>16, <1>17
    <2>4. p <= z[j] => k <= j
        <3>1. j < k => z[j] < z[k]
            BY <1>6, <1>8, <2>5
        <3> QED BY <1>1, <1>2, <1>6, <1>7, <1>8, <2>5, <3>1
    <2> QED BY <2>2, <2>3, <2>4
<1>19. V = LowestFirst!MergeAt(k)
    <2>1. input.merges[<<W[k], W[k + 1]>>].token = t
        BY <1>2, <1>7, <1>8, <1>13 DEF Lowest, t
    <2>2. LowestFirst!MergeAt(k) = SubSeq(W, 1, k - 1) \o <<t>> \o SubSeq(W, k + 2, Len(W))
        BY <2>1 DEF LowestFirst!MergeAt, LowestFirst!Pair, W
    <2>3. LowestFirst!MergeAt(k) = [i \in 1..(n - 1) |-> IF i < k THEN W[i] ELSE IF i = k THEN t ELSE W[i + 1]]
        <3>1. W \in Seq(Ids) /\ k \in 1..(Len(W) - 1) /\ t \in Ids
            BY <1>2, <1>8, <1>14 DEF t
        <3>2. SubSeq(W, 1, k - 1) \o <<t>> \o SubSeq(W, k + 2, Len(W)) = Merged(W, k, t)
            BY <3>1, MergedPlaces
        <3>3. LowestFirst!MergeAt(k) = Merged(W, k, t)
            BY <2>2, <3>2
        <3> QED BY <1>14, <3>3 DEF Merged
    <2>4. ASSUME NEW i \in 1..(n - 1)
          PROVE  symbols'[y[i]] = IF i < k THEN W[i] ELSE IF i = k THEN t ELSE W[i + 1]
        <3>1. i \in 1..n /\ i + 1 \in 1..n /\ W[i] = symbols[z[i]] /\ W[i + 1] = symbols[z[i + 1]]
            BY <1>6, <1>11
        <3>2. z[i] \in 1..N /\ z[i + 1] \in 1..N /\ p \in 1..N
            BY <1>1, <1>2, <1>6, <3>1
        <3>3. \A q \in 1..N : symbols'[q] = IF q = p THEN t ELSE symbols[q]
            BY <1>1, <1>3
        <3>4. CASE i < k
            <4>1. z[i] < z[k]
                BY <1>6, <1>8, <3>1, <3>4
            <4>2. z[i] # p
                BY <1>1, <1>7, <3>2, <4>1
            <4>3. y[i] = z[i]
                BY <1>6, <1>10, <3>4
            <4> QED BY <3>1, <3>2, <3>3, <3>4, <4>2, <4>3
        <3>5. CASE i = k
            <4>1. y[i] = p
                BY <1>6, <1>7, <1>10, <3>5
            <4> QED BY <3>2, <3>3, <3>5, <4>1
        <3>6. CASE i > k
            <4>1. k < i + 1 /\ ~(i <= k) /\ ~(i < k) /\ i # k
                BY <1>6, <3>6
            <4>2. z[k] < z[i + 1] /\ y[i] = z[i + 1]
                BY <1>6, <1>8, <1>10, <3>1, <4>1
            <4>3. z[i + 1] # p
                BY <1>1, <1>7, <3>2, <4>2
            <4> QED BY <3>1, <3>2, <3>3, <4>1, <4>2, <4>3
        <3> QED BY <1>6, <3>4, <3>5, <3>6
    <2>5. [i \in 1..(n - 1) |-> symbols'[y[i]]]
             = [i \in 1..(n - 1) |-> IF i < k THEN W[i] ELSE IF i = k THEN t ELSE W[i + 1]]
        BY <2>4
    <2> QED BY <1>12, <2>3, <2>5
<1> QED BY <1>3, <1>17, <1>18, <1>19 DEF LowestFirst!Next, V

(* Compaction moves a symbol from the list to the words in front. *)
LEMMA CompactMaps == RInv /\ Compact => Spelled' = Spelled
<1> SUFFICES ASSUME RInv, Compact PROVE Spelled' = Spelled
    OBVIOUS
<1> DEFINE A == SubSeq(symbols, 1, write)
           s == symbols[at]
<1>0. PICK q : q = next[at]
    OBVIOUS
<1>1. /\ TypeOK /\ Linked /\ Forward /\ Compacting /\ phase = "compact" /\ TypeOK' /\ Forward'
    <2>1. RInv'
        BY ReachNext DEF Next, Step
    <2> QED BY <2>1 DEF RInv, IInv, Compact
<1>2. /\ symbols' = [symbols EXCEPT ![write + 1] = s] /\ write' = write + 1 /\ at' = q
      /\ phase' = IF q = 0 THEN "done" ELSE "compact"
      /\ input' = input /\ next' = next /\ N' = N
    BY <1>0 DEF Compact, N
<1>3. /\ N \in Nat /\ symbols \in [1..N -> Ids] /\ next \in [1..N -> 0..N] /\ live \in SUBSET (1..N)
      /\ write \in 0..N /\ at \in live /\ at \in 1..N /\ write < at /\ write + 1 \in 1..N
    <2>1. N \in Nat /\ symbols \in [1..N -> Ids] /\ next \in [1..N -> 0..N] /\ live \in SUBSET (1..N) /\ write \in 0..N
        BY <1>1, InputType DEF TypeOK
    <2>2. at \in live /\ write < at
        BY <1>1 DEF Compacting
    <2> QED BY <2>1, <2>2
<1>4. Chain[0] = <<>> /\ Chain[at] = <<s>> \o Chain[q]
    BY <1>0, <1>1, <1>3, ChainStep
<1>5. Spelled = A \o Chain[at]
    BY <1>1, SpelledIs
<1>6. symbols' \in [1..N -> Ids] /\ \A k \in 1..N : symbols'[k] = IF k = write + 1 THEN s ELSE symbols[k]
    BY <1>2, <1>3
<1> HIDE DEF A, s
<1>7. A \in Seq(Ids) /\ Len(A) = write /\ \A k \in 1..write : A[k] = symbols[k]
    <2>1. symbols \in Seq(Ids) /\ Len(symbols) = N
        BY <1>3
    <2> QED BY <1>3, <2>1 DEF A
<1>8. s \in Ids
    BY <1>3 DEF s
<1>9. SubSeq(symbols', 1, write + 1) = A \o <<s>>
    <2> DEFINE B == SubSeq(symbols', 1, write + 1)
               C == A \o <<s>>
    <2>1. symbols' \in Seq(Ids) /\ Len(symbols') = N
        BY <1>3, <1>6
    <2>2. B \in Seq(Ids) /\ Len(B) = write + 1 /\ \A k \in 1..(write + 1) : B[k] = symbols'[k]
        BY <1>3, <2>1
    <2>3. C \in Seq(Ids) /\ Len(C) = write + 1 /\ C[write + 1] = s /\ \A k \in 1..write : C[k] = A[k]
        <3>1. <<s>> \in Seq(Ids) /\ Len(<<s>>) = 1 /\ <<s>>[1] = s
            BY <1>8
        <3> QED BY <1>3, <1>7, <3>1
    <2> HIDE DEF B, C
    <2>4. ASSUME NEW k \in 1..(write + 1) PROVE B[k] = C[k]
        <3>1. CASE k = write + 1
            BY <1>3, <1>6, <2>2, <2>3, <3>1
        <3>2. CASE k # write + 1
            <4>1. k \in 1..write /\ k \in 1..N
                BY <1>3, <3>2
            <4> QED BY <1>6, <1>7, <2>2, <2>3, <3>2, <4>1
        <3> QED BY <3>1, <3>2
    <2>5. B = C
        BY <2>2, <2>3, <2>4, SeqEqual
    <2> QED BY <2>5 DEF B, C
<1>10. Spelled' = SubSeq(symbols', 1, write + 1) \o IF q = 0 THEN <<>> ELSE Chain'[q]
    BY <1>2, SpelledAfter
<1>11. CASE q = 0
    <2> DEFINE B == <<s>>
    <2>1. B \in Seq(Ids)
        BY <1>8
    <2>2. Chain[at] = B \o <<>> /\ Spelled' = (A \o B) \o <<>>
        BY <1>4, <1>9, <1>10, <1>11
    <2> HIDE DEF B
    <2>3. A \o B \in Seq(Ids)
        BY <1>7, <2>1, ConcatProperties
    <2>4. B \o <<>> = B /\ (A \o B) \o <<>> = A \o B
        BY <2>1, <2>3, ConcatEmptySeq
    <2> QED BY <1>5, <2>2, <2>4
<1>12. CASE q # 0
    <2>1. q \in live /\ at < q /\ q \in 1..N
        BY <1>0, <1>1, <1>3, <1>12 DEF Linked
    <2>2. PICK z \in Seq(1..N) : IsWalk(z, q) /\ Ascending(z) /\ \A k \in 1..Len(z) : z[k] \in live
        BY <1>1, <2>1, LiveWalk
    <2>3. Len(z) \in Nat /\ \A k \in 1..Len(z) : z[k] \in 1..N
        <3> DEFINE S == 1..N
        <3>1. z \in Seq(S)
            OBVIOUS
        <3> HIDE DEF S
        <3>2. Len(z) \in Nat /\ \A i \in 1..Len(z) : z[i] \in S
            BY <3>1, ElementOfSeq, LenProperties
        <3> QED BY <3>2 DEF S
    <2>4. Len(z) > 0 /\ z[1] = q
        BY <2>2 DEF IsWalk
    <2>5. \A k \in 1..Len(z) : symbols'[z[k]] = symbols[z[k]] /\ symbols[z[k]] \in Ids
        <3> TAKE k \in 1..Len(z)
        <3>1. z[k] >= q
            <4>1. CASE k = 1
                BY <2>1, <2>4, <4>1
            <4>2. CASE k # 1
                <5>1. 1 \in 1..Len(z) /\ 1 < k
                    BY <2>3, <4>2
                <5>2. z[1] < z[k]
                    BY <2>2, <5>1 DEF Ascending
                <5> QED BY <2>1, <2>3, <2>4, <5>2
            <4> QED BY <4>1, <4>2
        <3>2. z[k] # write + 1 /\ z[k] \in 1..N
            BY <1>3, <2>1, <2>3, <3>1, SMTT(30)
        <3> QED BY <1>3, <1>6, <3>2
    <2>6. Chain[q] = [k \in 1..Len(z) |-> symbols[z[k]]]
        BY <1>1, <2>1, <2>2, WalkSpells
    <2>7. Chain'[q] = [k \in 1..Len(z) |-> symbols'[z[k]]]
        <3>1. next' = next /\ N' = N
            BY <1>2
        <3>2. IsWalk(z, q)'
            BY <2>2, <3>1 DEF IsWalk
        <3>3. \A r \in 1..N : \A x \in Seq(1..N) :
                  IsWalk(x, r)' => Chain'[r] = [i \in 1..Len(x) |-> symbols'[x[i]]]
            BY <1>1, <3>1, WalkSpellsAfter
        <3> QED BY <2>1, <3>2, <3>3
    <2>8. Chain'[q] = Chain[q]
        BY <2>5, <2>6, <2>7
    <2>9. Chain[q] \in Seq(Ids)
        BY <2>3, <2>5, <2>6
    <2>10. A \o (<<s>> \o Chain[q]) = (A \o <<s>>) \o Chain[q]
        <3> DEFINE B == <<s>>
                   C == Chain[q]
        <3>1. B \in Seq(Ids) /\ C \in Seq(Ids)
            BY <1>8, <2>9
        <3> HIDE DEF B, C
        <3>2. A \o (B \o C) = (A \o B) \o C
            BY <1>7, <3>1, ConcatAssociative, SMTT(30)
        <3> QED BY <3>2 DEF B, C
    <2> QED BY <1>4, <1>5, <1>9, <1>10, <1>12, <2>8, <2>10
<1> QED BY <1>11, <1>12

(* The other steps leave the word alone. *)
LEMMA QuietMaps == RInv /\ (PopStale \/ Stop \/ UNCHANGED vars) => Spelled' = Spelled
<1> SUFFICES ASSUME RInv, PopStale \/ Stop \/ UNCHANGED vars PROVE Spelled' = Spelled
    OBVIOUS
<1>1. UNCHANGED <<input, symbols, next, write, at>>
    BY DEF PopStale, Stop, vars
<1>2. Chain' = Chain
    BY <1>1, ChainKept
<1>3. CASE phase' = phase
    BY <1>1, <1>2, <1>3, SpelledIs, SpelledAfter
<1>4. CASE phase' # phase
    <2>1. Stop
        BY <1>4 DEF PopStale, vars
    <2>2. TypeOK /\ Linked /\ Forward /\ phase = "merge" /\ phase' = "compact" /\ write = 0 /\ at = 1 /\ N >= 2
        BY <2>1 DEF RInv, IInv, Stop
    <2>3. /\ N \in Nat /\ symbols \in [1..N -> Ids] /\ 1 \in live
        BY <2>2, InputType DEF TypeOK, Linked
    <2>4. Chain[1] \in Seq(Ids)
        <3>1. PICK z \in Seq(1..N) : IsWalk(z, 1)
            BY <2>2, <2>3, LiveWalk
        <3>2. Len(z) \in Nat /\ \A k \in 1..Len(z) : z[k] \in 1..N
            <4> DEFINE S == 1..N
            <4>1. z \in Seq(S)
                OBVIOUS
            <4> HIDE DEF S
            <4>2. Len(z) \in Nat /\ \A i \in 1..Len(z) : z[i] \in S
                BY <4>1, ElementOfSeq, LenProperties
            <4> QED BY <4>2 DEF S
        <3>3. Chain[1] = [k \in 1..Len(z) |-> symbols[z[k]]]
            <4>1. 1 \in 1..N
                BY <2>2, <2>3
            <4> QED BY <2>2, <3>1, <4>1, WalkSpells
        <3>4. \A k \in 1..Len(z) : symbols[z[k]] \in Ids
            BY <2>3, <3>2
        <3> QED BY <3>2, <3>3, <3>4
    <2>5. SubSeq(symbols, 1, 0) = <<>>
        BY <2>3
    <2>6. Spelled = Chain[1]
        BY <2>2, SpelledIs
    <2>7. Spelled' = <<>> \o Chain[1]
        BY <1>1, <1>2, <2>2, <2>5, SpelledAfter
    <2> QED BY <2>4, <2>6, <2>7, ConcatEmptySeq
<1> QED BY <1>3, <1>4

(* A word that nothing has merged spells itself. *)
LEMMA InitMaps == Init => LowestFirst!Init
<1> SUFFICES ASSUME Init PROVE Spelled = input.word
    BY DEF LowestFirst!Init
<1>1. RInv
    BY ReachInit
<1>2. TypeOK /\ Forward /\ Linked /\ IsInput(input)
    BY <1>1 DEF RInv, IInv, TypeOK
<1>3. /\ N \in Nat /\ symbols = input.word /\ input.word \in Seq(Ids) /\ input.word \in [1..N -> Ids]
      /\ Len(input.word) = N
      /\ phase = IF N < 2 THEN "done" ELSE "merge"
      /\ write = IF N < 2 THEN N ELSE 0
      /\ next = [p \in 1..N |-> IF p < N THEN p + 1 ELSE 0]
    BY <1>2, InputType DEF Init, IsInput, N
<1>4. CASE N < 2
    <2>1. Spelled = SubSeq(input.word, 1, N) \o <<>>
        BY <1>3, <1>4, SpelledIs
    <2>2. SubSeq(input.word, 1, N) = input.word
        BY <1>3, SubSeqFull
    <2> QED BY <1>3, <2>1, <2>2, ConcatEmptySeq
<1>5. CASE N >= 2
    <2> DEFINE z == [k \in 1..N |-> k]
    <2>1. z \in Seq(1..N) /\ Len(z) = N /\ \A k \in 1..N : z[k] = k
        BY <1>3
    <2> HIDE DEF z
    <2>2. IsWalk(z, 1)
        BY <1>3, <1>5, <2>1 DEF IsWalk
    <2>3. Chain[1] = [k \in 1..N |-> symbols[z[k]]]
        <3>1. 1 \in 1..N
            BY <1>3, <1>5
        <3> QED BY <1>2, <2>1, <2>2, <3>1, WalkSpells
    <2>4. [k \in 1..N |-> symbols[z[k]]] = [k \in 1..N |-> input.word[k]]
        BY <1>3, <2>1
    <2>5. input.word = [k \in 1..N |-> input.word[k]]
        BY <1>3
    <2>6. Spelled = Chain[1]
        BY <1>3, <1>5, SpelledIs
    <2> QED BY <2>3, <2>4, <2>5, <2>6
<1> QED BY <1>3, <1>4, <1>5

(* Whichever loop runs, whatever the word, the merge table and the width of a lane:
   where the tables it looks pairs up in answer with the merge table, its steps are
   those of byte pair encoding, and what it returns is that encoding. *)
THEOREM LoopsEncodeByPairs == TablesAnswer /\ Spec => ImplementsLowestFirst
<1>1. Init => LowestFirst!Init
    BY InitMaps
<1>2. TablesAnswer /\ RInv /\ [Next]_vars => [LowestFirst!Next]_<<input, Spelled>>
    <2> SUFFICES ASSUME TablesAnswer, RInv, [Next]_vars
                 PROVE  [LowestFirst!Next]_<<input, Spelled>>
        OBVIOUS
    <2>1. IInv /\ Answered(input)
        BY DEF RInv, TablesAnswer
    <2>2. CASE phase = "merge" /\ \E p \in live : TakesLowest(p)
        BY <2>1, <2>2, MergeMaps, ReachNext
    <2>3. CASE Compact
        <3>1. input' = input
            BY <2>3 DEF Compact
        <3> QED BY <2>3, <3>1, CompactMaps
    <2>4. CASE PopStale \/ Stop \/ UNCHANGED vars
        <3>1. input' = input
            BY <2>4 DEF PopStale, Stop, vars
        <3> QED BY <2>4, <3>1, QuietMaps
    <2> QED BY <2>1, <2>2, <2>3, <2>4, StepKinds
<1>3. TablesAnswer /\ RInv /\ [Next]_vars => TablesAnswer' /\ RInv'
    BY ReachNext
<1>4. TablesAnswer /\ Spec => [](TablesAnswer /\ RInv)
    BY <1>3, ReachInit, PTL DEF Spec
<1> QED BY <1>1, <1>2, <1>4, PTL DEF Spec, ImplementsLowestFirst, LowestFirst!Spec
-----------------------------------------------------------------------------
-----------------------------------------------------------------------------
(* What is known of a vocabulary's merges and of the order they are entered in: every
   merge is, and the flat table, at most half full, has room for more. *)
KeyOf(p) == Key(p[1], p[2])
IsVocabulary(m, order) ==
    /\ DOMAIN m \subseteq Nat \X Nat /\ \A p \in DOMAIN m : m[p] \in Nat
    /\ order \in Seq(DOMAIN m) /\ Len(order) < NumSlots
    /\ \A p \in DOMAIN m : \E i \in 1..Len(order) : order[i] = p

(* Ids fit their field of a slot; a hash is a slot.  (A power is not known to the provers
   to be a number.) *)
TableShape == IdLimit \in Nat \ {0} /\ \A key \in Nat : Hash(key) \in 0..(NumSlots - 1)

(* The walk from the home of a key comes to its slot. *)
Reaches(t, key, id) ==
    \E d \in 0..(NumSlots - 1) :
        /\ t[SlotAt(Hash(key), d)] = Packed(key, id)
        /\ \A e \in 0..(d - 1) : t[SlotAt(Hash(key), e)] # Vacant
Occupied(t) == {s \in 0..(NumSlots - 1) : t[s] # Vacant}

(* A table with the first k merges. *)
Holds(t, m, order, k) ==
    /\ t \in [0..(NumSlots - 1) -> Int]
    /\ \A s \in Occupied(t) : \E i \in 1..k : t[s] = Packed(KeyOf(order[i]), m[order[i]])
    /\ \A i \in 1..k : Reaches(t, KeyOf(order[i]), m[order[i]])
    /\ IsFiniteSet(Occupied(t)) /\ Cardinality(Occupied(t)) <= k

(* The fold goes over the places of `order`, the last one outermost. *)
Blank == [s \in 0..(NumSlots - 1) |-> Vacant]
EnterOne(t, p, m) == Enter(t, KeyOf(p), m[p])
BuildStep(g, s, m, order) ==
    IF s = {} THEN Blank ELSE EnterOne(g[s \ {Max(s)}], order[Max(s)], m)
IsBuild(g, m, order) == g = [s \in SUBSET (DOMAIN order) |-> BuildStep(g, s, m, order)]

LEMMA BuildFold ==
    ASSUME NEW m, NEW order, NEW len, Fits(m, len)
    PROVE  Build(m, order, len) = (CHOOSE g : IsBuild(g, m, order))[DOMAIN order]
BY DEF Build, FoldLeft, MapThenFoldSet, IsBuild, BuildStep, EnterOne, KeyOf, Blank

(* A nonempty set of places has a last one. *)
LEMMA LastPlace ==
    ASSUME NEW n \in Nat, NEW s \in SUBSET (1..n), s # {}
    PROVE  Max(s) \in s /\ \A x \in s : x <= Max(s)
<1> DEFINE up == {n - x : x \in s}
<1>1. up \in SUBSET Nat /\ up # {}
    OBVIOUS
<1>2. PICK u \in up : \A v \in up : u <= v
    <2> HIDE DEF up
    <2> QED BY <1>1, LeastElement
<1>3. PICK x \in s : u = n - x
    OBVIOUS
<1>4. \A y \in s : x >= y
    <2> TAKE y \in s
    <2>1. n - y \in up
        OBVIOUS
    <2>2. n - x <= n - y
        <3> HIDE DEF up
        <3> QED BY <1>2, <1>3, <2>1
    <2> QED BY <2>2
<1>5. Max(s) \in s /\ \A y \in s : Max(s) >= y
    <2> HIDE DEF up
    <2> QED BY <1>4 DEF Max
<1> QED BY <1>5

(* Each fold is of fewer places: it exists. *)
LEMMA BuildExists ==
    ASSUME NEW n \in Nat, NEW m, NEW order, DOMAIN order = 1..n
    PROVE  \E g : IsBuild(g, m, order)
<1> DEFINE Walk(g, k) == g = [s \in SUBSET (1..k) |-> BuildStep(g, s, m, order)]
           bad == {k \in Nat : k <= n /\ ~ \E g : Walk(g, k)}
<1>1. bad = {}
    <2> SUFFICES ASSUME bad # {} PROVE FALSE
        OBVIOUS
    <2>1. PICK k \in bad : \A j \in bad : k <= j
        BY LeastElement
    <2>2. k \in Nat /\ k <= n /\ ~ \E g : Walk(g, k)
        OBVIOUS
    <2>3. CASE k = 0
        <3> DEFINE g == [s \in SUBSET (1..k) |-> Blank]
        <3>1. \A s \in SUBSET (1..k) : s = {}
            BY <2>3
        <3>2. \A s \in SUBSET (1..k) : BuildStep(g, s, m, order) = Blank
            BY <3>1 DEF BuildStep
        <3> DEFINE D == SUBSET (1..k)
                   h == [s \in D |-> BuildStep(g, s, m, order)]
        <3>3. g = h
            <4> HIDE DEF D
            <4>1. \A s \in D : BuildStep(g, s, m, order) = Blank
                BY <3>2 DEF D
            <4> QED BY <4>1 DEF D
        <3>4. Walk(g, k)
            BY <3>3
        <3> QED BY <2>2, <3>4
    <2>4. CASE k # 0
        <3> DEFINE j == k - 1
        <3>1. j \in Nat /\ j <= n /\ j < k /\ j \notin bad
            <4> HIDE DEF bad
            <4> QED BY <2>1, <2>2, <2>4
        <3> HIDE DEF j
        <3>2. PICK h : Walk(h, j)
            BY <3>1
        <3> DEFINE D == SUBSET (1..k)
                   g == [s \in D |-> BuildStep(h, s, m, order)]
        <3>3. ASSUME NEW s \in D PROVE BuildStep(g, s, m, order) = BuildStep(h, s, m, order)
            <4>1. CASE s = {}
                BY <4>1 DEF BuildStep
            <4>2. CASE s # {}
                <5> DEFINE r == s \ {Max(s)}
                <5>1. Max(s) \in s /\ \A x \in s : x <= Max(s)
                    BY <2>2, <4>2, LastPlace
                <5>2. r \in SUBSET (1..j) /\ r \in D
                    <6> DEFINE l == Max(s)
                    <6>3. l \in 1..k /\ \A x \in r : x \in 1..k /\ x <= l /\ x # l
                        BY <5>1
                    <6> HIDE DEF l, r
                    <6>1. \A x \in r : x \in 1..k /\ x < l /\ l \in 1..k
                        BY <2>2, <6>3
                    <6>2. \A x \in r : x \in 1..j
                        BY <2>2, <6>1 DEF j
                    <6> QED BY <6>1, <6>2
                <5> HIDE DEF r, D
                <5>3. h[r] = BuildStep(h, r, m, order)
                    BY <3>2, <5>2
                <5>4. g[r] = BuildStep(h, r, m, order)
                    BY <5>2
                <5> HIDE DEF g
                <5> QED BY <4>2, <5>3, <5>4 DEF BuildStep, r
            <4> QED BY <4>1, <4>2
        <3>4. [s \in D |-> BuildStep(g, s, m, order)] = [s \in D |-> BuildStep(h, s, m, order)]
            <4> HIDE DEF D, g
            <4> QED BY <3>3
        <3>5. Walk(g, k)
            BY <3>4
        <3> QED BY <2>2, <3>5
    <2> QED BY <2>3, <2>4
<1>2. n \notin bad
    BY <1>1
<1>3. n \in Nat /\ n <= n
    OBVIOUS
<1>4. \E g : Walk(g, n)
    <2> HIDE DEF Walk
    <2> QED BY <1>2, <1>3
<1> QED BY <1>4 DEF IsBuild

(* The tables that the build goes through, one merge after another. *)
LEMMA BuildUpTo ==
    ASSUME NEW m, NEW order, NEW n \in Nat, DOMAIN order = 1..n, NEW len, Fits(m, len)
    PROVE  \E g : /\ g[0] = Blank /\ g[n] = Build(m, order, len)
                  /\ \A k \in 1..n : g[k] = EnterOne(g[k - 1], order[k], m)
<1> DEFINE f == CHOOSE f : IsBuild(f, m, order)
<1>1. IsBuild(f, m, order)
    BY BuildExists
<1>2. Build(m, order, len) = f[1..n]
    BY BuildFold
<1> HIDE DEF f
<1>3. \A s \in SUBSET (1..n) : f[s] = BuildStep(f, s, m, order)
    BY <1>1 DEF IsBuild
<1> DEFINE g == [k \in 0..n |-> f[1..k]]
<1>4. \A k \in 0..n : g[k] = f[1..k]
    OBVIOUS
<1>5. g[0] = Blank
    <2>1. 1..0 = {} /\ 0 \in 0..n /\ {} \in SUBSET (1..n)
        OBVIOUS
    <2>2. g[0] = f[{}]
        BY <1>4, <2>1
    <2> HIDE DEF g
    <2> QED BY <1>3, <2>1, <2>2 DEF BuildStep
<1>6. ASSUME NEW k \in 1..n PROVE g[k] = EnterOne(g[k - 1], order[k], m)
    <2> DEFINE s == 1..k
    <2>1. s \in SUBSET (1..n) /\ s # {} /\ k \in s /\ k \in 0..n /\ k - 1 \in 0..n /\ k \in Nat
        <3>1. k \in s /\ k \in 0..n /\ k - 1 \in 0..n /\ k \in Nat
            OBVIOUS
        <3>2. \A x \in s : x \in 1..n
            OBVIOUS
        <3> HIDE DEF s
        <3> QED BY <3>1, <3>2
    <2>2. Max(s) \in s /\ \A x \in s : x <= Max(s)
        <3> HIDE DEF s
        <3> QED BY <2>1, LastPlace
    <2>3. Max(s) = k
        <3> DEFINE x == Max(s)
        <3>1. x \in 1..k /\ k <= x
            BY <2>1, <2>2
        <3> HIDE DEF x
        <3>2. x = k
            BY <2>1, <3>1
        <3> QED BY <3>2 DEF x
    <2>4. s \ {k} = 1..(k - 1)
        OBVIOUS
    <2>5. f[s] = EnterOne(f[s \ {Max(s)}], order[Max(s)], m)
        <3> HIDE DEF s
        <3> QED BY <1>3, <2>1 DEF BuildStep
    <2>6. f[1..k] = EnterOne(f[1..(k - 1)], order[k], m)
        BY <2>3, <2>4, <2>5
    <2> HIDE DEF g
    <2> QED BY <1>4, <2>1, <2>6
<1>7. g[n] = Build(m, order, len)
    BY <1>2, <1>4
<1> HIDE DEF g
<1> QED BY <1>5, <1>6, <1>7

(* From its home a key can come to every slot, and only to slots. *)
LEMMA EverySlot ==
    ASSUME NumSlots \in Nat \ {0}, NEW h \in 0..(NumSlots - 1)
    PROVE  /\ \A d \in 0..(NumSlots - 1) : SlotAt(h, d) \in 0..(NumSlots - 1)
           /\ \A s \in 0..(NumSlots - 1) : \E d \in 0..(NumSlots - 1) : SlotAt(h, d) = s
<1>1. \A d \in 0..(NumSlots - 1) : SlotAt(h, d) \in 0..(NumSlots - 1)
    BY DEF SlotAt
<1>2. ASSUME NEW s \in 0..(NumSlots - 1) PROVE \E d \in 0..(NumSlots - 1) : SlotAt(h, d) = s
    <2>1. CASE s >= h
        <3>1. s - h \in 0..(NumSlots - 1) /\ SlotAt(h, s - h) = s
            BY <2>1 DEF SlotAt
        <3> QED BY <3>1
    <2>2. CASE s < h
        <3>1. s + NumSlots - h \in 0..(NumSlots - 1) /\ SlotAt(h, s + NumSlots - h) = s
            BY <2>2 DEF SlotAt
        <3> QED BY <3>1
    <2> QED BY <2>1, <2>2
<1> QED BY <1>1, <1>2

(* A packed slot holds its key and its id, and is not vacant. *)
LEMMA PackedFacts ==
    ASSUME IdLimit \in Nat \ {0}, NEW key \in Nat, NEW id \in Nat, id < IdLimit
    PROVE  /\ Packed(key, id) \in Nat /\ Packed(key, id) # Vacant
           /\ Packed(key, id) \div IdLimit = key /\ Packed(key, id) % IdLimit = id
<1> DEFINE b == IdLimit
<1>1. b \in Nat \ {0} /\ id \in 0..(b - 1)
    OBVIOUS
<1> HIDE DEF b
<1>2. (key * b + id) % b = id /\ (key * b + id) \div b = key
    BY <1>1, Unpack
<1>3. key * b \in Nat
    BY <1>1
<1>4. key * b + id \in Nat
    BY <1>3
<1>5. Packed(key, id) = key * b + id
    BY DEF Packed, b
<1> DEFINE x == key * b + id
<1>6. x \in Nat /\ x # Vacant
    BY <1>4 DEF Vacant
<1> QED BY <1>2, <1>5, <1>6 DEF b

(* Ids that fit their fields make different keys. *)
LEMMA KeysDiffer ==
    ASSUME IdLimit \in Nat \ {0}, NEW a \in Nat, NEW b \in Nat, NEW c \in Nat, NEW d \in Nat,
           b < IdLimit, d < IdLimit
    PROVE  Key(a, b) \in Nat /\ (Key(a, b) = Key(c, d) => a = c /\ b = d)
<1> DEFINE l == IdLimit
<1>1. l \in Nat \ {0} /\ b \in 0..(l - 1) /\ d \in 0..(l - 1)
    OBVIOUS
<1> HIDE DEF l
<1>2. (a * l + b) % l = b /\ (a * l + b) \div l = a
    BY <1>1, Unpack
<1>3. (c * l + d) % l = d /\ (c * l + d) \div l = c
    BY <1>1, Unpack
<1>4. a * l \in Nat
    BY <1>1
<1>5. a * l + b \in Nat
    BY <1>4
<1>6. Key(a, b) = a * l + b /\ Key(c, d) = c * l + d
    BY DEF Key, l
<1> DEFINE x == a * l + b
           y == c * l + d
<1>7. x = y => a = c /\ b = d
    <2> HIDE DEF x, y
    <2> QED BY <1>2, <1>3 DEF x, y
<1> QED BY <1>5, <1>6, <1>7

(* A table is not a table given up. *)
LEMMA TableNotRefused ==
    ASSUME NumSlots \in Nat \ {0}, NEW t \in [0..(NumSlots - 1) -> Int]
    PROVE  t # Refused
<1>1. 0 \in DOMAIN t
    OBVIOUS
<1>2. DOMAIN Refused = {}
    BY DEF Refused
<1> QED BY <1>1, <1>2

(* The ids and keys of a merge. *)
LEMMA MergeTypes ==
    ASSUME TableShape, NEW m, NEW order, NEW len, IsVocabulary(m, order), Fits(m, len), NEW p \in DOMAIN m
    PROVE  /\ p[1] \in Nat /\ p[2] \in Nat /\ m[p] \in Nat /\ p = <<p[1], p[2]>>
           /\ p[1] < IdLimit /\ p[2] < IdLimit /\ m[p] < IdLimit
           /\ KeyOf(p) \in Nat /\ Hash(KeyOf(p)) \in 0..(NumSlots - 1)
<1>1. p \in Nat \X Nat /\ m[p] \in Nat
    BY DEF IsVocabulary
<1>2. p[1] \in Nat /\ p[2] \in Nat /\ p = <<p[1], p[2]>>
    BY <1>1
<1>3. p[1] < IdLimit /\ p[2] < IdLimit /\ m[p] < IdLimit
    BY DEF Fits
<1>4. KeyOf(p) \in Nat
    BY <1>2, <1>3, KeysDiffer DEF KeyOf, TableShape
<1>5. Hash(KeyOf(p)) \in 0..(NumSlots - 1)
    BY <1>4 DEF TableShape
<1> QED BY <1>1, <1>2, <1>3, <1>4, <1>5

(* A merge enters the first vacant slot from its home on, and moves nothing. *)
LEMMA EnterKeeps ==
    ASSUME TableShape, NumSlots \in Nat \ {0}, NEW m, NEW order, NEW len, IsVocabulary(m, order), Fits(m, len),
           NEW k \in 1..Len(order), NEW t, Holds(t, m, order, k - 1), EnterOne(t, order[k], m) # Refused
    PROVE  Holds(EnterOne(t, order[k], m), m, order, k)
<1> DEFINE p == order[k]
           key == KeyOf(p)
           id == m[p]
           S == 0..(NumSlots - 1)
           free == {d \in S : t[SlotAt(Hash(key), d)] = Vacant}
           u == EnterOne(t, p, m)
<1>1. Len(order) \in Nat /\ p \in DOMAIN m
    BY ElementOfSeq, LenProperties DEF IsVocabulary
<1>2. key \in Nat /\ id \in Nat /\ id < IdLimit /\ Hash(key) \in S
    BY <1>1, MergeTypes
<1>3. Packed(key, id) \in Nat /\ Packed(key, id) # Vacant
    BY <1>2, PackedFacts DEF TableShape
<1>4. t \in [S -> Int] /\ t # Refused
    BY TableNotRefused DEF Holds
<1>5. u = IF free = {} \/ (CHOOSE d \in free : \A e \in free : d <= e) > MaxDisplacement THEN Refused
          ELSE [t EXCEPT ![SlotAt(Hash(key), CHOOSE d \in free : \A e \in free : d <= e)] = Packed(key, id)]
    BY <1>4 DEF EnterOne, Enter
<1>6. free # {} /\ free \in SUBSET Nat
    BY <1>5, SMTT(30)
<1>7. PICK d \in free : (\A e \in free : d <= e) /\ u = [t EXCEPT ![SlotAt(Hash(key), d)] = Packed(key, id)]
    <2> DEFINE d == CHOOSE d \in free : \A e \in free : d <= e
    <2>1. \E x \in free : \A e \in free : x <= e
        <3> HIDE DEF free
        <3> QED BY <1>6, LeastElement
    <2>2. d \in free /\ \A e \in free : d <= e
        <3> HIDE DEF free
        <3> QED BY <2>1
    <2>3. u = [t EXCEPT ![SlotAt(Hash(key), d)] = Packed(key, id)]
        BY <1>5
    <2> HIDE DEF d, free, u
    <2> QED BY <2>2, <2>3
<1>8. d \in S /\ t[SlotAt(Hash(key), d)] = Vacant
    BY <1>7
<1>9. \A e \in 0..(d - 1) : t[SlotAt(Hash(key), e)] # Vacant
    <2> TAKE e \in 0..(d - 1)
    <2>1. e \in S /\ ~(d <= e)
        BY <1>8
    <2>2. e \notin free
        <3> HIDE DEF free
        <3> QED BY <1>7, <2>1
    <2> QED BY <2>1, <2>2
<1> HIDE DEF free, u, p, key, id
<1> DEFINE slot == SlotAt(Hash(key), d)
<1>10. slot \in S
    BY <1>2, <1>8, EverySlot
<1> HIDE DEF slot
<1>11. /\ u \in [S -> Int] /\ u[slot] = Packed(key, id)
       /\ \A s \in S : s # slot => u[s] = t[s]
    BY <1>3, <1>4, <1>7, <1>10 DEF slot
<1>12. t[slot] = Vacant
    BY <1>8 DEF slot
<1>13. Occupied(u) = Occupied(t) \cup {slot}
    BY <1>3, <1>10, <1>11 DEF Occupied
<1>14. IsFiniteSet(Occupied(u)) /\ Cardinality(Occupied(u)) <= k
    <2>1. IsFiniteSet(Occupied(t)) /\ Cardinality(Occupied(t)) <= k - 1 /\ Cardinality(Occupied(t)) \in Nat
        BY FS_CardinalityType DEF Holds
    <2>2. slot \notin Occupied(t)
        BY <1>12 DEF Occupied
    <2>3. IsFiniteSet(Occupied(u)) /\ Cardinality(Occupied(u)) = Cardinality(Occupied(t)) + 1
        BY <1>13, <2>1, <2>2, FS_AddElement
    <2> QED BY <1>1, <2>1, <2>3
<1>15. \A s \in Occupied(u) : \E i \in 1..k : u[s] = Packed(KeyOf(order[i]), m[order[i]])
    <2> TAKE s \in Occupied(u)
    <2>1. CASE s = slot
        <3>1. k \in 1..k
            BY <1>1
        <3> QED BY <1>11, <2>1, <3>1 DEF key, id, p
    <2>2. CASE s # slot
        <3>1. s \in Occupied(t) /\ s \in S /\ u[s] = t[s]
            BY <1>11, <1>13, <2>2 DEF Occupied
        <3>2. PICK i \in 1..(k - 1) : t[s] = Packed(KeyOf(order[i]), m[order[i]])
            BY <3>1 DEF Holds
        <3>3. i \in 1..k
            BY <1>1
        <3> QED BY <3>1, <3>2, <3>3
    <2> QED BY <2>1, <2>2
<1>16. ASSUME NEW i \in 1..k PROVE Reaches(u, KeyOf(order[i]), m[order[i]])
    <2>1. CASE i = k
        <3>1. Reaches(u, key, id)
            <4>1. \A e \in 0..(d - 1) : u[SlotAt(Hash(key), e)] # Vacant
                <5> TAKE e \in 0..(d - 1)
                <5>1. e \in S /\ t[SlotAt(Hash(key), e)] # Vacant
                    BY <1>8, <1>9
                <5>2. SlotAt(Hash(key), e) \in S /\ SlotAt(Hash(key), e) # slot
                    BY <1>2, <1>12, <5>1, EverySlot
                <5> QED BY <1>11, <5>1, <5>2
            <4> QED BY <1>8, <1>11, <4>1 DEF Reaches, slot
        <3> QED BY <2>1, <3>1 DEF key, id, p
    <2>2. CASE i # k
        <3>1. i \in 1..(k - 1) /\ i \in 1..Len(order)
            BY <1>1, <2>2
        <3> DEFINE q == KeyOf(order[i])
                   v == m[order[i]]
        <3>2. PICK c \in S : /\ t[SlotAt(Hash(q), c)] = Packed(q, v)
                             /\ \A e \in 0..(c - 1) : t[SlotAt(Hash(q), e)] # Vacant
            BY <3>1 DEF Holds, Reaches
        <3>3. order[i] \in DOMAIN m
            BY <3>1, ElementOfSeq DEF IsVocabulary
        <3>4. Hash(q) \in S /\ Packed(q, v) # Vacant
            <4>1. q \in Nat /\ v \in Nat /\ v < IdLimit /\ Hash(q) \in S
                BY <3>3, MergeTypes
            <4> HIDE DEF q, v
            <4> QED BY <4>1, PackedFacts DEF TableShape
        <3> HIDE DEF q, v
        <3>5. \A e \in S : SlotAt(Hash(q), e) \in S
            BY <3>4, EverySlot
        <3>6. u[SlotAt(Hash(q), c)] = Packed(q, v)
            BY <1>11, <1>12, <3>2, <3>4, <3>5
        <3>7. \A e \in 0..(c - 1) : u[SlotAt(Hash(q), e)] # Vacant
            <4> TAKE e \in 0..(c - 1)
            <4>1. e \in S
                OBVIOUS
            <4> QED BY <1>11, <1>12, <3>2, <3>5, <4>1
        <3>8. Reaches(u, q, v)
            BY <3>6, <3>7 DEF Reaches
        <3> QED BY <3>8 DEF q, v
    <2> QED BY <2>1, <2>2
<1>17. Holds(u, m, order, k)
    BY <1>11, <1>14, <1>15, <1>16 DEF Holds
<1> QED BY <1>17 DEF u, p

(* The table that is built has every merge. *)
LEMMA BuildHolds ==
    ASSUME TableShape, NumSlots \in Nat \ {0}, NEW m, NEW order, NEW len, IsVocabulary(m, order),
           Build(m, order, len) # Refused
    PROVE  Fits(m, len) /\ Holds(Build(m, order, len), m, order, Len(order))
<1>1. Fits(m, len)
    BY DEF Build
<1> DEFINE n == Len(order)
<1>2. n \in Nat /\ DOMAIN order = 1..n /\ \A i \in 1..n : order[i] \in DOMAIN m
    BY ElementOfSeq, LenProperties DEF IsVocabulary
<1> HIDE DEF n
<1>3. PICK g : /\ g[0] = Blank /\ g[n] = Build(m, order, len)
               /\ \A k \in 1..n : g[k] = EnterOne(g[k - 1], order[k], m)
    BY <1>1, <1>2, BuildUpTo
(* A table given up stays given up. *)
<1>4. \A k \in 0..n : g[k] # Refused
    <2> DEFINE bad == {j \in Nat : j <= n /\ g[n - j] = Refused}
    <2>1. bad = {}
        <3> SUFFICES ASSUME bad # {} PROVE FALSE
            OBVIOUS
        <3>1. PICK j \in bad : \A i \in bad : j <= i
            BY LeastElement
        <3>2. j \in Nat /\ j <= n /\ g[n - j] = Refused
            OBVIOUS
        <3>3. j # 0
            BY <1>2, <1>3, <3>2
        <3>4. j - 1 \in Nat /\ j - 1 <= n /\ j - 1 < j /\ n - (j - 1) \in 1..n /\ n - (j - 1) - 1 = n - j
            BY <1>2, <3>2, <3>3
        <3>5. j - 1 \notin bad
            <4> HIDE DEF bad
            <4> QED BY <3>1, <3>2, <3>4
        <3>6. g[n - (j - 1)] # Refused
            BY <3>4, <3>5
        <3>7. g[n - (j - 1)] = EnterOne(g[n - j], order[n - (j - 1)], m)
            BY <1>3, <3>4
        <3> QED BY <3>2, <3>6, <3>7 DEF EnterOne, Enter
    <2> TAKE k \in 0..n
    <2>2. n - k \in Nat /\ n - k <= n /\ n - (n - k) = k
        BY <1>2
    <2>3. n - k \notin bad
        BY <2>1
    <2> QED BY <2>2, <2>3
<1>5. Holds(Blank, m, order, 0)
    <2>1. Blank \in [0..(NumSlots - 1) -> Int] /\ Occupied(Blank) = {}
        BY DEF Blank, Vacant, Occupied
    <2> QED BY <2>1, FS_EmptySet DEF Holds
<1> DEFINE bad == {k \in Nat : k <= n /\ ~Holds(g[k], m, order, k)}
<1>6. bad = {}
    <2> SUFFICES ASSUME bad # {} PROVE FALSE
        OBVIOUS
    <2>1. PICK k \in bad : \A i \in bad : k <= i
        BY LeastElement
    <2>2. k \in Nat /\ k <= n /\ ~Holds(g[k], m, order, k)
        OBVIOUS
    <2>3. k # 0
        BY <1>3, <1>5, <2>2
    <2>4. k - 1 \in Nat /\ k - 1 <= n /\ k - 1 < k /\ k \in 1..n /\ k \in 0..n
        BY <1>2, <2>2, <2>3
    <2>5. k - 1 \notin bad
        <3> HIDE DEF bad
        <3> QED BY <2>1, <2>2, <2>4
    <2>6. Holds(g[k - 1], m, order, k - 1)
        BY <2>4, <2>5
    <2>7. g[k] = EnterOne(g[k - 1], order[k], m) /\ g[k] # Refused
        BY <1>3, <1>4, <2>4
    <2> HIDE DEF bad
    <2> QED BY <1>1, <2>2, <2>4, <2>6, <2>7, EnterKeeps DEF n
<1>7. n \notin bad
    BY <1>6
<1>8. Holds(g[n], m, order, n)
    BY <1>2, <1>7
<1> QED BY <1>1, <1>3, <1>8 DEF n

(* A merge that was entered is found by the walk, with its id. *)
LEMMA ProbeFinds ==
    ASSUME TableShape, NumSlots \in Nat \ {0}, NEW m, NEW order, NEW len, IsVocabulary(m, order), Fits(m, len),
           NEW t, Holds(t, m, order, Len(order)), NEW a \in Nat, NEW b \in Nat, b < IdLimit
    PROVE  Probe(t, Key(a, b)) = IF <<a, b>> \in DOMAIN m THEN m[<<a, b>>] ELSE NoMerge
<1> DEFINE key == Key(a, b)
           S == 0..(NumSlots - 1)
           slotOf(d) == t[SlotAt(Hash(key), d)]
           ends == {d \in S : slotOf(d) = Vacant \/ slotOf(d) \div IdLimit = key}
           last == CHOOSE d \in ends : \A e \in ends : d <= e
<1>1. key \in Nat /\ Hash(key) \in S
    BY KeysDiffer DEF TableShape
<1>2. Probe(t, key) = IF slotOf(last) = Vacant THEN NoMerge ELSE slotOf(last) % IdLimit
    BY DEF Probe
<1> DEFINE n == Len(order)
<1>3. n \in Nat /\ n < NumSlots /\ \A i \in 1..n : order[i] \in DOMAIN m
    BY ElementOfSeq, LenProperties DEF IsVocabulary
(* A slot of this key holds this merge. *)
<1>4. ASSUME NEW s \in S, t[s] # Vacant, t[s] \div IdLimit = key
      PROVE  <<a, b>> \in DOMAIN m /\ t[s] % IdLimit = m[<<a, b>>]
    <2>1. PICK i \in 1..n : t[s] = Packed(KeyOf(order[i]), m[order[i]])
        BY <1>4 DEF Holds, Occupied
    <2> DEFINE p == order[i]
    <2>2. p \in DOMAIN m
        BY <1>3
    <2> HIDE DEF p
    <2>3. /\ p[1] \in Nat /\ p[2] \in Nat /\ m[p] \in Nat /\ p = <<p[1], p[2]>>
          /\ p[2] < IdLimit /\ m[p] < IdLimit /\ KeyOf(p) \in Nat
        BY <2>2, MergeTypes
    <2>4. t[s] \div IdLimit = KeyOf(p) /\ t[s] % IdLimit = m[p]
        <3> DEFINE word == KeyOf(p)
                   id == m[p]
        <3>1. t[s] = Packed(word, id) /\ word \in Nat /\ id \in Nat /\ id < IdLimit
            BY <2>1, <2>3 DEF p
        <3> HIDE DEF word, id
        <3>2. Packed(word, id) \div IdLimit = word /\ Packed(word, id) % IdLimit = id
            BY <3>1, PackedFacts DEF TableShape
        <3>3. t[s] \div IdLimit = word /\ t[s] % IdLimit = id
            BY <3>1, <3>2
        <3> QED BY <3>3 DEF word, id
    <2>5. Key(a, b) = Key(p[1], p[2])
        BY <1>4, <2>4 DEF KeyOf
    <2>6. a = p[1] /\ b = p[2]
        BY <2>3, <2>5, KeysDiffer DEF TableShape
    <2>7. <<a, b>> = p
        BY <2>3, <2>6
    <2> QED BY <2>2, <2>4, <2>7
<1>5. ends # {}
    <2>1. \E s \in S : t[s] = Vacant
        <3> SUFFICES ASSUME \A s \in S : t[s] # Vacant PROVE FALSE
            OBVIOUS
        <3>1. Occupied(t) = S
            BY DEF Occupied
        <3>2. Cardinality(S) = NumSlots
            BY FS_Interval
        <3>3. Cardinality(Occupied(t)) <= n
            BY DEF Holds
        <3> HIDE DEF S, n
        <3> QED BY <1>3, <3>1, <3>2, <3>3
    <2>2. PICK s \in S : t[s] = Vacant
        BY <2>1
    <2>3. PICK d \in S : SlotAt(Hash(key), d) = s
        BY <1>1, EverySlot
    <2>4. d \in ends
        BY <2>2, <2>3
    <2> QED BY <2>4
<1>6. last \in ends /\ \A e \in ends : last <= e
    <2>1. ends \in SUBSET Nat
        OBVIOUS
    <2>2. \E d \in ends : \A e \in ends : d <= e
        <3> HIDE DEF ends
        <3> QED BY <1>5, <2>1, LeastElement
    <2> HIDE DEF ends
    <2> QED BY <2>2
<1> HIDE DEF last
<1>7. last \in S /\ SlotAt(Hash(key), last) \in S /\ (slotOf(last) = Vacant \/ slotOf(last) \div IdLimit = key)
    <2>1. last \in S /\ (slotOf(last) = Vacant \/ slotOf(last) \div IdLimit = key)
        BY <1>6
    <2>2. SlotAt(Hash(key), last) \in S
        BY <1>1, <2>1, EverySlot
    <2> QED BY <2>1, <2>2
<1>8. CASE slotOf(last) # Vacant
    BY <1>2, <1>4, <1>7, <1>8
<1>9. CASE slotOf(last) = Vacant
    <2>1. <<a, b>> \notin DOMAIN m
        <3> SUFFICES ASSUME <<a, b>> \in DOMAIN m PROVE FALSE
            OBVIOUS
        <3>1. PICK i \in 1..n : order[i] = <<a, b>>
            BY DEF IsVocabulary
        <3>2. Reaches(t, key, m[<<a, b>>])
            <4>1. Reaches(t, KeyOf(order[i]), m[order[i]])
                BY <3>1 DEF Holds
            <4>2. KeyOf(order[i]) = key
                BY <3>1 DEF KeyOf
            <4> QED BY <3>1, <4>1, <4>2
        <3> DEFINE id == m[<<a, b>>]
        <3>3. PICK d \in S : /\ t[SlotAt(Hash(key), d)] = Packed(key, id)
                             /\ \A e \in 0..(d - 1) : t[SlotAt(Hash(key), e)] # Vacant
            BY <3>2 DEF Reaches
        <3>4. id \in Nat /\ id < IdLimit
            BY MergeTypes
        <3>5. Packed(key, id) # Vacant /\ Packed(key, id) \div IdLimit = key
            BY <1>1, <3>4, PackedFacts DEF TableShape
        <3>6. d \in ends
            BY <3>3, <3>5
        <3>7. last <= d /\ last # d
            BY <1>6, <1>9, <3>3, <3>5, <3>6
        <3>8. last \in 0..(d - 1)
            <4> HIDE DEF ends
            <4> QED BY <1>7, <3>3, <3>7
        <3> QED BY <1>9, <3>3, <3>8
    <2> QED BY <1>2, <1>9, <2>1
<1> QED BY <1>8, <1>9

(* PairRankTable: if the build does not give up, the grid and the flat table answer for
   every pair of ids with the merge it has or with none, for any vocabulary, any order
   in which the hash map gave its merges and any hash. *)
THEOREM TableAnswersMerges ==
    ASSUME TableShape, NumSlots \in Nat \ {0}, NEW m, NEW order, NEW len, IsVocabulary(m, order),
           Build(m, order, len) # Refused, NEW a \in 0..(IdLimit - 1), NEW b \in 0..(IdLimit - 1)
    PROVE  RankOf(m, Build(m, order, len), a, b) = IF <<a, b>> \in DOMAIN m THEN m[<<a, b>>] ELSE NoMerge
<1>1. Fits(m, len) /\ Holds(Build(m, order, len), m, order, Len(order))
    BY BuildHolds
<1>2. a \in Nat /\ b \in Nat /\ b < IdLimit
    BY DEF TableShape
<1>3. Probe(Build(m, order, len), Key(a, b)) = IF <<a, b>> \in DOMAIN m THEN m[<<a, b>>] ELSE NoMerge
    <2> DEFINE t == Build(m, order, len)
    <2>1. Fits(m, len) /\ Holds(t, m, order, Len(order))
        BY <1>1
    <2> HIDE DEF t
    <2>2. Probe(t, Key(a, b)) = IF <<a, b>> \in DOMAIN m THEN m[<<a, b>>] ELSE NoMerge
        BY <1>2, <2>1, ProbeFinds
    <2> QED BY <2>2 DEF t
<1> QED BY <1>3 DEF RankOf

(* An input whose pairs are looked up in such a table. *)
FromTable(i) ==
    \E m, order, len :
        /\ IsVocabulary(m, order) /\ Build(m, order, len) # Refused
        /\ \A p \in DOMAIN m : m[p] # NoMerge
        /\ DOMAIN i.merges = DOMAIN m /\ \A p \in DOMAIN m : i.merges[p] = [token |-> m[p], rank |-> m[p]]
        /\ \A a, b \in Ids :
              LET id == RankOf(m, Build(m, order, len), a, b)
              IN  /\ i.lookup[<<a, b>>].rank = id
                  /\ id # NoMerge => i.lookup[<<a, b>>] = [token |-> id, rank |-> id]

(* The merge loops that look their pairs up in a PairRankTable, whatever its slots and
   its hash, encode by byte pairs. *)
THEOREM TableLoopsEncodeByPairs ==
    ASSUME TableShape, NumSlots \in Nat \ {0}, NoMerge = NoRank, Ids \subseteq 0..(IdLimit - 1),
           \A i \in Inputs : FromTable(i)
    PROVE  Spec => ImplementsLowestFirst
<1>1. ASSUME NEW i \in Inputs PROVE Answered(i)
    <2>1. PICK m, order, len :
              /\ IsVocabulary(m, order) /\ Build(m, order, len) # Refused
              /\ \A p \in DOMAIN m : m[p] # NoMerge
              /\ DOMAIN i.merges = DOMAIN m /\ \A p \in DOMAIN m : i.merges[p] = [token |-> m[p], rank |-> m[p]]
              /\ \A a, b \in Ids :
                    LET id == RankOf(m, Build(m, order, len), a, b)
                    IN  /\ i.lookup[<<a, b>>].rank = id
                        /\ id # NoMerge => i.lookup[<<a, b>>] = [token |-> id, rank |-> id]
        BY DEF FromTable
    <2>2. ASSUME NEW a \in Ids, NEW b \in Ids
          PROVE  IF <<a, b>> \in DOMAIN i.merges
                 THEN i.lookup[<<a, b>>] = i.merges[<<a, b>>] /\ i.lookup[<<a, b>>].rank # NoRank
                 ELSE i.lookup[<<a, b>>].rank = NoRank
        <3> DEFINE id == RankOf(m, Build(m, order, len), a, b)
        <3>1. id = IF <<a, b>> \in DOMAIN m THEN m[<<a, b>>] ELSE NoMerge
            <4>1. a \in 0..(IdLimit - 1) /\ b \in 0..(IdLimit - 1)
                OBVIOUS
            <4> QED BY <2>1, <4>1, TableAnswersMerges
        <3>2. i.lookup[<<a, b>>].rank = id /\ (id # NoMerge => i.lookup[<<a, b>>] = [token |-> id, rank |-> id])
            BY <2>1
        <3> HIDE DEF id
        <3>3. CASE <<a, b>> \in DOMAIN m
            BY <2>1, <3>1, <3>2, <3>3
        <3>4. CASE <<a, b>> \notin DOMAIN m
            BY <2>1, <3>1, <3>2, <3>4
        <3> QED BY <3>3, <3>4
    <2> QED BY <2>2 DEF Answered
<1>2. TablesAnswer
    BY <1>1 DEF TablesAnswer
<1> QED BY <1>2, LoopsEncodeByPairs
=============================================================================
