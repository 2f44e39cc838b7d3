--------------------------- MODULE BpeTrainProofs ---------------------------
(* Theorems about BpeTrain, for every corpus, every vocabulary size, every order of
   ties and every order in which the words of a merge are updated: the corrected counts
   are the counts of the corpus, the index misses no word, and training by corrections
   implements NaiveBpe.  First what the operators of BpeWords compute, then what the
   changes recorded for one word add up to, then the invariant. *)
EXTENDS BpeTrain, TLAPS, NaturalsInduction, WellFoundedInduction, SequenceTheorems,
        FiniteSetTheorems

(* A nonempty set of numbers has a least one. *)
LEMMA LeastElement ==
    ASSUME NEW S \in SUBSET Nat, S # {}
    PROVE  \E n \in S : \A m \in S : n <= m
<1>1. IsWellFoundedOn(OpToRel(<, Nat), Nat)
    BY NatLessThanWellFounded
<1>2. PICK n \in S : \A m \in S : ~ (<<m, n>> \in OpToRel(<, Nat))
    BY <1>1, WFMin
<1>3. \A m \in S : ~ (m < n)
    BY <1>2 DEF OpToRel
<1> QED BY <1>3

(* A value for each of 0..n, each made of the one before it, exists. *)
IsSteps(f, n, V, z, T) ==
    f \in [0..n -> V] /\ f[0] = z /\ \A k \in 1..n : f[k] = T[<<k, f[k - 1]>>]

LEMMA Recursion ==
    ASSUME NEW n \in Nat, NEW V, NEW z \in V, NEW T \in [(1..n) \X V -> V]
    PROVE  \E f : IsSteps(f, n, V, z, T)
<1> DEFINE Good(f, m) == f \in [0..m -> V] /\ f[0] = z /\ \A k \in 1..m : f[k] = T[<<k, f[k - 1]>>]
           bad == {m \in Nat : m <= n /\ ~ \E f : Good(f, m)}
<1>1. bad = {}
    <2> SUFFICES ASSUME bad # {} PROVE FALSE
        OBVIOUS
    <2>1. PICK m \in bad : \A l \in bad : m <= l
        BY LeastElement
    <2>2. m \in Nat /\ m <= n /\ ~ \E f : Good(f, m)
        OBVIOUS
    <2>3. CASE m = 0
        <3>1. Good([k \in 0..m |-> z], m)
            BY <2>3
        <3> HIDE DEF Good
        <3> QED BY <2>2, <3>1
    <2>4. CASE m # 0
        <3>1. m - 1 \in Nat /\ m - 1 <= n /\ m - 1 < m
            BY <2>2, <2>4
        <3>2. m - 1 \notin bad
            <4> HIDE DEF bad
            <4> QED BY <2>1, <2>2, <3>1
        <3>3. \E f : Good(f, m - 1)
            <4> HIDE DEF Good
            <4> QED BY <3>1, <3>2
        <3>4. PICK f : Good(f, m - 1)
            BY <3>3
        <3> DEFINE last == T[<<m, f[m - 1]>>]
                   g == [k \in 0..m |-> IF k = m THEN last ELSE f[k]]
        <3>5. f[m - 1] \in V /\ m \in 1..n /\ last \in V
            BY <2>2, <2>4, <3>1, <3>4
        <3> HIDE DEF last
        <3>6. g \in [0..m -> V] /\ g[0] = z
            BY <2>2, <2>4, <3>4, <3>5
        <3>7. ASSUME NEW k \in 1..m PROVE g[k] = T[<<k, g[k - 1]>>]
            <4>1. g[k - 1] = f[k - 1]
                BY <2>2
            <4>2. CASE k = m
                <5>1. g[k] = last
                    BY <4>2
                <5> HIDE DEF g
                <5> QED BY <4>1, <4>2, <5>1 DEF last
            <4>3. CASE k # m
                <5>1. k \in 1..(m - 1) /\ g[k] = f[k]
                    BY <2>2, <4>3
                <5> HIDE DEF g
                <5> QED BY <3>4, <4>1, <5>1
            <4> QED BY <4>2, <4>3
        <3>8. Good(g, m)
            BY <3>6, <3>7
        <3> HIDE DEF Good
        <3> QED BY <2>2, <3>8
    <2> QED BY <2>3, <2>4
<1>2. n \notin bad
    BY <1>1
<1>3. \E f : Good(f, n)
    <2> HIDE DEF Good
    <2> QED BY <1>2
<1> QED BY <1>3 DEF IsSteps

-----------------------------------------------------------------------------
(* MergedAt. *)

IsHit(h, w, pair) ==
    h = [k \in 0..Len(w) |-> k \in 1..(Len(w) - 1) /\ PairAt(w, k) = pair /\ ~h[k - 1]]

LEMMA HitExists ==
    ASSUME NEW S, NEW w \in Seq(S), NEW pair
    PROVE  \E h \in [0..Len(w) -> BOOLEAN] : IsHit(h, w, pair)
<1> DEFINE n == Len(w)
           T == [kv \in (1..n) \X BOOLEAN |-> kv[1] \in 1..(n - 1) /\ PairAt(w, kv[1]) = pair /\ ~kv[2]]
<1>1. n \in Nat
    OBVIOUS
<1>2. T \in [(1..n) \X BOOLEAN -> BOOLEAN]
    OBVIOUS
<1>3. PICK f : IsSteps(f, n, BOOLEAN, FALSE, T)
    <2> HIDE DEF T, n
    <2> QED BY <1>1, <1>2, Recursion
<1>0. f \in [0..n -> BOOLEAN] /\ f[0] = FALSE /\ \A k \in 1..n : f[k] = T[<<k, f[k - 1]>>]
    BY <1>3 DEF IsSteps
<1> DEFINE e(k) == k \in 1..(n - 1) /\ PairAt(w, k) = pair /\ ~f[k - 1]
<1>4. ASSUME NEW k \in 0..n PROVE f[k] = e(k)
    <2>1. CASE k = 0
        BY <1>0, <2>1
    <2>2. CASE k # 0
        <3>1. k \in 1..n /\ k - 1 \in 0..n
            BY <1>1, <2>2
        <3>2. f[k - 1] \in BOOLEAN
            BY <1>0, <3>1
        <3>3. T[<<k, f[k - 1]>>] = (k \in 1..(n - 1) /\ PairAt(w, k) = pair /\ ~f[k - 1])
            BY <3>1, <3>2
        <3> HIDE DEF T, n
        <3> QED BY <1>0, <3>1, <3>3
    <2> QED BY <2>1, <2>2
<1>5. f = [k \in 0..n |-> e(k)]
    <2> HIDE DEF e, n, T
    <2> QED BY <1>0, <1>4
<1> QED BY <1>0, <1>5 DEF IsHit

(* The merge takes the pairs from the left and overlaps none. *)
LEMMA MergedAtFacts ==
    ASSUME NEW S, NEW w \in Seq(S), NEW pair
    PROVE  /\ MergedAt(w, pair) \subseteq 1..(Len(w) - 1)
           /\ \A k \in 1..(Len(w) - 1) :
                 k \in MergedAt(w, pair) <=> PairAt(w, k) = pair /\ k - 1 \notin MergedAt(w, pair)
<1> DEFINE h == CHOOSE h : IsHit(h, w, pair)
           n == Len(w)
<1>1. IsHit(h, w, pair)
    BY HitExists
<1>2. MergedAt(w, pair) = {k \in DOMAIN w : h[k]}
    BY DEF MergedAt, IsHit
<1>3. DOMAIN w = 1..n /\ n \in Nat
    OBVIOUS
<1> HIDE DEF h
<1>4. \A k \in 0..n : h[k] = (k \in 1..(n - 1) /\ PairAt(w, k) = pair /\ ~h[k - 1])
    BY <1>1 DEF IsHit
<1> HIDE DEF n
<1> DEFINE at == MergedAt(w, pair)
<1>5. at = {k \in 1..n : h[k]}
    BY <1>2, <1>3
<1> HIDE DEF at
<1>6. at \subseteq 1..(n - 1)
    <2> SUFFICES ASSUME NEW k \in at PROVE k \in 1..(n - 1)
        OBVIOUS
    <2>1. k \in 0..n /\ h[k]
        BY <1>3, <1>5
    <2>2. h[k] = (k \in 1..(n - 1) /\ PairAt(w, k) = pair /\ ~h[k - 1])
        BY <1>4, <2>1
    <2> QED BY <2>1, <2>2
<1>7. ASSUME NEW k \in 1..(n - 1) PROVE k \in at <=> PairAt(w, k) = pair /\ k - 1 \notin at
    <2>1. k \in 1..n /\ k \in 0..n /\ k - 1 \in 0..n
        BY <1>3
    <2>2. k \in at <=> PairAt(w, k) = pair /\ ~h[k - 1]
        BY <1>4, <1>5, <2>1
    <2>3. k - 1 \in at <=> k - 1 \in 1..n /\ h[k - 1]
        BY <1>5
    <2>4. ~h[0]
        <3>1. 0 \in 0..n /\ 0 \notin 1..(n - 1)
            BY <1>3
        <3>2. h[0] = (0 \in 1..(n - 1) /\ PairAt(w, 0) = pair /\ ~h[0 - 1])
            BY <1>4, <3>1
        <3> QED BY <3>1, <3>2
    <2>5. k - 1 # 0 => k - 1 \in 1..n
        BY <1>3, <2>1
    <2> QED BY <2>2, <2>3, <2>4, <2>5
<1> QED BY <1>6, <1>7 DEF at, n

-----------------------------------------------------------------------------
(* MergeWord. *)

Put(w, at, new, k) == IF k \in at THEN new ELSE w[k]
IsKept(f, w, at, new) ==
    f = [k \in 0..Len(w) |-> IF k = 0 THEN <<>>
                             ELSE IF k - 1 \in at THEN f[k - 1]
                             ELSE Append(f[k - 1], IF k \in at THEN new ELSE w[k])]

LEMMA KeptExists ==
    ASSUME NEW S, NEW w \in Seq(S), NEW at, NEW new \in S
    PROVE  \E f : f \in [0..Len(w) -> Seq(S)] /\ IsKept(f, w, at, new)
<1> DEFINE n == Len(w)
           V == Seq(S)
           T == [kv \in (1..n) \X V |->
                    IF kv[1] - 1 \in at THEN kv[2] ELSE Append(kv[2], Put(w, at, new, kv[1]))]
<1>1. n \in Nat /\ <<>> \in V
    OBVIOUS
<1>2. T \in [(1..n) \X V -> V]
    <2>1. ASSUME NEW kv \in (1..n) \X V
          PROVE  (IF kv[1] - 1 \in at THEN kv[2] ELSE Append(kv[2], Put(w, at, new, kv[1]))) \in V
        <3>1. kv[1] \in 1..n /\ kv[2] \in Seq(S)
            OBVIOUS
        <3>2. Put(w, at, new, kv[1]) \in S
            BY <3>1 DEF Put
        <3> QED BY <3>1, <3>2, AppendProperties
    <2> HIDE DEF V
    <2> QED BY <2>1
<1>3. PICK f : IsSteps(f, n, V, <<>>, T)
    <2> DEFINE z == <<>>
    <2>1. z \in V
        BY <1>1
    <2> HIDE DEF T, n, V, z
    <2>2. \E f : IsSteps(f, n, V, z, T)
        BY <1>1, <1>2, <2>1, Recursion
    <2> QED BY <2>2 DEF z
<1>4. f \in [0..n -> V] /\ f[0] = <<>> /\ \A k \in 1..n : f[k] = T[<<k, f[k - 1]>>]
    BY <1>3 DEF IsSteps
<1> DEFINE e(k) == IF k = 0 THEN <<>> ELSE IF k - 1 \in at THEN f[k - 1]
                   ELSE Append(f[k - 1], IF k \in at THEN new ELSE w[k])
<1>5. ASSUME NEW k \in 0..n PROVE f[k] = e(k)
    <2>1. CASE k = 0
        BY <1>4, <2>1
    <2>2. CASE k # 0
        <3>1. k \in 1..n /\ k - 1 \in 0..n
            BY <1>1, <2>2
        <3>2. f[k - 1] \in V
            BY <1>4, <3>1
        <3>3. <<k, f[k - 1]>> \in (1..n) \X V
            BY <3>1, <3>2
        <3>4. T[<<k, f[k - 1]>>] = IF k - 1 \in at THEN f[k - 1] ELSE Append(f[k - 1], Put(w, at, new, k))
            <4> HIDE DEF V, n
            <4> QED BY <3>3
        <3>5. f[k] = T[<<k, f[k - 1]>>]
            BY <1>4, <3>1
        <3> HIDE DEF T, n, V
        <3> QED BY <2>2, <3>4, <3>5 DEF Put
    <2> QED BY <2>1, <2>2
<1>6. f = [k \in 0..n |-> e(k)]
    <2> HIDE DEF e, n, T, V
    <2> QED BY <1>4, <1>5
<1> HIDE DEF T
<1> QED BY <1>4, <1>6 DEF IsKept

(* The word grows by the symbols that are not merged away, one after another. *)
IsMerging(f, S, w, pair, new) ==
    /\ f \in [0..Len(w) -> Seq(S)] /\ f[0] = <<>> /\ f[Len(w)] = MergeWord(w, pair, new)
    /\ \A k \in 1..Len(w) :
          f[k] = IF k - 1 \in MergedAt(w, pair) THEN f[k - 1]
                 ELSE Append(f[k - 1], Put(w, MergedAt(w, pair), new, k))

LEMMA MergeWordSteps ==
    ASSUME NEW S, NEW w \in Seq(S), NEW pair, NEW new \in S
    PROVE  \E f : IsMerging(f, S, w, pair, new)
<1> DEFINE at == MergedAt(w, pair)
           n == Len(w)
           f == CHOOSE f : IsKept(f, w, at, new)
<1>1. MergeWord(w, pair, new) = f[n]
    BY DEF MergeWord, IsKept
<1> HIDE DEF at
<1>2. IsKept(f, w, at, new)
    BY KeptExists
<1>3. n \in Nat
    OBVIOUS
<1> HIDE DEF f
<1>5. \A k \in 0..n : f[k] = IF k = 0 THEN <<>> ELSE IF k - 1 \in at THEN f[k - 1]
                             ELSE Append(f[k - 1], IF k \in at THEN new ELSE w[k])
    BY <1>2 DEF IsKept
<1>6. f[0] = <<>>
    BY <1>3, <1>5
<1>7. ASSUME NEW k \in 1..n
      PROVE  f[k] = IF k - 1 \in at THEN f[k - 1] ELSE Append(f[k - 1], Put(w, at, new, k))
    <2>1. k \in 0..n /\ k # 0
        BY <1>3
    <2> QED BY <1>5, <2>1 DEF Put
<1>8. \A k \in 0..n : f[k] \in Seq(S)
    <2> DEFINE bad == {k \in Nat : k <= n /\ f[k] \notin Seq(S)}
    <2>1. bad = {}
        <3> SUFFICES ASSUME bad # {} PROVE FALSE
            OBVIOUS
        <3>1. PICK k \in bad : \A l \in bad : k <= l
            BY LeastElement
        <3>0. k \in Nat /\ k <= n /\ f[k] \notin Seq(S)
            OBVIOUS
        <3>a. f[0] \in Seq(S)
            BY <1>6
        <3>2. k \in Nat /\ k <= n /\ f[k] \notin Seq(S) /\ k # 0
            BY <3>0, <3>a
        <3>3. k - 1 \in Nat /\ k - 1 < k /\ k - 1 <= n /\ k \in 1..n
            BY <1>3, <3>2
        <3>4. k - 1 \notin bad
            <4> HIDE DEF bad
            <4> QED BY <3>1, <3>2, <3>3
        <3>5. f[k - 1] \in Seq(S)
            BY <3>3, <3>4
        <3>6. Put(w, at, new, k) \in S
            BY <3>3 DEF Put
        <3>7. f[k] = IF k - 1 \in at THEN f[k - 1] ELSE Append(f[k - 1], Put(w, at, new, k))
            BY <1>7, <3>3
        <3>8. Append(f[k - 1], Put(w, at, new, k)) \in Seq(S)
            BY <3>5, <3>6, AppendProperties
        <3> HIDE DEF bad
        <3> QED BY <3>2, <3>5, <3>7, <3>8
    <2> TAKE k \in 0..n
    <2>2. k \in Nat /\ k <= n
        BY <1>3
    <2>3. k \notin bad
        BY <2>1
    <2> QED BY <2>2, <2>3
<1>9. f = [k \in 0..n |-> f[k]]
    BY <1>2 DEF IsKept
<1>10. f \in [0..n -> Seq(S)]
    BY <1>8, <1>9
<1> QED BY <1>1, <1>6, <1>7, <1>10 DEF at, IsMerging

(* The pair at k, with either side replaced by a merge beside it; and where such pairs
   are p, within the first n symbols. *)
NewPair(w, at, new, k) == <<IF k - 1 \in at THEN new ELSE w[k], IF k + 1 \in at THEN new ELSE w[k + 1]>>
Survive(w, at, new, p, n) == {k \in 1..(n - 1) : k \notin at /\ NewPair(w, at, new, k) = p}

LEMMA PartOfInterval ==
    ASSUME NEW n \in Int, NEW A \in SUBSET (1..n)
    PROVE  IsFiniteSet(A) /\ Cardinality(A) \in Nat
<1>1. IsFiniteSet(1..n)
    BY FS_Interval
<1> QED BY <1>1, FS_Subset, FS_CardinalityType

LEMMA PositionsFinite ==
    ASSUME NEW S, NEW w \in Seq(S), NEW p
    PROVE  IsFiniteSet(Positions(w, p)) /\ Cardinality(Positions(w, p)) \in Nat
<1>1. Len(w) - 1 \in Int /\ Positions(w, p) \in SUBSET (1..(Len(w) - 1))
    BY DEF Positions
<1> QED BY <1>1, PartOfInterval

(* One symbol more makes one pair more. *)
LEMMA AppendPositions ==
    ASSUME NEW S, NEW q \in Seq(S), Len(q) > 0, NEW x \in S, NEW p
    PROVE  /\ Positions(Append(q, x), p) = Positions(q, p) \cup (IF <<q[Len(q)], x>> = p THEN {Len(q)} ELSE {})
           /\ Len(q) \notin Positions(q, p)
<1> DEFINE n == Len(q)
           r == Append(q, x)
<1>1. n \in Nat /\ n > 0 /\ r \in Seq(S) /\ Len(r) = n + 1 /\ r[n + 1] = x /\ \A i \in 1..n : r[i] = q[i]
    BY AppendProperties
<1> HIDE DEF r, n
<1>2. \A k \in 1..(n - 1) : k \in 1..n /\ k + 1 \in 1..n
    BY <1>1
<1>3. \A k \in 1..(n - 1) : PairAt(r, k) = PairAt(q, k)
    BY <1>1, <1>2 DEF PairAt
<1>4. PairAt(r, n) = <<q[n], x>>
    BY <1>1 DEF PairAt
<1>5. Positions(q, p) = {k \in 1..(n - 1) : PairAt(q, k) = p}
    BY DEF Positions, n
<1>6. Positions(r, p) = {k \in 1..n : PairAt(r, k) = p}
    BY <1>1 DEF Positions
<1>7. 1..n = (1..(n - 1)) \cup {n} /\ n \notin 1..(n - 1)
    BY <1>1
<1>8. Positions(r, p) = Positions(q, p) \cup (IF <<q[n], x>> = p THEN {n} ELSE {})
    BY <1>3, <1>4, <1>5, <1>6, <1>7
<1> QED BY <1>5, <1>7, <1>8 DEF n, r

(* What a merged word spells: the pairs beside merges are replaced, and the merged
   ones are gone. *)
LEMMA MergeCounts ==
    ASSUME NEW S, NEW w \in Seq(S), NEW pair, NEW new \in S, NEW p
    PROVE  /\ MergeWord(w, pair, new) \in Seq(S)
           /\ Cardinality(Positions(MergeWord(w, pair, new), p))
                = Cardinality(Survive(w, MergedAt(w, pair), new, p, Len(w)))
<1> DEFINE at == MergedAt(w, pair)
           n == Len(w)
<1>a. PICK f : IsMerging(f, S, w, pair, new)
    BY MergeWordSteps
<1>1. /\ f \in [0..n -> Seq(S)] /\ f[0] = <<>> /\ f[n] = MergeWord(w, pair, new)
      /\ \A k \in 1..n : f[k] = IF k - 1 \in at THEN f[k - 1] ELSE Append(f[k - 1], Put(w, at, new, k))
    BY <1>a DEF IsMerging
<1>2. n \in Nat /\ (\A k \in 1..n : w[k] \in S) /\ at \subseteq 1..(n - 1)
    BY MergedAtFacts
<1> HIDE DEF at, n
<1> DEFINE Tip(k) == IF k \in at \/ k - 1 \in at THEN new ELSE w[k]
           Sur(k) == Survive(w, at, new, p, k)
           Good(k) == /\ Len(f[k]) > 0 /\ f[k][Len(f[k])] = Tip(k)
                      /\ Cardinality(Positions(f[k], p)) = Cardinality(Sur(k))
           bad == {k \in Nat : 1 <= k /\ k <= n /\ ~Good(k)}
<1>3. \A k \in Nat : IsFiniteSet(Sur(k)) /\ Cardinality(Sur(k)) \in Nat
    <2> TAKE k \in Nat
    <2>1. k - 1 \in Int /\ Sur(k) \in SUBSET (1..(k - 1))
        BY DEF Survive
    <2> HIDE DEF Sur
    <2> QED BY <2>1, PartOfInterval
<1>4. ASSUME 1 <= n PROVE Good(1)
    <2>1. 0 \notin at /\ 1 \in 1..n /\ 0 \in 0..n
        BY <1>2, <1>4
    <2>2. f[1] = Append(f[1 - 1], Put(w, at, new, 1)) /\ 1 - 1 = 0
        <3>1. \A k \in 1..n : k = 1 => f[k] = Append(f[k - 1], Put(w, at, new, k))
            <4> TAKE k \in 1..n
            <4> HAVE k = 1
            <4>1. k - 1 \notin at
                BY <2>1
            <4>2. f[k] = IF k - 1 \in at THEN f[k - 1] ELSE Append(f[k - 1], Put(w, at, new, k))
                BY <1>1
            <4> QED BY <4>1, <4>2
        <3> QED BY <2>1, <3>1
    <2>3. f[1] = <<Put(w, at, new, 1)>>
        <3> DEFINE x == Put(w, at, new, 1)
        <3>1. f[1] = Append(<<>>, x)
            BY <1>1, <2>2
        <3> HIDE DEF x
        <3>2. Append(<<>>, x) = <<x>>
            OBVIOUS
        <3> QED BY <3>1, <3>2 DEF x
    <2>4. Len(f[1]) = 1 /\ f[1][1] = Tip(1)
        BY <2>1, <2>3 DEF Put
    <2>5. Positions(f[1], p) = {}
        BY <2>4 DEF Positions
    <2>6. Sur(1) = {}
        BY DEF Survive
    <2>7. Cardinality(Positions(f[1], p)) = Cardinality(Sur(1))
        BY <2>5, <2>6
    <2>8. Len(f[1]) > 0 /\ f[1][Len(f[1])] = Tip(1)
        <3> HIDE DEF Tip
        <3> QED BY <2>4
    <2> QED BY <2>7, <2>8
<1>5. ASSUME NEW k \in Nat, 1 < k, k <= n, Good(k - 1) PROVE Good(k)
    <2>1. k \in 1..n /\ k - 1 \in 1..n /\ k - 1 \in Nat /\ k - 1 \in 0..n
        BY <1>2, <1>5
    <2> DEFINE q == f[k - 1]
               x == Put(w, at, new, k)
               j == k - 1
    <2>2. q \in Seq(S) /\ Len(q) > 0 /\ q[Len(q)] = Tip(j) /\ Cardinality(Positions(q, p)) = Cardinality(Sur(j))
        BY <1>1, <1>5, <2>1
    <2>3. x \in S
        BY <1>2, <2>1 DEF Put
    <2>4. 1..(k - 1) = (1..(j - 1)) \cup {j} /\ j \notin 1..(j - 1)
        BY <2>1
    <2>5. CASE j \in at
        <3>1. f[k] = q
            BY <1>1, <2>1, <2>5
        <3>2. Tip(k) = Tip(j)
            BY <2>5
        <3>3. Sur(k) = Sur(j)
            BY <2>4, <2>5 DEF Survive
        <3> HIDE DEF Tip, Sur
        <3> QED BY <2>2, <3>1, <3>2, <3>3
    <2>6. CASE j \notin at
        <3>1. f[k] = Append(q, x)
            BY <1>1, <2>1, <2>6
        <3>2. Tip(k) = x
            BY <2>6 DEF Put
        <3>3. <<Tip(j), x>> = NewPair(w, at, new, j)
            <4>1. j + 1 = k /\ j - 1 = k - 2
                BY <2>1
            <4> QED BY <2>6, <4>1 DEF NewPair, Put
        <3>4. Sur(k) = Sur(j) \cup (IF <<Tip(j), x>> = p THEN {j} ELSE {}) /\ j \notin Sur(j)
            <4> HIDE DEF Tip, x
            <4> QED BY <2>4, <2>6, <3>3 DEF Survive
        <3> HIDE DEF Tip, Sur, x
        <3>5. Len(f[k]) > 0 /\ f[k][Len(f[k])] = Tip(k)
            BY <2>2, <2>3, <3>1, <3>2, AppendProperties
        <3>6. /\ Positions(f[k], p) = Positions(q, p) \cup (IF <<Tip(j), x>> = p THEN {Len(q)} ELSE {})
              /\ Len(q) \notin Positions(q, p)
            BY <2>2, <2>3, <3>1, AppendPositions
        <3>7. IsFiniteSet(Positions(q, p)) /\ IsFiniteSet(Sur(j))
            BY <1>3, <2>1, <2>2, PositionsFinite
        <3>8. Cardinality(Positions(f[k], p)) = Cardinality(Sur(k))
            <4>1. CASE <<Tip(j), x>> = p
                <5>1. Cardinality(Positions(q, p) \cup {Len(q)}) = Cardinality(Positions(q, p)) + 1
                    BY <3>6, <3>7, FS_AddElement
                <5>2. Cardinality(Sur(j) \cup {j}) = Cardinality(Sur(j)) + 1
                    BY <3>4, <3>7, FS_AddElement
                <5> QED BY <2>2, <3>4, <3>6, <4>1, <5>1, <5>2
            <4>2. CASE <<Tip(j), x>> # p
                <5>1. Positions(f[k], p) = Positions(q, p) /\ Sur(k) = Sur(j)
                    BY <3>4, <3>6, <4>2
                <5> QED BY <2>2, <5>1
            <4> QED BY <4>1, <4>2
        <3> QED BY <3>5, <3>8
    <2> QED BY <2>5, <2>6
<1> HIDE DEF Good
<1>6. bad = {}
    <2> SUFFICES ASSUME bad # {} PROVE FALSE
        OBVIOUS
    <2>1. PICK k \in bad : \A l \in bad : k <= l
        BY LeastElement
    <2>2. k \in Nat /\ 1 <= k /\ k <= n /\ ~Good(k)
        OBVIOUS
    <2>3. k # 1
        BY <1>4, <2>2
    <2>4. k - 1 \in Nat /\ 1 <= k - 1 /\ k - 1 <= n /\ k - 1 < k /\ 1 < k
        BY <1>2, <2>2, <2>3
    <2>5. k - 1 \notin bad
        <3> HIDE DEF bad
        <3> QED BY <2>1, <2>2, <2>4
    <2>6. Good(k - 1)
        BY <2>4, <2>5
    <2> HIDE DEF bad
    <2> QED BY <1>5, <2>2, <2>4, <2>6
<1>7. f[n] \in Seq(S)
    BY <1>1, <1>2
<1>8. Cardinality(Positions(f[n], p)) = Cardinality(Sur(n))
    <2>1. CASE n = 0
        <3>1. Positions(f[n], p) = {} /\ Sur(n) = {}
            BY <1>1, <2>1 DEF Positions, Survive
        <3> QED BY <3>1
    <2>2. CASE n # 0
        <3>1. n \notin bad
            BY <1>6
        <3>2. Good(n)
            BY <1>2, <2>2, <3>1
        <3> QED BY <3>2 DEF Good
    <2> QED BY <2>1, <2>2
<1> QED BY <1>1, <1>7, <1>8 DEF n, at

(* A word without the pair stays as it is. *)
LEMMA MergeNothing ==
    ASSUME NEW S, NEW w \in Seq(S), NEW pair, NEW new \in S, Positions(w, pair) = {}
    PROVE  MergeWord(w, pair, new) = w
<1> DEFINE at == MergedAt(w, pair)
           n == Len(w)
<1>0. PICK f : IsMerging(f, S, w, pair, new)
    BY MergeWordSteps
<1>1. /\ f \in [0..n -> Seq(S)] /\ f[0] = <<>> /\ f[n] = MergeWord(w, pair, new)
      /\ \A k \in 1..n : f[k] = IF k - 1 \in at THEN f[k - 1] ELSE Append(f[k - 1], Put(w, at, new, k))
    BY <1>0 DEF IsMerging
<1>2. at = {}
    <2>1. at \subseteq 1..(n - 1) /\ \A k \in 1..(n - 1) : k \in at => PairAt(w, k) = pair
        BY MergedAtFacts
    <2> HIDE DEF at
    <2> QED BY <2>1 DEF Positions, n
<1> HIDE DEF at
<1>3. n \in Nat /\ w \in [1..n -> S] /\ \A k \in 1..n : Put(w, at, new, k) = w[k] /\ w[k] \in S
    BY <1>2 DEF Put
<1> HIDE DEF n
<1> DEFINE bad == {k \in Nat : k <= n /\ f[k] # [i \in 1..k |-> w[i]]}
<1>4. bad = {}
    <2> SUFFICES ASSUME bad # {} PROVE FALSE
        OBVIOUS
    <2>1. PICK k \in bad : \A l \in bad : k <= l
        BY LeastElement
    <2>2. k \in Nat /\ k <= n /\ f[k] # [i \in 1..k |-> w[i]]
        OBVIOUS
    <2>3. k # 0
        BY <1>1, <2>2
    <2>4. k - 1 \in Nat /\ k - 1 <= n /\ k - 1 < k /\ k \in 1..n /\ k - 1 \in 0..n
        BY <1>3, <2>2, <2>3
    <2>5. k - 1 \notin bad
        <3> HIDE DEF bad
        <3> QED BY <2>1, <2>2, <2>4
    <2> DEFINE q == f[k - 1]
    <2>6. q = [i \in 1..(k - 1) |-> w[i]]
        BY <2>4, <2>5
    <2>7. f[k] = Append(q, w[k])
        BY <1>1, <1>2, <1>3, <2>4
    <2>8. q \in Seq(S)
        BY <1>1, <2>4
    <2> HIDE DEF q, bad
    <2>9. Len(q) = k - 1 /\ \A i \in 1..(k - 1) : q[i] = w[i]
        BY <2>4, <2>6, <2>8
    <2>10. w[k] \in S
        BY <1>3, <2>4
    <2>11. Append(q, w[k]) = [i \in 1..k |-> w[i]]
        <3> DEFINE r == Append(q, w[k])
        <3>1. r \in Seq(S) /\ Len(r) = (k - 1) + 1 /\ (\A i \in 1..(k - 1) : r[i] = q[i]) /\ r[(k - 1) + 1] = w[k]
            BY <2>8, <2>9, <2>10, AppendProperties
        <3> HIDE DEF r
        <3>2. (k - 1) + 1 = k
            BY <2>4
        <3>3. \A i \in 1..k : r[i] = w[i]
            <4> TAKE i \in 1..k
            <4>1. i = k \/ i \in 1..(k - 1)
                BY <2>4
            <4> QED BY <2>9, <3>1, <3>2, <4>1
        <3>4. r = [i \in 1..k |-> r[i]]
            BY <3>1, <3>2
        <3> QED BY <3>3, <3>4 DEF r
    <2> QED BY <2>2, <2>7, <2>11
<1>5. f[n] = [i \in 1..n |-> w[i]]
    <2>1. n \notin bad
        BY <1>4
    <2> QED BY <1>3, <2>1
<1> QED BY <1>1, <1>3, <1>5

(* In how many of the places O the assignment f has p. *)
CountOn(O, f, p) == Cardinality({k \in O : f[k] = p})

(* Where two assignments of pairs to places differ in D only, so do their counts. *)
Agree(f, g, X) == \A k \in X : f[k] = g[k]

LEMMA CountIsNat ==
    ASSUME NEW O, IsFiniteSet(O), NEW f, NEW p
    PROVE  CountOn(O, f, p) \in Nat
<1> DEFINE X == {k \in O : f[k] = p}
<1>1. X \in SUBSET O
    OBVIOUS
<1> HIDE DEF X
<1>2. Cardinality(X) \in Nat
    BY <1>1, FS_Subset, FS_CardinalityType
<1> QED BY <1>2 DEF CountOn, X

LEMMA CountsDiffer ==
    ASSUME NEW O, IsFiniteSet(O), NEW D, D \subseteq O, NEW f, NEW g, Agree(f, g, O \ D), NEW p
    PROVE  CountOn(O, g, p) = CountOn(O, f, p) + CountOn(D, g, p) - CountOn(D, f, p)
<1> DEFINE X == {k \in O \ D : f[k] = p}
           F == {k \in D : f[k] = p}
           G == {k \in D : g[k] = p}
<1>1. X \in SUBSET O /\ F \in SUBSET O /\ G \in SUBSET O /\ X \cap F = {} /\ X \cap G = {}
    OBVIOUS
<1>2. {k \in O : f[k] = p} = X \cup F /\ {k \in O : g[k] = p} = X \cup G
    BY DEF Agree
<1> HIDE DEF X, F, G
<1>3. /\ IsFiniteSet(X) /\ IsFiniteSet(F) /\ IsFiniteSet(G)
      /\ Cardinality(X) \in Nat /\ Cardinality(F) \in Nat /\ Cardinality(G) \in Nat
    BY <1>1, FS_Subset, FS_CardinalityType
<1>4. Cardinality(X \cup F) = Cardinality(X) + Cardinality(F)
    <2>1. Cardinality(X \cup F) = Cardinality(X) + Cardinality(F) - Cardinality(X \cap F)
        BY <1>3, FS_Union
    <2>2. Cardinality(X \cap F) = 0
        BY <1>1, FS_EmptySet
    <2> QED BY <1>3, <2>1, <2>2
<1>5. Cardinality(X \cup G) = Cardinality(X) + Cardinality(G)
    <2>1. Cardinality(X \cup G) = Cardinality(X) + Cardinality(G) - Cardinality(X \cap G)
        BY <1>3, FS_Union
    <2>2. Cardinality(X \cap G) = 0
        BY <1>1, FS_EmptySet
    <2> QED BY <1>3, <2>1, <2>2
<1>6. Cardinality({k \in O : f[k] = p}) = Cardinality(X) + Cardinality(F)
    BY <1>2, <1>4
<1>7. Cardinality({k \in O : g[k] = p}) = Cardinality(X) + Cardinality(G)
    BY <1>2, <1>5
<1>8. Cardinality({k \in O : g[k] = p}) = Cardinality({k \in O : f[k] = p}) + Cardinality(G) - Cardinality(F)
    BY <1>3, <1>6, <1>7
<1> QED BY <1>8 DEF F, G, CountOn

-----------------------------------------------------------------------------
(* One word that the merge under way updates. *)

Stay(w) == {k \in 1..(Len(w) - 1) : k \notin MergedAt(w, Current)}
After(w, k) == NewPair(w, MergedAt(w, Current), NewId - 1, k)
IsPair(p) == p = <<p[1], p[2]>>

(* The pair at k once the merge in front of it is made. *)
Halfway(w, k) == <<LeftOf(w, MergedAt(w, Current), k), w[k + 1]>>

(* What is recorded: from the pairs as they were to halfway, on the right of merges, and
   from there to the pairs as they will be, on the left. *)
LEMMA RecordedPairs ==
    ASSUME NEW S, NEW w \in Seq(S), IsPair(Current)
    PROVE  /\ ToLeft(w) \in SUBSET Stay(w) /\ ToRight(w) \in SUBSET Stay(w)
           /\ \A k \in ToLeft(w) : LeftLost(w)[k] = Halfway(w, k) /\ LeftGained(w)[k] = After(w, k)
           /\ \A k \in ToRight(w) : RightLost(w)[k] = PairAt(w, k) /\ RightGained(w)[k] = Halfway(w, k)
           /\ \A k \in Stay(w) \ ToRight(w) : Halfway(w, k) = PairAt(w, k)
           /\ \A k \in Stay(w) \ ToLeft(w) : After(w, k) = Halfway(w, k)
<1> DEFINE at == MergedAt(w, Current)
           n == Len(w)
<1>1. /\ at \subseteq 1..(n - 1)
      /\ \A k \in 1..(n - 1) : k \in at <=> PairAt(w, k) = Current /\ k - 1 \notin at
    BY MergedAtFacts
<1>2. n \in Nat
    OBVIOUS
<1> HIDE DEF at, n
<1>3. ASSUME NEW k \in ToLeft(w)
      PROVE  k \in Stay(w) /\ LeftLost(w)[k] = Halfway(w, k) /\ LeftGained(w)[k] = After(w, k)
    <2>1. k \in 1..(n - 1) /\ k + 1 \in at
        BY DEF ToLeft, at, n
    <2>2. k + 1 \in 1..(n - 1) /\ (k + 1) - 1 = k
        BY <1>1, <1>2, <2>1
    <2>3. PairAt(w, k + 1) = Current /\ k \notin at
        BY <1>1, <2>1, <2>2
    <2>4. w[k + 1] = Current[1]
        BY <2>3 DEF PairAt
    <2>5. k \in Stay(w)
        BY <2>1, <2>3 DEF Stay, at, n
    <2>6. LeftLost(w)[k] = Halfway(w, k)
        BY <2>4 DEF LeftLost, Halfway
    <2>7. LeftGained(w)[k] = After(w, k)
        BY <2>1 DEF LeftGained, After, NewPair, LeftOf, at
    <2> QED BY <2>5, <2>6, <2>7
<1>4. ASSUME NEW k \in ToRight(w)
      PROVE  k \in Stay(w) /\ RightLost(w)[k] = PairAt(w, k) /\ RightGained(w)[k] = Halfway(w, k)
    <2>1. k \in 1..(n - 1) /\ k - 1 \in at
        BY DEF ToRight, at, n
    <2>2. k - 1 \in 1..(n - 1) /\ (k - 1) + 1 = k
        BY <1>1, <1>2, <2>1
    <2>3. PairAt(w, k - 1) = Current /\ k \notin at
        BY <1>1, <2>1, <2>2
    <2>4. w[k] = Current[2]
        BY <2>2, <2>3 DEF PairAt
    <2>5. k \in Stay(w)
        BY <2>1, <2>3 DEF Stay, at, n
    <2>6. RightLost(w)[k] = PairAt(w, k)
        BY <2>4 DEF RightLost, PairAt
    <2>7. RightGained(w)[k] = Halfway(w, k)
        BY <2>1 DEF RightGained, Halfway, LeftOf, at
    <2> QED BY <2>5, <2>6, <2>7
<1>5. ASSUME NEW k \in Stay(w) \ ToRight(w) PROVE Halfway(w, k) = PairAt(w, k)
    BY DEF Stay, ToRight, Halfway, LeftOf, PairAt
<1>6. ASSUME NEW k \in Stay(w) \ ToLeft(w) PROVE After(w, k) = Halfway(w, k)
    BY DEF Stay, ToLeft, Halfway, After, NewPair, LeftOf
<1> QED BY <1>3, <1>4, <1>5, <1>6

(* The changes recorded for a word are the difference the merge makes to it, also where
   merges stand side by side or the pair overlaps itself. *)
LEMMA ChangeCounts ==
    ASSUME NEW S, NEW w \in Seq(S), NewId - 1 \in S, IsPair(Current), NEW p, p # Current
    PROVE  Cardinality(Positions(MergeWord(w, Current, NewId - 1), p))
             = Cardinality(Positions(w, p)) + Change(w, p)
<1> DEFINE n == Len(w) - 1
           O == Stay(w)
           L == ToLeft(w)
           R == ToRight(w)
           old == [k \in O |-> PairAt(w, k)]
           mid == [k \in O |-> Halfway(w, k)]
           new == [k \in O |-> After(w, k)]
<1>1. n \in Int /\ O \in SUBSET (1..n) /\ L \in SUBSET O /\ R \in SUBSET O
    BY RecordedPairs DEF Stay
<1>2. \A k \in O : old[k] = PairAt(w, k) /\ mid[k] = Halfway(w, k) /\ new[k] = After(w, k)
    OBVIOUS
<1>3. Agree(old, mid, O \ R) /\ Agree(mid, new, O \ L)
    BY RecordedPairs DEF Agree
<1>4. Cardinality(Positions(MergeWord(w, Current, NewId - 1), p)) = CountOn(O, new, p)
    <2> DEFINE A == Survive(w, MergedAt(w, Current), NewId - 1, p, Len(w))
    <2>1. A = {k \in O : new[k] = p}
        BY DEF Survive, Stay, After
    <2>2. Cardinality(Positions(MergeWord(w, Current, NewId - 1), p)) = Cardinality(A)
        BY MergeCounts
    <2> HIDE DEF O, new, A
    <2> QED BY <2>1, <2>2 DEF CountOn
<1>5. Positions(w, p) = {k \in O : old[k] = p}
    <2>1. \A k \in 1..n : k \in MergedAt(w, Current) => PairAt(w, k) = Current
        BY MergedAtFacts
    <2> QED BY <2>1 DEF Positions, Stay
<1>6. /\ Times(LeftLost(w), p) = CountOn(L, mid, p)
      /\ Times(LeftGained(w), p) = CountOn(L, new, p)
      /\ Times(RightLost(w), p) = CountOn(R, old, p)
      /\ Times(RightGained(w), p) = CountOn(R, mid, p)
    <2>1. DOMAIN LeftLost(w) = L /\ DOMAIN LeftGained(w) = L /\ DOMAIN RightLost(w) = R /\ DOMAIN RightGained(w) = R
        BY DEF LeftLost, LeftGained, RightLost, RightGained
    <2>2. /\ \A k \in L : LeftLost(w)[k] = mid[k] /\ LeftGained(w)[k] = new[k]
          /\ \A k \in R : RightLost(w)[k] = old[k] /\ RightGained(w)[k] = mid[k]
        BY <1>1, <1>2, RecordedPairs
    <2> HIDE DEF L, R, old, mid, new
    <2>3. /\ {k \in DOMAIN LeftLost(w) : LeftLost(w)[k] = p} = {k \in L : mid[k] = p}
          /\ {k \in DOMAIN LeftGained(w) : LeftGained(w)[k] = p} = {k \in L : new[k] = p}
          /\ {k \in DOMAIN RightLost(w) : RightLost(w)[k] = p} = {k \in R : old[k] = p}
          /\ {k \in DOMAIN RightGained(w) : RightGained(w)[k] = p} = {k \in R : mid[k] = p}
        BY <2>1, <2>2
    <2> QED BY <2>3 DEF Times, CountOn
<1> HIDE DEF O, L, R, old, mid, new, n
<1>a. /\ IsFiniteSet(O) /\ IsFiniteSet(L) /\ IsFiniteSet(R) /\ L \subseteq O /\ R \subseteq O
    <2>1. IsFiniteSet(O)
        BY <1>1, PartOfInterval
    <2> QED BY <1>1, <2>1, FS_Subset
<1>7. CountOn(O, mid, p) = CountOn(O, old, p) + CountOn(R, mid, p) - CountOn(R, old, p)
    BY <1>a, <1>3, CountsDiffer
<1>8. CountOn(O, new, p) = CountOn(O, mid, p) + CountOn(L, new, p) - CountOn(L, mid, p)
    BY <1>a, <1>3, CountsDiffer
<1>9. /\ CountOn(O, old, p) \in Nat /\ CountOn(R, mid, p) \in Nat /\ CountOn(R, old, p) \in Nat
      /\ CountOn(L, mid, p) \in Nat /\ CountOn(L, new, p) \in Nat
    BY <1>a, CountIsNat
<1>10. Cardinality(Positions(w, p)) = CountOn(O, old, p)
    BY <1>5 DEF CountOn
<1> QED BY <1>4, <1>10, <1>6, <1>7, <1>8, <1>9 DEF Change

(* A pair of the merged word was there before or is recorded as gained; a pair recorded
   as lost was there before or is gained, too. *)
LEMMA PairsAfter ==
    ASSUME NEW S, NEW w \in Seq(S), NewId - 1 \in S, NEW p,
           Positions(MergeWord(w, Current, NewId - 1), p) # {}
    PROVE  \E k \in Stay(w) : After(w, k) = p
<1> DEFINE v == MergeWord(w, Current, NewId - 1)
           A == Survive(w, MergedAt(w, Current), NewId - 1, p, Len(w))
<1>1. v \in Seq(S) /\ Cardinality(Positions(v, p)) = Cardinality(A)
    BY MergeCounts
<1> HIDE DEF v
<1>2. Cardinality(Positions(v, p)) # 0
    <2>1. IsFiniteSet(Positions(v, p)) /\ Positions(v, p) # {}
        BY <1>1, PositionsFinite DEF v
    <2> QED BY <2>1, FS_EmptySet
<1>3. A # {}
    <2> HIDE DEF A
    <2> QED BY <1>1, <1>2, FS_EmptySet
<1> QED BY <1>3 DEF Survive, Stay, After

LEMMA GainedOrThere ==
    ASSUME NEW S, NEW w \in Seq(S), IsPair(Current)
    PROVE  /\ \A k \in Stay(w) : Halfway(w, k) \in Gained(w) \/ Halfway(w, k) = PairAt(w, k)
           /\ \A k \in Stay(w) : After(w, k) \in Gained(w) \/ After(w, k) = PairAt(w, k)
           /\ \A p \in Lost(w) : p \in Gained(w) \/ Positions(w, p) # {}
<1>1. DOMAIN LeftLost(w) = ToLeft(w) /\ DOMAIN LeftGained(w) = ToLeft(w)
      /\ DOMAIN RightLost(w) = ToRight(w) /\ DOMAIN RightGained(w) = ToRight(w)
    BY DEF LeftLost, LeftGained, RightLost, RightGained
<1>2. ASSUME NEW k \in Stay(w) PROVE Halfway(w, k) \in Gained(w) \/ Halfway(w, k) = PairAt(w, k)
    <2>1. CASE k \in ToRight(w)
        BY <1>1, <2>1, RecordedPairs DEF Gained, Recorded
    <2>2. CASE k \notin ToRight(w)
        BY <2>2, RecordedPairs
    <2> QED BY <2>1, <2>2
<1>3. ASSUME NEW k \in Stay(w) PROVE After(w, k) \in Gained(w) \/ After(w, k) = PairAt(w, k)
    <2>1. CASE k \in ToLeft(w)
        BY <1>1, <2>1, RecordedPairs DEF Gained, Recorded
    <2>2. CASE k \notin ToLeft(w)
        BY <1>2, <2>2, RecordedPairs
    <2> QED BY <2>1, <2>2
<1>4. ASSUME NEW p \in Lost(w) PROVE p \in Gained(w) \/ Positions(w, p) # {}
    <2>1. PICK k \in Stay(w) : p = Halfway(w, k) \/ p = PairAt(w, k)
        BY <1>1, RecordedPairs DEF Lost, Recorded
    <2>2. p = PairAt(w, k) => k \in Positions(w, p)
        BY DEF Positions, Stay
    <2> QED BY <1>2, <2>1, <2>2
<1> QED BY <1>2, <1>3, <1>4

(* The merge leaves nothing of its pair, and makes no pair but with its new symbol. *)
LEMMA NothingArises ==
    ASSUME NEW S, NEW w \in Seq(S), NewId - 1 \in S, IsPair(Current),
           NEW p, p[1] # NewId - 1, p[2] # NewId - 1, p = Current \/ Positions(w, p) = {}
    PROVE  Positions(MergeWord(w, Current, NewId - 1), p) = {}
<1> SUFFICES ASSUME Positions(MergeWord(w, Current, NewId - 1), p) # {} PROVE FALSE
    OBVIOUS
<1>1. PICK k \in Stay(w) : After(w, k) = p
    BY PairsAfter
<1>2. After(w, k) = PairAt(w, k) /\ k - 1 \notin MergedAt(w, Current)
    BY <1>1 DEF After, NewPair, PairAt
<1>3. k \in 1..(Len(w) - 1) /\ k \notin MergedAt(w, Current)
    BY DEF Stay
<1>4. PairAt(w, k) # Current
    BY <1>2, <1>3, MergedAtFacts
<1>5. k \in Positions(w, p)
    BY <1>1, <1>2, <1>3 DEF Positions
<1> QED BY <1>1, <1>2, <1>4, <1>5

(* Every gained pair has the new symbol, so that no other pair is ever added to. *)
LEMMA GainedIsNew ==
    ASSUME NEW w, NEW p \in Gained(w)
    PROVE  p[1] = NewId - 1 \/ p[2] = NewId - 1
BY DEF Gained, Recorded, LeftGained, RightGained

LEMMA OnlyLost ==
    ASSUME NEW S, NEW w \in Seq(S), NEW p, p \notin Gained(w)
    PROVE  Change(w, p) \in Int /\ Change(w, p) <= 0
<1>1. Times(LeftGained(w), p) = 0 /\ Times(RightGained(w), p) = 0
    <2>1. {k \in DOMAIN LeftGained(w) : LeftGained(w)[k] = p} = {} /\ {k \in DOMAIN RightGained(w) : RightGained(w)[k] = p} = {}
        BY DEF Gained, Recorded
    <2> QED BY <2>1, FS_EmptySet DEF Times
<1>2. Times(LeftLost(w), p) \in Nat /\ Times(RightLost(w), p) \in Nat
    <2> DEFINE n == Len(w) - 1
               A == {k \in DOMAIN LeftLost(w) : LeftLost(w)[k] = p}
               B == {k \in DOMAIN RightLost(w) : RightLost(w)[k] = p}
    <2>1. n \in Int /\ A \in SUBSET (1..n) /\ B \in SUBSET (1..n)
        BY DEF LeftLost, RightLost, ToLeft, ToRight
    <2>2. Cardinality(A) \in Nat /\ Cardinality(B) \in Nat
        <3> HIDE DEF A, B, n
        <3> QED BY <2>1, PartOfInterval
    <2> QED BY <2>2 DEF Times
<1> QED BY <1>1, <1>2 DEF Change

-----------------------------------------------------------------------------
(* Frequency: the sum over the words. *)

IsWords(ws, S) == ws \in Seq([symbols: Seq(S), count: Nat \ {0}])
Term(ws, p, i) == ws[i].count * Cardinality(Positions(ws[i].symbols, p))
IsSum(f, ws, p) == f = [i \in 0..Len(ws) |-> IF i = 0 THEN 0 ELSE f[i - 1] + Term(ws, p, i)]
IsCounting(f, ws, p) ==
    /\ f \in [0..Len(ws) -> Nat] /\ f[0] = 0 /\ f[Len(ws)] = Frequency(ws, p)
    /\ \A i \in 1..Len(ws) : f[i] = f[i - 1] + Term(ws, p, i)

LEMMA WordTypes ==
    ASSUME NEW S, NEW ws, IsWords(ws, S), NEW i \in DOMAIN ws
    PROVE  /\ ws[i] = [symbols |-> ws[i].symbols, count |-> ws[i].count]
           /\ ws[i].symbols \in Seq(S) /\ ws[i].count \in Nat /\ ws[i].count > 0
<1> DEFINE R == [symbols: Seq(S), count: Nat \ {0}]
<1>1. ws[i] \in R
    <2> HIDE DEF R
    <2>1. ws \in Seq(R)
        BY DEF IsWords, R
    <2> QED BY <2>1
<1> QED BY <1>1

LEMMA TermIsNat ==
    ASSUME NEW S, NEW ws, IsWords(ws, S), NEW i \in DOMAIN ws, NEW p
    PROVE  Term(ws, p, i) \in Nat /\ (Term(ws, p, i) > 0 <=> Positions(ws[i].symbols, p) # {})
<1> DEFINE c == ws[i].count
           X == Positions(ws[i].symbols, p)
           n == Cardinality(X)
<1>1. c \in Nat /\ c > 0 /\ ws[i].symbols \in Seq(S)
    BY WordTypes
<1>2. IsFiniteSet(X) /\ n \in Nat
    BY <1>1, PositionsFinite
<1>3. n > 0 <=> X # {}
    <2> HIDE DEF X
    <2> QED BY <1>2, FS_EmptySet
<1> HIDE DEF c, n, X
<1>4. c * n \in Nat /\ (c * n > 0 <=> n > 0)
    BY <1>1, <1>2
<1> QED BY <1>3, <1>4 DEF Term, c, n, X

LEMMA FrequencySteps ==
    ASSUME NEW S, NEW ws, IsWords(ws, S), NEW p
    PROVE  \E f : IsCounting(f, ws, p)
<1> DEFINE n == Len(ws)
           T == [iv \in (1..n) \X Nat |-> iv[2] + Term(ws, p, iv[1])]
<1>1. n \in Nat /\ DOMAIN ws = 1..n
    BY DEF IsWords
<1>2. T \in [(1..n) \X Nat -> Nat]
    <2>1. ASSUME NEW iv \in (1..n) \X Nat PROVE iv[2] + Term(ws, p, iv[1]) \in Nat
        <3>1. iv[1] \in DOMAIN ws /\ iv[2] \in Nat
            BY <1>1
        <3> QED BY <3>1, TermIsNat
    <2> HIDE DEF n
    <2> QED BY <2>1
<1>3. PICK g : IsSteps(g, n, Nat, 0, T)
    <2> HIDE DEF T, n
    <2> QED BY <1>1, <1>2, Recursion
<1>4. g \in [0..n -> Nat] /\ g[0] = 0 /\ \A i \in 1..n : g[i] = T[<<i, g[i - 1]>>]
    BY <1>3 DEF IsSteps
<1> DEFINE e(g1, i) == IF i = 0 THEN 0 ELSE g1[i - 1] + Term(ws, p, i)
<1>5. ASSUME NEW i \in 0..n PROVE g[i] = e(g, i)
    <2>1. CASE i = 0
        BY <1>4, <2>1
    <2>2. CASE i # 0
        <3>1. i \in 1..n /\ i - 1 \in 0..n
            BY <1>1, <2>2
        <3>2. g[i - 1] \in Nat
            BY <1>4, <3>1
        <3>3. T[<<i, g[i - 1]>>] = g[i - 1] + Term(ws, p, i)
            <4> HIDE DEF n
            <4> QED BY <3>1, <3>2
        <3> HIDE DEF T, n
        <3> QED BY <1>4, <2>2, <3>1, <3>3
    <2> QED BY <2>1, <2>2
<1>6. IsSum(g, ws, p)
    <2>1. g = [i \in 0..n |-> e(g, i)]
        <3> HIDE DEF e, n, T
        <3> QED BY <1>4, <1>5
    <2> QED BY <2>1 DEF IsSum
<1> DEFINE f == CHOOSE f : IsSum(f, ws, p)
<1>7. IsSum(f, ws, p)
    BY <1>6
<1>8. Frequency(ws, p) = f[n]
    BY DEF Frequency, IsSum, Term
<1> HIDE DEF f, T
<1>9. \A i \in 0..n : f[i] = e(f, i)
    BY <1>7 DEF IsSum
<1>10. f[0] = 0 /\ \A i \in 1..n : f[i] = f[i - 1] + Term(ws, p, i)
    <2>1. f[0] = 0
        BY <1>1, <1>9
    <2>2. ASSUME NEW i \in 1..n PROVE f[i] = f[i - 1] + Term(ws, p, i)
        <3>1. i \in 0..n /\ i # 0
            BY <1>1
        <3> QED BY <1>9, <3>1
    <2> QED BY <2>1, <2>2
<1>11. f \in [0..n -> Nat]
    <2> DEFINE bad == {k \in Nat : k <= n /\ f[k] \notin Nat}
    <2>1. bad = {}
        <3> SUFFICES ASSUME bad # {} PROVE FALSE
            OBVIOUS
        <3>1. PICK k \in bad : \A l \in bad : k <= l
            BY LeastElement
        <3>2. k \in Nat /\ k <= n /\ f[k] \notin Nat
            OBVIOUS
        <3>3. k # 0
            BY <1>10, <3>2
        <3>4. k - 1 \in Nat /\ k - 1 < k /\ k - 1 <= n /\ k \in 1..n
            BY <1>1, <3>2, <3>3
        <3>5. k - 1 \notin bad
            <4> HIDE DEF bad
            <4> QED BY <3>1, <3>2, <3>4
        <3>6. f[k - 1] \in Nat /\ Term(ws, p, k) \in Nat /\ f[k] = f[k - 1] + Term(ws, p, k)
            BY <1>1, <1>10, <3>4, <3>5, TermIsNat
        <3> QED BY <3>2, <3>6
    <2>2. ASSUME NEW k \in 0..n PROVE f[k] \in Nat
        <3>1. k \in Nat /\ k <= n /\ k \notin bad
            BY <1>1, <2>1
        <3> QED BY <3>1
    <2>3. f = [k \in 0..n |-> f[k]]
        BY <1>7 DEF IsSum
    <2> QED BY <2>2, <2>3
<1> QED BY <1>8, <1>10, <1>11 DEF IsCounting

(* A pair has a frequency exactly when it is a pair of some word. *)
LEMMA FrequencyOccurs ==
    ASSUME NEW S, NEW ws, IsWords(ws, S), NEW p
    PROVE  Frequency(ws, p) \in Nat /\ (Frequency(ws, p) > 0 <=> p \in SymbolPairs(ws))
<1> DEFINE n == Len(ws)
           Occ(k) == \E i \in 1..k : Positions(ws[i].symbols, p) # {}
<1>0. PICK f : IsCounting(f, ws, p)
    BY FrequencySteps
<1>1. /\ f \in [0..n -> Nat] /\ f[0] = 0 /\ f[n] = Frequency(ws, p)
      /\ \A i \in 1..n : f[i] = f[i - 1] + Term(ws, p, i)
    BY <1>0 DEF IsCounting
<1>2. n \in Nat /\ DOMAIN ws = 1..n
    BY DEF IsWords
<1> HIDE DEF n
<1> DEFINE bad == {k \in Nat : k <= n /\ ~(f[k] > 0 <=> Occ(k))}
<1>3. bad = {}
    <2> SUFFICES ASSUME bad # {} PROVE FALSE
        OBVIOUS
    <2>1. PICK k \in bad : \A l \in bad : k <= l
        BY LeastElement
    <2>2. k \in Nat /\ k <= n /\ ~(f[k] > 0 <=> Occ(k))
        OBVIOUS
    <2>3. k # 0
        <3>1. ~Occ(0) /\ ~(f[0] > 0)
            BY <1>1
        <3> HIDE DEF Occ
        <3> QED BY <2>2, <3>1
    <2>4. k - 1 \in Nat /\ k - 1 < k /\ k - 1 <= n /\ k \in 1..n /\ k - 1 \in 0..n
        BY <1>2, <2>2, <2>3
    <2>5. k - 1 \notin bad
        <3> HIDE DEF bad
        <3> QED BY <2>1, <2>2, <2>4
    <2>6. f[k - 1] > 0 <=> Occ(k - 1)
        BY <2>4, <2>5
    <2>7. Term(ws, p, k) \in Nat /\ (Term(ws, p, k) > 0 <=> Positions(ws[k].symbols, p) # {})
        BY <1>2, <2>4, TermIsNat
    <2>8. f[k - 1] \in Nat /\ f[k] = f[k - 1] + Term(ws, p, k)
        BY <1>1, <2>4
    <2>9. Occ(k) <=> Occ(k - 1) \/ Positions(ws[k].symbols, p) # {}
        <3>1. 1..k = (1..(k - 1)) \cup {k}
            BY <2>4
        <3> QED BY <3>1
    <2> HIDE DEF bad, Occ
    <2> QED BY <2>2, <2>6, <2>7, <2>8, <2>9
<1>4. f[n] > 0 <=> Occ(n)
    <2>1. n \notin bad
        BY <1>3
    <2> HIDE DEF Occ
    <2> QED BY <1>2, <2>1
<1>5. Occ(n) <=> p \in SymbolPairs(ws)
    BY <1>2 DEF SymbolPairs, PairsOf, Positions
<1>6. f[n] \in Nat
    BY <1>1, <1>2
<1> HIDE DEF Occ
<1> QED BY <1>1, <1>4, <1>5, <1>6

(* Where only one word changes, the frequency changes by what that word counts. *)
SameBut(ws, vs, i) == DOMAIN vs = DOMAIN ws /\ \A j \in DOMAIN ws \ {i} : vs[j] = ws[j]

LEMMA FrequencyStep ==
    ASSUME NEW S, NEW ws, NEW vs, IsWords(ws, S), IsWords(vs, S),
           NEW i \in DOMAIN ws, SameBut(ws, vs, i), NEW p
    PROVE  Frequency(vs, p) = Frequency(ws, p) + Term(vs, p, i) - Term(ws, p, i)
<1> DEFINE n == Len(ws)
           d == Term(vs, p, i) - Term(ws, p, i)
<1>0. PICK f : IsCounting(f, ws, p)
    BY FrequencySteps
<1>1. PICK g : IsCounting(g, vs, p)
    BY FrequencySteps
<1>2. n \in Nat /\ DOMAIN ws = 1..n /\ Len(vs) = n /\ DOMAIN vs = 1..n
    BY DEF IsWords, SameBut
<1>3. /\ f \in [0..n -> Nat] /\ f[0] = 0 /\ f[n] = Frequency(ws, p)
      /\ \A k \in 1..n : f[k] = f[k - 1] + Term(ws, p, k)
    BY <1>0 DEF IsCounting
<1>4. /\ g \in [0..n -> Nat] /\ g[0] = 0 /\ g[n] = Frequency(vs, p)
      /\ \A k \in 1..n : g[k] = g[k - 1] + Term(vs, p, k)
    BY <1>1, <1>2 DEF IsCounting
<1>5. Term(vs, p, i) \in Nat /\ Term(ws, p, i) \in Nat /\ i \in 1..n
    BY <1>2, TermIsNat
<1>6. \A k \in 1..n : k # i => Term(vs, p, k) = Term(ws, p, k)
    BY <1>2 DEF SameBut, Term
<1>7. \A k \in 1..n : Term(ws, p, k) \in Nat
    BY <1>2, TermIsNat
<1> HIDE DEF n
<1> DEFINE bad == {k \in Nat : k <= n /\ g[k] # f[k] + (IF i <= k THEN d ELSE 0)}
<1>8. bad = {}
    <2> SUFFICES ASSUME bad # {} PROVE FALSE
        OBVIOUS
    <2>1. PICK k \in bad : \A l \in bad : k <= l
        BY LeastElement
    <2>2. k \in Nat /\ k <= n /\ g[k] # f[k] + (IF i <= k THEN d ELSE 0)
        OBVIOUS
    <2>3. k # 0
        BY <1>3, <1>4, <1>5, <2>2
    <2>4. k - 1 \in Nat /\ k - 1 < k /\ k - 1 <= n /\ k \in 1..n /\ k - 1 \in 0..n
        BY <1>2, <2>2, <2>3
    <2>5. k - 1 \notin bad
        <3> HIDE DEF bad
        <3> QED BY <2>1, <2>2, <2>4
    <2>6. g[k - 1] = f[k - 1] + (IF i <= k - 1 THEN d ELSE 0)
        BY <2>4, <2>5
    <2>7. f[k] = f[k - 1] + Term(ws, p, k) /\ g[k] = g[k - 1] + Term(vs, p, k)
        BY <1>3, <1>4, <2>4
    <2>8. f[k - 1] \in Nat /\ Term(ws, p, k) \in Nat
        BY <1>3, <1>7, <2>4
    <2>9. CASE k = i
        BY <1>5, <2>2, <2>6, <2>7, <2>8, <2>9
    <2>10. CASE k # i
        <3>1. Term(vs, p, k) = Term(ws, p, k) /\ (i <= k <=> i <= k - 1)
            BY <1>5, <1>6, <2>4, <2>10
        <3>2. d \in Int
            BY <1>5
        <3> HIDE DEF d, bad
        <3> QED BY <2>2, <2>6, <2>7, <2>8, <3>1, <3>2
    <2> QED BY <2>9, <2>10
<1>9. g[n] = f[n] + d
    <2>1. n \notin bad
        BY <1>8
    <2> HIDE DEF d
    <2> QED BY <1>2, <1>5, <2>1
<1>10. f[n] \in Nat
    BY <1>2, <1>3
<1> QED BY <1>3, <1>4, <1>5, <1>9, <1>10

LEMMA Distribute ==
    ASSUME NEW c \in Int, NEW a \in Int, NEW b \in Int
    PROVE  c * (a + b) = c * a + c * b
OBVIOUS

-----------------------------------------------------------------------------
(* The invariant. *)

Symbols == 0..(NewId - 1)

TypesOK ==
    /\ FirstNew \in Nat
    /\ IsWords(words, Symbols)
    /\ merges \in Seq(Nat \X Nat)
    /\ \A n \in DOMAIN merges : merges[n][1] <= FirstNew + n - 2 /\ merges[n][2] <= FirstNew + n - 2
    /\ queue \in [DOMAIN queue -> Int] /\ changes \in [DOMAIN changes -> Int]
    /\ DOMAIN queue \subseteq Symbols \X Symbols /\ DOMAIN changes \subseteq Symbols \X Symbols
    /\ within \in [DOMAIN within -> SUBSET DOMAIN words]
    /\ todo \in SUBSET DOMAIN words
    /\ phase \in {"pick", "update", "done"}

(* Between two merges no word waits, and the pair being merged is not in the queue. *)
Steps ==
    /\ phase # "update" => todo = {}
    /\ phase = "update" =>
          merges # <<>> /\ Current \notin DOMAIN queue /\ DOMAIN changes \subseteq DOMAIN within

Pending(p) == IF phase = "update" THEN Old(changes, p, 0) ELSE 0

(* What the queue says and the updates have still to correct in it is what the words
   have by now. *)
CountsAdd ==
    \A p : IF p \in Merged THEN Old(queue, p, 0) + Pending(p) <= 0
           ELSE Old(queue, p, 0) + Pending(p) = Frequency(words, p)

(* A merged pair occurs only where its merge is still to be made. *)
NoMerged ==
    \A p \in Merged : \A i \in DOMAIN words :
        Positions(words[i].symbols, p) # {} => phase = "update" /\ i \in todo /\ p = Current

TInv == TypesOK /\ Steps /\ CountsAdd /\ NoMerged /\ IndexCovers

-----------------------------------------------------------------------------
(* Pairs of words. *)

LEMMA PairTypes ==
    ASSUME NEW S, NEW ws, IsWords(ws, S), NEW p \in SymbolPairs(ws)
    PROVE  p \in S \X S
<1>1. PICK i \in DOMAIN ws : p \in PairsOf(ws[i].symbols)
    BY DEF SymbolPairs
<1> DEFINE w == ws[i].symbols
<1>2. w \in Seq(S)
    BY WordTypes
<1>3. PICK k \in 1..(Len(w) - 1) : p = <<w[k], w[k + 1]>>
    BY <1>1 DEF PairsOf, PairAt
<1> HIDE DEF w
<1>4. k \in 1..Len(w) /\ k + 1 \in 1..Len(w)
    BY <1>2
<1>5. w[k] \in S /\ w[k + 1] \in S
    BY <1>2, <1>4
<1> QED BY <1>3, <1>5

LEMMA OccursIn ==
    ASSUME NEW ws, NEW i \in DOMAIN ws, NEW p
    PROVE  /\ Positions(ws[i].symbols, p) # {} <=> p \in PairsOf(ws[i].symbols)
           /\ Positions(ws[i].symbols, p) # {} => p \in SymbolPairs(ws)
BY DEF Positions, PairsOf, SymbolPairs

LEMMA Wider ==
    ASSUME NEW S, NEW T, S \subseteq T, NEW ws, IsWords(ws, S)
    PROVE  IsWords(ws, T)
<1> DEFINE R == [symbols: Seq(S), count: Nat \ {0}]
           Q == [symbols: Seq(T), count: Nat \ {0}]
<1>1. ASSUME NEW r \in R PROVE r \in Q
    <2>1. r = [symbols |-> r.symbols, count |-> r.count] /\ r.symbols \in Seq(S) /\ r.count \in Nat \ {0}
        OBVIOUS
    <2>2. r.symbols \in Seq(T)
        BY <2>1
    <2> QED BY <2>1, <2>2
<1>2. ws \in Seq(R)
    BY DEF IsWords
<1> HIDE DEF R, Q
<1>3. ws \in Seq(Q)
    BY <1>1, <1>2
<1> QED BY <1>3 DEF IsWords, Q

LEMMA InitTInv == Init => TInv
<1> SUFFICES ASSUME Init PROVE TInv
    OBVIOUS
<1>1. merges = <<>> /\ todo = {} /\ changes = Empty /\ phase = "pick" /\ IsCorpus(words)
    BY CorporaAssumption DEF Init
<1>2. FirstNew \in Nat /\ NewId = FirstNew /\ Base \subseteq Symbols
    BY <1>1, SizesAssumption DEF FirstNew, NewId, Symbols, Base
<1>3. IsWords(words, Symbols)
    <2> DEFINE R == [symbols: Seq(Base) \ {<<>>}, count: Nat \ {0}]
               Q == [symbols: Seq(Base), count: Nat \ {0}]
    <2>1. words \in Seq(R)
        BY <1>1 DEF IsCorpus
    <2>2. R \subseteq Q
        OBVIOUS
    <2> HIDE DEF R, Q
    <2>3. words \in Seq(Q)
        BY <2>1, <2>2
    <2>4. IsWords(words, Base)
        BY <2>3 DEF IsWords, Q
    <2> QED BY <1>2, <2>4, Wider
<1>4. queue = [p \in SymbolPairs(words) |-> Frequency(words, p)]
    BY DEF Init
<1>5. within = [p \in SymbolPairs(words) |-> {i \in DOMAIN words : Positions(words[i].symbols, p) # {}}]
    BY DEF Init
<1>6. DOMAIN queue = SymbolPairs(words) /\ queue \in [DOMAIN queue -> Int]
    <2>1. \A p \in SymbolPairs(words) : Frequency(words, p) \in Int
        BY <1>3, FrequencyOccurs
    <2> QED BY <1>4, <2>1
<1>7. DOMAIN queue \subseteq Symbols \X Symbols
    BY <1>3, <1>6, PairTypes
<1>8. within \in [DOMAIN within -> SUBSET DOMAIN words] /\ DOMAIN within = SymbolPairs(words)
    BY <1>5
<1>9. TypesOK
    <2>1. merges \in Seq(Nat \X Nat) /\ DOMAIN merges = {}
        BY <1>1
    <2>2. changes \in [DOMAIN changes -> Int] /\ DOMAIN changes = {}
        BY <1>1 DEF Empty
    <2> QED BY <1>1, <1>2, <1>3, <1>6, <1>7, <1>8, <2>1, <2>2 DEF TypesOK
<1>10. Merged = {}
    BY <1>1 DEF Merged
<1>11. CountsAdd
    <2> SUFFICES ASSUME NEW p PROVE Old(queue, p, 0) + Pending(p) = Frequency(words, p)
        BY <1>10 DEF CountsAdd
    <2>1. Pending(p) = 0
        BY <1>1 DEF Pending
    <2>2. Frequency(words, p) \in Nat /\ (Frequency(words, p) > 0 <=> p \in SymbolPairs(words))
        BY <1>3, FrequencyOccurs
    <2>3. Old(queue, p, 0) = IF p \in SymbolPairs(words) THEN Frequency(words, p) ELSE 0
        BY <1>4 DEF Old
    <2> QED BY <2>1, <2>2, <2>3
<1>12. IndexCovers
    <2>1. ASSUME NEW i \in DOMAIN words, NEW k \in 1..(Len(words[i].symbols) - 1)
          PROVE  PairAt(words[i].symbols, k) \in DOMAIN within /\ i \in within[PairAt(words[i].symbols, k)]
        <3> DEFINE p == PairAt(words[i].symbols, k)
        <3>1. p \in SymbolPairs(words) /\ Positions(words[i].symbols, p) # {}
            BY DEF SymbolPairs, PairsOf, Positions
        <3> HIDE DEF p
        <3>2. p \in DOMAIN within /\ i \in within[p]
            BY <1>5, <3>1
        <3> QED BY <3>2 DEF p
    <2> QED BY <1>6, <1>8, <2>1 DEF IndexCovers
<1> QED BY <1>1, <1>9, <1>10, <1>11, <1>12 DEF TInv, Steps, NoMerged

-----------------------------------------------------------------------------
(* The steps that change no word. *)

LEMMA Covered ==
    ASSUME IndexCovers, NEW i \in DOMAIN words, NEW p, Positions(words[i].symbols, p) # {}
    PROVE  p \in DOMAIN within /\ i \in within[p]
<1>1. PICK k \in 1..(Len(words[i].symbols) - 1) : PairAt(words[i].symbols, k) = p
    BY DEF Positions
<1> QED BY <1>1 DEF IndexCovers

LEMMA OldIsInt ==
    ASSUME NEW f, f \in [DOMAIN f -> Int], NEW p
    PROVE  Old(f, p, 0) \in Int
BY DEF Old

LEMMA PickTInv == ASSUME TInv, Pick PROVE TInv'
<1>1. PICK pair \in DOMAIN queue :
          /\ merges' = Append(merges, pair)
          /\ queue' = [p \in DOMAIN queue \ {pair} |-> queue[p]]
          /\ todo' = within[pair]
    BY DEF Pick
<1>2. phase = "pick" /\ changes' = Empty /\ phase' = "update" /\ UNCHANGED <<words, within>>
    BY DEF Pick
<1>3. /\ FirstNew \in Nat /\ IsWords(words, Symbols) /\ merges \in Seq(Nat \X Nat)
      /\ \A n \in DOMAIN merges : merges[n][1] <= FirstNew + n - 2 /\ merges[n][2] <= FirstNew + n - 2
      /\ queue \in [DOMAIN queue -> Int] /\ DOMAIN queue \subseteq Symbols \X Symbols
      /\ within \in [DOMAIN within -> SUBSET DOMAIN words]
    BY DEF TInv, TypesOK
<1>4. DOMAIN queue \subseteq DOMAIN within
    BY DEF TInv, IndexCovers
<1> DEFINE n == Len(merges)
<1>5. /\ n \in Nat /\ merges' \in Seq(Nat \X Nat) /\ Len(merges') = n + 1 /\ merges'[n + 1] = pair
      /\ \A k \in 1..n : merges'[k] = merges[k]
    <2>1. pair \in Nat \X Nat
        BY <1>1, <1>3 DEF Symbols
    <2> QED BY <1>1, <1>3, <2>1, AppendProperties
<1>6. DOMAIN merges = 1..n /\ DOMAIN merges' = 1..(n + 1)
    BY <1>3, <1>5
<1>7. NewId = FirstNew + n /\ NewId' = FirstNew + n + 1 /\ Current' = pair
    BY <1>3, <1>5 DEF NewId, Current
<1>8. pair[1] \in 0..(FirstNew + n - 1) /\ pair[2] \in 0..(FirstNew + n - 1)
    BY <1>1, <1>3, <1>7 DEF Symbols
<1> HIDE DEF n
<1>9. Symbols \subseteq Symbols'
    <2>1. Symbols = 0..(FirstNew + n - 1) /\ Symbols' = 0..(FirstNew + n)
        BY <1>3, <1>5, <1>7 DEF Symbols
    <2> QED BY <1>3, <1>5, <2>1
<1>10. \A k \in DOMAIN merges' : merges'[k][1] <= FirstNew + k - 2 /\ merges'[k][2] <= FirstNew + k - 2
    <2> TAKE k \in DOMAIN merges'
    <2>1. CASE k \in 1..n
        BY <1>3, <1>5, <1>6, <2>1
    <2>2. CASE k = n + 1
        <3>1. FirstNew + n - 1 = FirstNew + k - 2
            BY <1>3, <1>5, <2>2
        <3>2. pair[1] <= FirstNew + n - 1 /\ pair[2] <= FirstNew + n - 1
            BY <1>3, <1>5, <1>8
        <3> QED BY <1>5, <2>2, <3>1, <3>2
    <2> QED BY <1>5, <1>6, <2>1, <2>2
<1>11. DOMAIN queue' = DOMAIN queue \ {pair} /\ \A p \in DOMAIN queue' : queue'[p] = queue[p]
    BY <1>1
<1>12. TypesOK'
    <2>1. IsWords(words', Symbols')
        BY <1>2, <1>3, <1>9, Wider
    <2>2. queue' \in [DOMAIN queue' -> Int]
        BY <1>1, <1>3
    <2>3. DOMAIN queue' \subseteq Symbols' \X Symbols'
        BY <1>3, <1>9, <1>11
    <2>4. changes' \in [DOMAIN changes' -> Int] /\ DOMAIN changes' = {}
        BY <1>2 DEF Empty
    <2>5. todo' \in SUBSET DOMAIN words'
        BY <1>1, <1>2, <1>3, <1>4
    <2> QED BY <1>2, <1>3, <1>5, <1>10, <2>1, <2>2, <2>3, <2>4, <2>5 DEF TypesOK, FirstNew
<1>13. Merged' = Merged \cup {pair}
    <2>1. Merged' = {merges'[k] : k \in 1..(n + 1)} /\ Merged = {merges[k] : k \in 1..n}
        BY <1>6 DEF Merged
    <2>2. 1..(n + 1) = (1..n) \cup {n + 1}
        BY <1>5
    <2>3. Merged' = {merges'[k] : k \in 1..n} \cup {merges'[n + 1]}
        BY <2>1, <2>2
    <2>4. {merges'[k] : k \in 1..n} = Merged
        BY <1>5, <2>1
    <2> QED BY <1>5, <2>3, <2>4
<1>14. Steps'
    <2>1. merges' # <<>>
        BY <1>5
    <2>2. DOMAIN changes' = {}
        BY <1>2 DEF Empty
    <2> QED BY <1>2, <1>7, <1>11, <2>1, <2>2 DEF Steps
<1>15. CountsAdd'
    <2> SUFFICES ASSUME NEW p
                 PROVE  IF p \in Merged' THEN Old(queue', p, 0) + Pending(p)' <= 0
                        ELSE Old(queue', p, 0) + Pending(p)' = Frequency(words', p)
        BY DEF CountsAdd
    <2>1. Pending(p)' = 0 /\ Pending(p) = 0
        BY <1>2 DEF Pending, Old, Empty
    <2>2. CASE p = pair
        <3>1. Old(queue', p, 0) = 0
            BY <1>11, <2>2 DEF Old
        <3> QED BY <1>13, <2>1, <2>2, <3>1
    <2>3. CASE p # pair
        <3>1. Old(queue', p, 0) = Old(queue, p, 0)
            BY <1>11, <2>3 DEF Old
        <3>2. p \in Merged' <=> p \in Merged
            BY <1>13, <2>3
        <3>3. IF p \in Merged THEN Old(queue, p, 0) + Pending(p) <= 0
              ELSE Old(queue, p, 0) + Pending(p) = Frequency(words, p)
            BY DEF TInv, CountsAdd
        <3> QED BY <1>2, <2>1, <3>1, <3>2, <3>3
    <2> QED BY <2>2, <2>3
<1>16. NoMerged'
    <2> SUFFICES ASSUME NEW p \in Merged', NEW i \in DOMAIN words, Positions(words[i].symbols, p) # {}
                 PROVE  i \in todo' /\ p = pair
        BY <1>2, <1>7 DEF NoMerged
    <2>1. p \notin Merged
        BY <1>2 DEF TInv, NoMerged
    <2>2. p = pair
        BY <1>13, <2>1
    <2>3. i \in within[p]
        BY Covered DEF TInv
    <2> QED BY <1>1, <2>2, <2>3
<1>17. IndexCovers'
    BY <1>2, <1>11 DEF TInv, IndexCovers
<1> QED BY <1>12, <1>14, <1>15, <1>16, <1>17 DEF TInv

LEMMA StopTInv == ASSUME TInv, Stop PROVE TInv'
<1>1. phase = "pick" /\ phase' = "done" /\ UNCHANGED <<words, merges, queue, within, todo, changes>>
    BY DEF Stop
<1>2. NewId' = NewId /\ Symbols' = Symbols /\ Merged' = Merged
    BY <1>1 DEF NewId, Symbols, Merged
<1>3. TypesOK' /\ Steps'
    BY <1>1, <1>2 DEF TInv, TypesOK, Steps
<1>4. CountsAdd'
    <2>1. \A p : Pending(p)' = 0 /\ Pending(p) = 0
        BY <1>1 DEF Pending
    <2> QED BY <1>1, <1>2, <2>1 DEF TInv, CountsAdd
<1>5. NoMerged'
    BY <1>1, <1>2 DEF TInv, NoMerged
<1>6. IndexCovers'
    BY <1>1 DEF TInv, IndexCovers
<1> QED BY <1>3, <1>4, <1>5, <1>6 DEF TInv

LEMMA ApplyTInv == ASSUME TInv, Apply PROVE TInv'
<1>1. /\ phase = "update" /\ todo = {} /\ phase' = "pick" /\ UNCHANGED <<words, merges, within, todo, changes>>
      /\ queue' = [p \in DOMAIN queue \cup DOMAIN changes |-> Old(queue, p, 0) + Old(changes, p, 0)]
    BY DEF Apply
<1>2. NewId' = NewId /\ Symbols' = Symbols /\ Merged' = Merged
    BY <1>1 DEF NewId, Symbols, Merged
<1>3. /\ queue \in [DOMAIN queue -> Int] /\ changes \in [DOMAIN changes -> Int]
      /\ DOMAIN queue \subseteq Symbols \X Symbols /\ DOMAIN changes \subseteq Symbols \X Symbols
      /\ DOMAIN changes \subseteq DOMAIN within
    BY <1>1 DEF TInv, TypesOK, Steps
<1>4. \A p : Old(queue, p, 0) \in Int /\ Old(changes, p, 0) \in Int
    BY <1>3, OldIsInt
<1>5. DOMAIN queue' = DOMAIN queue \cup DOMAIN changes /\ queue' \in [DOMAIN queue' -> Int]
    BY <1>1, <1>4
<1>6. \A p : Old(queue', p, 0) = Old(queue, p, 0) + Old(changes, p, 0)
    <2> TAKE p
    <2>1. CASE p \in DOMAIN queue \cup DOMAIN changes
        <3>1. queue'[p] = Old(queue, p, 0) + Old(changes, p, 0)
            BY <1>1, <2>1
        <3>2. Old(queue', p, 0) = queue'[p]
            BY <1>5, <2>1 DEF Old
        <3> QED BY <3>1, <3>2
    <2>2. CASE p \notin DOMAIN queue \cup DOMAIN changes
        BY <1>5, <2>2 DEF Old
    <2> QED BY <2>1, <2>2
<1>7. TypesOK'
    <2>1. DOMAIN queue' \subseteq Symbols' \X Symbols'
        BY <1>2, <1>3, <1>5
    <2> QED BY <1>1, <1>2, <1>5, <2>1 DEF TInv, TypesOK
<1>8. Steps'
    BY <1>1 DEF Steps
<1>9. CountsAdd'
    <2> SUFFICES ASSUME NEW p
                 PROVE  IF p \in Merged THEN Old(queue', p, 0) + Pending(p)' <= 0
                        ELSE Old(queue', p, 0) + Pending(p)' = Frequency(words, p)
        BY <1>1, <1>2 DEF CountsAdd
    <2>1. Pending(p)' = 0 /\ Pending(p) = Old(changes, p, 0)
        BY <1>1 DEF Pending
    <2>2. IF p \in Merged THEN Old(queue, p, 0) + Pending(p) <= 0
          ELSE Old(queue, p, 0) + Pending(p) = Frequency(words, p)
        BY DEF TInv, CountsAdd
    <2> QED BY <1>4, <1>6, <2>1, <2>2
<1>10. NoMerged'
    BY <1>1, <1>2 DEF TInv, NoMerged
<1>11. IndexCovers'
    BY <1>1, <1>3, <1>5 DEF TInv, IndexCovers
<1> QED BY <1>7, <1>8, <1>9, <1>10, <1>11 DEF TInv

-----------------------------------------------------------------------------
(* One word is updated. *)

LEMMA NoChange ==
    ASSUME NEW S, NEW w \in Seq(S), NEW p, p \notin Lost(w), p \notin Gained(w)
    PROVE  Change(w, p) = 0
<1>1. /\ {k \in DOMAIN LeftGained(w) : LeftGained(w)[k] = p} = {}
      /\ {k \in DOMAIN RightGained(w) : RightGained(w)[k] = p} = {}
      /\ {k \in DOMAIN LeftLost(w) : LeftLost(w)[k] = p} = {}
      /\ {k \in DOMAIN RightLost(w) : RightLost(w)[k] = p} = {}
    BY DEF Gained, Lost, Recorded
<1>2. Times(LeftGained(w), p) = 0 /\ Times(RightGained(w), p) = 0 /\ Times(LeftLost(w), p) = 0 /\ Times(RightLost(w), p) = 0
    BY <1>1, FS_EmptySet DEF Times
<1> QED BY <1>2 DEF Change

LEMMA ChangeIsInt ==
    ASSUME NEW S, NEW w \in Seq(S), NEW p
    PROVE  Change(w, p) \in Int
<1> DEFINE n == Len(w) - 1
           A == {k \in DOMAIN LeftLost(w) : LeftLost(w)[k] = p}
           B == {k \in DOMAIN RightLost(w) : RightLost(w)[k] = p}
           C == {k \in DOMAIN LeftGained(w) : LeftGained(w)[k] = p}
           D == {k \in DOMAIN RightGained(w) : RightGained(w)[k] = p}
<1>1. n \in Int /\ A \in SUBSET (1..n) /\ B \in SUBSET (1..n) /\ C \in SUBSET (1..n) /\ D \in SUBSET (1..n)
    BY DEF LeftLost, RightLost, LeftGained, RightGained, ToLeft, ToRight
<1>2. Cardinality(A) \in Nat /\ Cardinality(B) \in Nat /\ Cardinality(C) \in Nat /\ Cardinality(D) \in Nat
    <2> HIDE DEF A, B, C, D, n
    <2> QED BY <1>1, PartOfInterval
<1> QED BY <1>2 DEF Change, Times

(* The pairs recorded are pairs of symbols. *)
LEMMA RecordedTypes ==
    ASSUME NEW S, NEW w \in Seq(S), NewId - 1 \in S, IsPair(Current), NEW p \in Lost(w) \cup Gained(w)
    PROVE  p \in S \X S
<1>1. \A k \in 1..(Len(w) - 1) : w[k] \in S /\ w[k + 1] \in S
    <2> TAKE k \in 1..(Len(w) - 1)
    <2>1. k \in 1..Len(w) /\ k + 1 \in 1..Len(w)
        OBVIOUS
    <2> QED BY <2>1
<1>2. \A k \in Stay(w) : PairAt(w, k) \in S \X S /\ Halfway(w, k) \in S \X S /\ After(w, k) \in S \X S
    BY <1>1 DEF Stay, PairAt, Halfway, LeftOf, After, NewPair
<1>3. \E k \in Stay(w) : p = PairAt(w, k) \/ p = Halfway(w, k) \/ p = After(w, k)
    <2>1. DOMAIN LeftLost(w) = ToLeft(w) /\ DOMAIN LeftGained(w) = ToLeft(w)
          /\ DOMAIN RightLost(w) = ToRight(w) /\ DOMAIN RightGained(w) = ToRight(w)
        BY DEF LeftLost, LeftGained, RightLost, RightGained
    <2> QED BY <2>1, RecordedPairs DEF Lost, Gained, Recorded
<1> QED BY <1>2, <1>3

LEMMA UpdateTInv == ASSUME TInv, NEW i \in todo, UpdateWord(i) PROVE TInv'
<1> DEFINE w == words[i].symbols
           v == MergeWord(w, Current, NewId - 1)
           touched == Lost(w) \cup Gained(w)
           c == words[i].count
<1>1. /\ phase = "update" /\ todo' = todo \ {i} /\ UNCHANGED <<merges, queue, phase>>
      /\ words' = [words EXCEPT ![i].symbols = v]
      /\ changes' = [p \in DOMAIN changes \cup touched |->
                        Old(changes, p, 0) + (IF p \in touched THEN c * Change(w, p) ELSE 0)]
      /\ within' = [p \in DOMAIN within \cup Gained(w) |->
                        Old(within, p, {}) \cup (IF p \in Gained(w) THEN {i} ELSE {})]
    BY DEF UpdateWord
<1>2. NewId' = NewId /\ Symbols' = Symbols /\ Merged' = Merged /\ Current' = Current
    BY <1>1 DEF NewId, Symbols, Merged, Current
<1>3. /\ FirstNew \in Nat /\ IsWords(words, Symbols) /\ merges \in Seq(Nat \X Nat)
      /\ \A n \in DOMAIN merges : merges[n][1] <= FirstNew + n - 2 /\ merges[n][2] <= FirstNew + n - 2
      /\ queue \in [DOMAIN queue -> Int] /\ changes \in [DOMAIN changes -> Int]
      /\ DOMAIN queue \subseteq Symbols \X Symbols /\ DOMAIN changes \subseteq Symbols \X Symbols
      /\ within \in [DOMAIN within -> SUBSET DOMAIN words] /\ todo \in SUBSET DOMAIN words
    BY DEF TInv, TypesOK
<1>4. merges # <<>> /\ Current \notin DOMAIN queue /\ DOMAIN changes \subseteq DOMAIN within
    BY <1>1 DEF TInv, Steps
<1>5. i \in DOMAIN words /\ w \in Seq(Symbols) /\ c \in Nat /\ c > 0
      /\ words[i] = [symbols |-> w, count |-> c]
    BY <1>3, WordTypes
<1>6. Len(merges) \in Nat /\ Len(merges) \in DOMAIN merges /\ NewId = FirstNew + Len(merges)
    BY <1>3, <1>4 DEF NewId
<1>7. NewId - 1 \in Symbols
    BY <1>3, <1>6 DEF Symbols
<1>8. Current \in Merged /\ Current \in Nat \X Nat /\ IsPair(Current)
    BY <1>3, <1>6 DEF Current, Merged, IsPair
<1>9. \A p \in Merged : p[1] # NewId - 1 /\ p[2] # NewId - 1
    <2> SUFFICES ASSUME NEW n \in DOMAIN merges PROVE merges[n][1] # NewId - 1 /\ merges[n][2] # NewId - 1
        BY DEF Merged
    <2>1. n \in Nat /\ n <= Len(merges) /\ merges[n] \in Nat \X Nat
        BY <1>3
    <2>2. merges[n][1] \in Nat /\ merges[n][2] \in Nat
        BY <2>1
    <2>3. merges[n][1] <= FirstNew + n - 2 /\ merges[n][2] <= FirstNew + n - 2
        BY <1>3
    <2> DEFINE x == merges[n][1]
               y == merges[n][2]
    <2>4. x \in Nat /\ y \in Nat /\ x <= FirstNew + n - 2 /\ y <= FirstNew + n - 2
        BY <2>2, <2>3
    <2> HIDE DEF x, y
    <2> DEFINE l == Len(merges)
    <2>a. FirstNew \in Nat /\ l \in Nat /\ NewId = FirstNew + l /\ n <= l /\ n \in Nat
        BY <1>3, <1>6, <2>1
    <2> HIDE DEF l
    <2>5. x # NewId - 1 /\ y # NewId - 1
        BY <2>a, <2>4
    <2> QED BY <2>5 DEF x, y
<1>10. v \in Seq(Symbols)
    BY <1>5, <1>7, MergeCounts
<1> HIDE DEF w, v, c, touched
<1>11. /\ DOMAIN words' = DOMAIN words /\ words'[i] = [symbols |-> v, count |-> c]
       /\ \A j \in DOMAIN words \ {i} : words'[j] = words[j]
    BY <1>1, <1>5
<1>12. IsWords(words', Symbols)
    <2> DEFINE R == [symbols: Seq(Symbols), count: Nat \ {0}]
               r == [symbols |-> v, count |-> c]
    <2>1. r \in R
        BY <1>5, <1>10
    <2>2. words \in Seq(R)
        BY <1>3 DEF IsWords
    <2>a. [words[i] EXCEPT !.symbols = v] = r
        BY <1>5
    <2> HIDE DEF R, r
    <2>3. words' = [words EXCEPT ![i] = r]
        BY <1>1, <2>a
    <2>4. words' \in Seq(R)
        BY <1>5, <2>1, <2>2, <2>3
    <2> QED BY <2>4 DEF IsWords, R
<1>13. \A p \in touched : p \in Symbols \X Symbols
    BY <1>5, <1>7, <1>8, RecordedTypes DEF touched
<1>14. \A p : Change(w, p) \in Int /\ (p \notin touched => Change(w, p) = 0)
    BY <1>5, ChangeIsInt, NoChange DEF touched
<1>15. \A p : c * Change(w, p) \in Int
    <2> TAKE p
    <2> DEFINE d == Change(w, p)
    <2>1. d \in Int
        BY <1>14
    <2> HIDE DEF d
    <2>2. c * d \in Int
        BY <1>5, <2>1
    <2> QED BY <2>2 DEF d
<1>16. \A p : Old(changes, p, 0) \in Int /\ Old(queue, p, 0) \in Int
    BY <1>3, OldIsInt
<1>17. DOMAIN changes' = DOMAIN changes \cup touched /\ changes' \in [DOMAIN changes' -> Int]
    BY <1>1, <1>15, <1>16
<1>18. DOMAIN within' = DOMAIN within \cup Gained(w)
       /\ \A p \in DOMAIN within' : within'[p] = Old(within, p, {}) \cup (IF p \in Gained(w) THEN {i} ELSE {})
    BY <1>1
<1>19. \A p \in DOMAIN within : p \in DOMAIN within' /\ within[p] \subseteq within'[p]
    BY <1>18 DEF Old
<1>20. \A p \in Gained(w) : p \in DOMAIN within' /\ i \in within'[p]
    BY <1>18
<1>21. \A p \in Lost(w) : p \in Gained(w) \/ p \in DOMAIN within
    <2>1. \A p \in Lost(w) : p \in Gained(w) \/ Positions(w, p) # {}
        BY <1>5, <1>8, GainedOrThere
    <2>2. IndexCovers
        BY DEF TInv
    <2> QED BY <1>5, <2>1, <2>2, Covered DEF w
<1>22. TypesOK'
    <2>1. DOMAIN changes' \subseteq Symbols \X Symbols
        BY <1>3, <1>13, <1>17
    <2>2. within' \in [DOMAIN within' -> SUBSET DOMAIN words]
        <3>1. \A p \in DOMAIN within' : within'[p] \subseteq DOMAIN words
            BY <1>3, <1>5, <1>18 DEF Old
        <3>2. within' = [p \in DOMAIN within' |-> within'[p]]
            BY <1>1
        <3> QED BY <3>1, <3>2
    <2>3. todo' \in SUBSET DOMAIN words
        BY <1>1, <1>3
    <2>4. phase' \in {"pick", "update", "done"}
        BY <1>1
    <2> QED BY <1>1, <1>2, <1>3, <1>11, <1>12, <1>17, <2>1, <2>2, <2>3, <2>4 DEF TypesOK
<1>23. Steps'
    <2>1. DOMAIN changes' \subseteq DOMAIN within'
        BY <1>4, <1>17, <1>18, <1>21 DEF touched
    <2> QED BY <1>1, <1>2, <1>4, <2>1 DEF Steps
<1>24. CountsAdd'
    <2> SUFFICES ASSUME NEW p
                 PROVE  IF p \in Merged THEN Old(queue, p, 0) + Pending(p)' <= 0
                        ELSE Old(queue, p, 0) + Pending(p)' = Frequency(words', p)
        BY <1>1, <1>2 DEF CountsAdd
    <2> DEFINE d == Change(w, p)
               e == c * d
    <2>1. Pending(p) = Old(changes, p, 0) /\ Pending(p)' = Old(changes', p, 0)
        BY <1>1 DEF Pending
    <2>2. d \in Int /\ e \in Int
        BY <1>14, <1>15
    <2>3. p \notin touched => e = 0
        <3>1. p \notin touched => d = 0
            BY <1>14
        <3> HIDE DEF d
        <3> QED BY <1>5, <3>1
    <2> HIDE DEF e
    <2>4. Old(changes', p, 0) = Old(changes, p, 0) + e
        <3>1. CASE p \in touched
            <4>1. p \in DOMAIN changes' /\ changes'[p] = Old(changes, p, 0) + e
                BY <1>1, <1>17, <3>1 DEF e
            <4> QED BY <4>1 DEF Old
        <3>2. CASE p \notin touched /\ p \in DOMAIN changes
            <4>1. p \in DOMAIN changes' /\ changes'[p] = Old(changes, p, 0) + 0
                BY <1>1, <1>17, <3>2
            <4> QED BY <1>16, <2>3, <3>2, <4>1 DEF Old
        <3>3. CASE p \notin touched /\ p \notin DOMAIN changes
            <4>1. p \notin DOMAIN changes'
                BY <1>17, <3>3
            <4> QED BY <2>3, <3>3, <4>1 DEF Old
        <3> QED BY <3>1, <3>2, <3>3
    <2>5. Old(changes, p, 0) \in Int /\ Old(queue, p, 0) \in Int
        BY <1>16
    <2>6. IF p \in Merged THEN Old(queue, p, 0) + Old(changes, p, 0) <= 0
          ELSE Old(queue, p, 0) + Old(changes, p, 0) = Frequency(words, p)
        BY <2>1 DEF TInv, CountsAdd
    <2>7. CASE p \in Merged
        <3>1. p \notin Gained(w)
            BY <1>9, <2>7, GainedIsNew
        <3>2. d <= 0
            BY <1>5, <3>1, OnlyLost
        <3>3. e <= 0
            <4> HIDE DEF d
            <4> QED BY <1>5, <2>2, <3>2 DEF e
        <3> HIDE DEF d
        <3> QED BY <2>1, <2>2, <2>4, <2>5, <2>6, <2>7, <3>3
    <2>8. CASE p \notin Merged
        <3> DEFINE m == Cardinality(Positions(w, p))
                   mm == Cardinality(Positions(v, p))
        <3>1. p # Current
            BY <1>8, <2>8
        <3>2. mm = m + d
            BY <1>5, <1>7, <1>8, <3>1, ChangeCounts DEF v
        <3>3. m \in Nat /\ mm \in Nat
            BY <1>5, <1>10, PositionsFinite
        <3>4. Term(words', p, i) = c * mm /\ Term(words, p, i) = c * m
            BY <1>5, <1>11 DEF Term, w, c
        <3>5. SameBut(words, words', i)
            BY <1>11 DEF SameBut
        <3>6. Frequency(words', p) = Frequency(words, p) + Term(words', p, i) - Term(words, p, i)
            BY <1>3, <1>5, <1>12, <3>5, FrequencyStep
        <3>7. Frequency(words, p) \in Nat
            BY <1>3, FrequencyOccurs
        <3> HIDE DEF d, m, mm
        <3>8. c * mm = c * m + e
            BY <1>5, <2>2, <3>2, <3>3, Distribute DEF e
        <3>9. c * m \in Int
            BY <1>5, <3>3
        <3>10. Frequency(words', p) = Frequency(words, p) + e
            BY <2>2, <3>4, <3>6, <3>7, <3>8, <3>9
        <3> QED BY <2>1, <2>2, <2>4, <2>5, <2>6, <2>8, <3>7, <3>10
    <2> QED BY <2>7, <2>8
<1>25. NoMerged'
    <2> SUFFICES ASSUME NEW p \in Merged, NEW j \in DOMAIN words, Positions(words'[j].symbols, p) # {}
                 PROVE  phase = "update" /\ j \in todo \ {i} /\ p = Current
        BY <1>1, <1>2, <1>11 DEF NoMerged
    <2>0. \A k \in DOMAIN words : Positions(words[k].symbols, p) # {} => k \in todo /\ p = Current
        BY DEF TInv, NoMerged
    <2>1. CASE j = i
        <3>1. words'[j].symbols = v
            BY <1>11, <2>1
        <3>2. p[1] # NewId - 1 /\ p[2] # NewId - 1
            BY <1>9
        <3>3. p = Current \/ Positions(w, p) = {}
            BY <1>5, <2>0 DEF w
        <3>4. Positions(v, p) = {}
            BY <1>5, <1>7, <1>8, <3>2, <3>3, NothingArises DEF v
        <3> QED BY <3>1, <3>4
    <2>2. CASE j # i
        <3>1. words'[j] = words[j]
            BY <1>11, <2>2
        <3> QED BY <1>1, <2>0, <2>2, <3>1
    <2> QED BY <2>1, <2>2
<1>26. IndexCovers'
    <2>0. IndexCovers
        BY DEF TInv
    <2>1. DOMAIN queue' \subseteq DOMAIN within'
        BY <1>1, <1>19, <2>0 DEF IndexCovers
    <2>2. ASSUME NEW j \in DOMAIN words, NEW p, Positions(words'[j].symbols, p) # {}
          PROVE  p \in DOMAIN within' /\ j \in within'[p]
        <3>1. CASE j = i
            <4>1. Positions(v, p) # {}
                BY <1>11, <2>2, <3>1
            <4>2. PICK k \in Stay(w) : After(w, k) = p
                BY <1>5, <1>7, <4>1, PairsAfter DEF v
            <4>3. p \in Gained(w) \/ p = PairAt(w, k)
                BY <1>5, <1>8, <4>2, GainedOrThere
            <4>4. p = PairAt(w, k) => Positions(w, p) # {}
                BY DEF Positions, Stay
            <4>5. p = PairAt(w, k) => p \in DOMAIN within /\ i \in within[p]
                BY <1>5, <2>0, <4>4, Covered DEF w
            <4> QED BY <1>19, <1>20, <3>1, <4>3, <4>5
        <3>2. CASE j # i
            <4>1. Positions(words[j].symbols, p) # {}
                BY <1>11, <2>2, <3>2
            <4>2. p \in DOMAIN within /\ j \in within[p]
                BY <2>0, <4>1, Covered
            <4> QED BY <1>19, <4>2
        <3> QED BY <3>1, <3>2
    <2>3. ASSUME NEW j \in DOMAIN words, NEW k \in 1..(Len(words'[j].symbols) - 1)
          PROVE  PairAt(words'[j].symbols, k) \in DOMAIN within' /\ j \in within'[PairAt(words'[j].symbols, k)]
        <3> DEFINE p == PairAt(words'[j].symbols, k)
        <3>1. Positions(words'[j].symbols, p) # {}
            BY DEF Positions
        <3> HIDE DEF p
        <3>2. p \in DOMAIN within' /\ j \in within'[p]
            BY <2>2, <3>1
        <3> QED BY <3>2 DEF p
    <2> QED BY <1>11, <2>1, <2>3 DEF IndexCovers
<1> QED BY <1>22, <1>23, <1>24, <1>25, <1>26 DEF TInv

-----------------------------------------------------------------------------
LEMMA NextTInv == TInv /\ [Next]_vars => TInv'
<1> SUFFICES ASSUME TInv, [Next]_vars PROVE TInv'
    OBVIOUS
<1>1. CASE Pick
    BY <1>1, PickTInv
<1>2. CASE Stop
    BY <1>2, StopTInv
<1>3. ASSUME NEW i \in todo, UpdateWord(i) PROVE TInv'
    BY <1>3, UpdateTInv
<1>4. CASE Apply
    BY <1>4, ApplyTInv
<1>5. CASE UNCHANGED vars
    <2>1. NewId' = NewId /\ Symbols' = Symbols /\ Merged' = Merged /\ Current' = Current
        BY <1>5 DEF vars, NewId, Symbols, Merged, Current
    <2>2. TypesOK' /\ Steps'
        BY <1>5, <2>1 DEF vars, TInv, TypesOK, Steps
    <2>3. CountsAdd'
        <3>1. \A p : Pending(p)' = Pending(p)
            BY <1>5 DEF vars, Pending
        <3> QED BY <1>5, <2>1, <3>1 DEF vars, TInv, CountsAdd
    <2>4. NoMerged' /\ IndexCovers'
        BY <1>5, <2>1 DEF vars, TInv, NoMerged, IndexCovers
    <2> QED BY <2>2, <2>3, <2>4 DEF TInv
<1> QED BY <1>1, <1>2, <1>3, <1>4, <1>5 DEF Next, Finished

THEOREM TrainInvariant == Spec => []TInv
<1>1. Init => TInv
    BY InitTInv
<1>2. TInv /\ [Next]_vars => TInv'
    BY NextTInv
<1> QED BY <1>1, <1>2, PTL DEF Spec

(* Words, queue, sums and index only hold symbols that exist and words of the corpus. *)
THEOREM TrainTypeCorrect == Spec => []TypeOK
<1>1. TInv => TypeOK
    <2> SUFFICES ASSUME TInv PROVE TypeOK
        OBVIOUS
    <2>1. TypesOK
        BY DEF TInv
    <2>2. ASSUME NEW i \in DOMAIN words, NEW k \in DOMAIN words[i].symbols
          PROVE  words[i].symbols[k] \in 0..(NewId - 1)
        <3> DEFINE w == words[i].symbols
        <3>1. w \in Seq(Symbols)
            BY <2>1, WordTypes DEF TypesOK
        <3> HIDE DEF w
        <3>2. k \in DOMAIN w => w[k] \in Symbols
            BY <3>1
        <3> QED BY <3>2 DEF w, Symbols
    <2>3. DOMAIN queue \cup DOMAIN changes \subseteq Symbols \X Symbols
        BY <2>1 DEF TypesOK
    <2>4. \A p \in DOMAIN within : within[p] \subseteq DOMAIN words
        BY <2>1 DEF TypesOK
    <2> QED BY <2>1, <2>2, <2>3, <2>4 DEF TypesOK, TypeOK, Symbols
<1> QED BY <1>1, TrainInvariant, PTL

(* The index of words is a superset of what the words have: no merge leaves a word out,
   and the lookup of the pair taken from the queue never fails. *)
THEOREM NoWordIsMissed == Spec => []IndexCovers
<1>1. TInv => IndexCovers
    BY DEF TInv
<1> QED BY <1>1, TrainInvariant, PTL

(* Between two merges every count in the queue is the count of the corpus, for every
   corpus, every tie order and every order in which the words were updated. *)
LEMMA PickCounts == ASSUME TInv, phase = "pick" PROVE CountsExact
<1> SUFFICES ASSUME NEW p \in SymbolPairs(words) \cup DOMAIN queue
             PROVE  IF p \in Merged THEN Old(queue, p, 0) <= 0 /\ p \notin SymbolPairs(words)
                    ELSE p \in DOMAIN queue /\ queue[p] = Frequency(words, p)
    BY DEF CountsExact
<1>1. IsWords(words, Symbols) /\ queue \in [DOMAIN queue -> Int]
    BY DEF TInv, TypesOK
<1>2. Pending(p) = 0
    BY DEF Pending
<1>3. Old(queue, p, 0) \in Int
    BY <1>1, OldIsInt
<1>4. IF p \in Merged THEN Old(queue, p, 0) <= 0 ELSE Old(queue, p, 0) = Frequency(words, p)
    BY <1>2, <1>3 DEF TInv, CountsAdd
<1>5. Frequency(words, p) \in Nat /\ (Frequency(words, p) > 0 <=> p \in SymbolPairs(words))
    BY <1>1, FrequencyOccurs
<1>6. ASSUME p \in Merged PROVE p \notin SymbolPairs(words)
    <2> SUFFICES ASSUME NEW i \in DOMAIN words, p \in PairsOf(words[i].symbols) PROVE FALSE
        BY DEF SymbolPairs
    <2>1. Positions(words[i].symbols, p) # {}
        BY OccursIn
    <2> QED BY <1>6, <2>1 DEF TInv, NoMerged
<1>7. ASSUME p \notin Merged PROVE p \in DOMAIN queue /\ queue[p] = Frequency(words, p)
    <2>1. CASE p \in DOMAIN queue
        BY <1>4, <1>7, <2>1 DEF Old
    <2>2. CASE p \notin DOMAIN queue
        <3>1. p \in SymbolPairs(words)
            BY <2>2
        <3>2. Old(queue, p, 0) = 0
            BY <2>2 DEF Old
        <3> QED BY <1>4, <1>5, <1>7, <3>1, <3>2
    <2> QED BY <2>1, <2>2
<1> QED BY <1>4, <1>6, <1>7

THEOREM CountsStayExact == Spec => []CountsExact
<1>1. TInv => CountsExact
    BY PickCounts DEF CountsExact
<1> QED BY <1>1, TrainInvariant, PTL

-----------------------------------------------------------------------------
(* Incremental training implements counting from scratch. *)

(* The words as the merge under way will leave them. *)
Spelt == [i \in DOMAIN words |->
             IF i \in todo THEN [words[i] EXCEPT !.symbols = MergeWord(@, Current, NewId - 1)]
             ELSE words[i]]

(* The reference counts and merges by the same definitions. *)
LEMMA SameSizes == Naive!FirstNew = FirstNew /\ Naive!NewId = NewId
BY DEF FirstNew, Naive!FirstNew, NewId, Naive!NewId

LEMMA SamePairs ==
    ASSUME NEW ws
    PROVE  Naive!SymbolPairs(ws) = SymbolPairs(ws)
BY DEF SymbolPairs, PairsOf, PairAt, Naive!SymbolPairs, Naive!PairsOf, Naive!PairAt

LEMMA SameFrequency ==
    ASSUME NEW ws, NEW p
    PROVE  Naive!Frequency(ws, p) = Frequency(ws, p)
BY DEF Frequency, Positions, PairAt, Cardinality,
       Naive!Frequency, Naive!Positions, Naive!PairAt, Naive!Cardinality

LEMMA SameMerge ==
    ASSUME NEW w, NEW p, NEW new
    PROVE  Naive!MergeWord(w, p, new) = MergeWord(w, p, new)
BY DEF MergeWord, MergedAt, PairAt, Naive!MergeWord, Naive!MergedAt, Naive!PairAt

LEMMA SameOrder ==
    ASSUME NEW p, NEW q
    PROVE  Naive!Before(p, q) <=> Before(p, q)
BY DEF Before, Rank, Base, Naive!Before, Naive!Rank, Naive!Base

LEMMA NothingWaits == ASSUME TInv, phase # "update" PROVE Spelt = words
<1>1. todo = {} /\ words = [i \in DOMAIN words |-> words[i]]
    BY DEF TInv, TypesOK, Steps, IsWords
<1> QED BY <1>1 DEF Spelt

LEMMA NaiveInit == Init => Naive!Init
<1> SUFFICES ASSUME Init PROVE Naive!Init
    OBVIOUS
<1>1. Spelt = words
    BY InitTInv, NothingWaits DEF Init
<1> QED BY <1>1 DEF Init, Naive!Init, Spelt

LEMMA SeqWider ==
    ASSUME NEW S, NEW T, S \subseteq T, NEW w \in Seq(S)
    PROVE  w \in Seq(T)
OBVIOUS

(* The pair the queue gives out is the one that counting from scratch would choose, if
   there is any to choose. *)
LEMMA PickIsBest ==
    ASSUME TInv, phase = "pick", NEW pair \in DOMAIN queue, Smallest(pair)
    PROVE  /\ pair \in SymbolPairs(words) =>
                  \A q \in SymbolPairs(words) \ {pair} :
                      \/ Frequency(words, q) < Frequency(words, pair)
                      \/ Frequency(words, q) = Frequency(words, pair) /\ Before(pair, q)
           /\ pair \notin SymbolPairs(words) => SymbolPairs(words) = {}
<1>1. CountsExact /\ IsWords(words, Symbols) /\ queue \in [DOMAIN queue -> Int]
    BY PickCounts DEF TInv, TypesOK
<1>2. ASSUME NEW q \in SymbolPairs(words)
      PROVE  q \in DOMAIN queue /\ queue[q] = Frequency(words, q) /\ queue[q] > 0
    <2>1. Frequency(words, q) > 0
        BY <1>1, FrequencyOccurs
    <2>2. q \in DOMAIN queue /\ queue[q] = Frequency(words, q)
        BY <1>1 DEF CountsExact
    <2> QED BY <2>1, <2>2
<1>3. \A q \in DOMAIN queue : queue[q] <= queue[pair]
    BY DEF Smallest, Highest
<1>4. \A q \in DOMAIN queue : queue[q] \in Int
    BY <1>1
<1>5. ASSUME NEW q \in DOMAIN queue \ {pair}, queue[q] = queue[pair] PROVE Before(pair, q)
    <2>1. q \in Highest
        BY <1>3, <1>5 DEF Highest
    <2> QED BY <2>1 DEF Smallest
<1>6. ASSUME pair \in SymbolPairs(words), NEW q \in SymbolPairs(words) \ {pair}
      PROVE  \/ Frequency(words, q) < Frequency(words, pair)
             \/ Frequency(words, q) = Frequency(words, pair) /\ Before(pair, q)
    <2>1. queue[q] < queue[pair] \/ queue[q] = queue[pair]
        BY <1>2, <1>3, <1>4, <1>6
    <2> QED BY <1>2, <1>5, <1>6, <2>1
<1>7. ASSUME pair \notin SymbolPairs(words), NEW q \in SymbolPairs(words) PROVE FALSE
    <2>1. queue[pair] <= 0
        <3>1. CASE pair \in Merged
            BY <1>1, <3>1 DEF CountsExact, Old
        <3>2. CASE pair \notin Merged
            <4>1. queue[pair] = Frequency(words, pair)
                BY <1>1, <3>2 DEF CountsExact
            <4>2. Frequency(words, pair) \in Nat /\ ~(Frequency(words, pair) > 0)
                BY <1>1, <1>7, FrequencyOccurs
            <4> QED BY <4>1, <4>2
        <3> QED BY <3>1, <3>2
    <2>2. queue[q] > 0 /\ queue[q] <= queue[pair] /\ queue[q] \in Int /\ queue[pair] \in Int
        BY <1>2, <1>3, <1>4
    <2> QED BY <2>1, <2>2
<1> QED BY <1>6, <1>7

LEMMA PickIsNaive == ASSUME TInv, Pick PROVE Naive!Next
<1>1. PICK pair \in DOMAIN queue : Smallest(pair) /\ merges' = Append(merges, pair) /\ todo' = within[pair]
    BY DEF Pick
<1>2. phase = "pick" /\ NewId < VocabSize /\ words' = words
    BY DEF Pick
<1>3. Spelt = words
    BY <1>2, NothingWaits
<1>4. IsWords(words, Symbols) /\ merges \in Seq(Nat \X Nat) /\ pair \in Symbols \X Symbols /\ FirstNew \in Nat
    BY DEF TInv, TypesOK
<1>5. Current' = pair /\ NewId' = NewId + 1 /\ NewId \in Nat
    <2>1. pair \in Nat \X Nat
        BY <1>4 DEF Symbols
    <2>2. Len(merges') = Len(merges) + 1 /\ merges'[Len(merges) + 1] = pair /\ Len(merges) \in Nat
        BY <1>1, <1>4, <2>1, AppendProperties
    <2> QED BY <1>4, <2>2 DEF Current, NewId
<1>6. Spelt' = [i \in DOMAIN words |->
                   IF i \in within[pair] THEN [words[i] EXCEPT !.symbols = MergeWord(@, pair, NewId)]
                   ELSE words[i]]
    <2>1. NewId' - 1 = NewId
        BY <1>5
    <2>2. Spelt' = [i \in DOMAIN words' |->
                       IF i \in todo' THEN [words'[i] EXCEPT !.symbols = MergeWord(@, Current', NewId' - 1)]
                       ELSE words'[i]]
        BY DEF Spelt
    <2> QED BY <1>1, <1>2, <1>5, <2>1, <2>2
<1>7. \A i \in DOMAIN words : i \notin within[pair] =>
          [words[i] EXCEPT !.symbols = MergeWord(@, pair, NewId)] = words[i]
    <2> SUFFICES ASSUME NEW i \in DOMAIN words, i \notin within[pair]
                 PROVE  [words[i] EXCEPT !.symbols = MergeWord(@, pair, NewId)] = words[i]
        OBVIOUS
    <2> DEFINE w == words[i].symbols
    <2>1. Positions(w, pair) = {}
        BY Covered DEF TInv
    <2>2. w \in Seq(Symbols) /\ words[i] = [symbols |-> words[i].symbols, count |-> words[i].count]
        BY <1>4, WordTypes
    <2>a. Symbols \subseteq Nat
        BY <1>5 DEF Symbols
    <2>3. w \in Seq(Nat)
        BY <2>2, <2>a, SeqWider
    <2>4. MergeWord(w, pair, NewId) = w
        <3> HIDE DEF w
        <3> QED BY <1>5, <2>1, <2>3, MergeNothing
    <2> QED BY <2>2, <2>4
<1>8. Spelt' = [i \in DOMAIN words |-> [words[i] EXCEPT !.symbols = MergeWord(@, pair, NewId)]]
    BY <1>6, <1>7
<1>9. ~Naive!Full
    BY <1>2, <1>4, <1>5, SizesAssumption, SameSizes DEF Naive!Full
<1>10. CASE pair \in SymbolPairs(words)
    <2>1. Naive!Best(pair)
        <3>1. Naive!Best(pair) <=>
                  \A q \in Naive!SymbolPairs(Spelt) \ {pair} :
                      \/ Naive!Frequency(Spelt, q) < Naive!Frequency(Spelt, pair)
                      \/ Naive!Frequency(Spelt, q) = Naive!Frequency(Spelt, pair) /\ Naive!Before(pair, q)
            BY DEF Naive!Best, Spelt
        <3> QED BY <1>1, <1>2, <1>3, <1>10, <3>1, PickIsBest, SamePairs, SameFrequency, SameOrder
    <2>2. Spelt' = Naive!MergeAll(Spelt, pair, NewId)
        BY <1>3, <1>8, SameMerge DEF Naive!MergeAll
    <2>3. Naive!Train <=>
              /\ ~Naive!Full
              /\ \E p \in Naive!SymbolPairs(Spelt) :
                    /\ Naive!Best(p)
                    /\ Spelt' = Naive!MergeAll(Spelt, p, Naive!NewId)
                    /\ merges' = Append(merges, p)
        BY DEF Naive!Train, Spelt
    <2>4. Naive!Train
        BY <1>1, <1>3, <1>9, <1>10, <2>1, <2>2, <2>3, SamePairs, SameSizes
    <2> QED BY <2>4 DEF Naive!Next
<1>11. CASE pair \notin SymbolPairs(words)
    <2>1. SymbolPairs(words) = {}
        BY <1>1, <1>2, <1>11, PickIsBest
    <2>2. Spelt' = Spelt
        <3>1. \A i \in DOMAIN words : [words[i] EXCEPT !.symbols = MergeWord(@, pair, NewId)] = words[i]
            <4> SUFFICES ASSUME NEW i \in DOMAIN words
                         PROVE  [words[i] EXCEPT !.symbols = MergeWord(@, pair, NewId)] = words[i]
                OBVIOUS
            <4> DEFINE w == words[i].symbols
            <4>1. Positions(w, pair) = {}
                BY <1>11, OccursIn
            <4>2. w \in Seq(Symbols) /\ words[i] = [symbols |-> words[i].symbols, count |-> words[i].count]
                BY <1>4, WordTypes
            <4>a. Symbols \subseteq Nat
                BY <1>5 DEF Symbols
            <4>3. w \in Seq(Nat)
                BY <4>2, <4>a, SeqWider
            <4>4. MergeWord(w, pair, NewId) = w
                <5> HIDE DEF w
                <5> QED BY <1>5, <4>1, <4>3, MergeNothing
            <4> QED BY <4>2, <4>4
        <3>2. words = [i \in DOMAIN words |-> words[i]]
            BY <1>4 DEF IsWords
        <3> QED BY <1>3, <1>8, <3>1, <3>2
    <2>3. Naive!NewId = NewId /\ pair = <<pair[1], pair[2]>> /\ pair[1] \in 0..(NewId - 1) /\ pair[2] \in 0..(NewId - 1)
        BY <1>4, SameSizes DEF Symbols
    <2>4. \E p, q \in 0..(Naive!NewId - 1) : merges' = Append(merges, <<p, q>>)
        BY <1>1, <2>3
    <2>5. Naive!Fill <=>
              /\ ~Naive!Full
              /\ Naive!SymbolPairs(Spelt) = {}
              /\ \E p, q \in 0..(Naive!NewId - 1) : merges' = Append(merges, <<p, q>>)
              /\ Spelt' = Spelt
        BY DEF Naive!Fill, Spelt
    <2>6. Naive!Fill
        BY <1>3, <1>9, <2>1, <2>2, <2>4, <2>5, SamePairs
    <2> QED BY <2>6 DEF Naive!Next
<1> QED BY <1>10, <1>11

LEMMA UpdateIsSilent == ASSUME TInv, NEW i \in todo, UpdateWord(i) PROVE Spelt' = Spelt /\ merges' = merges
<1> DEFINE r(j) == [words[j] EXCEPT !.symbols = MergeWord(@, Current, NewId - 1)]
<1>1. /\ todo' = todo \ {i} /\ merges' = merges
      /\ words' = [words EXCEPT ![i].symbols = MergeWord(@, Current, NewId - 1)]
    BY DEF UpdateWord
<1>2. Current' = Current /\ NewId' = NewId
    BY <1>1 DEF Current, NewId
<1>3. i \in DOMAIN words
    BY DEF TInv, TypesOK
<1>4. DOMAIN words' = DOMAIN words /\ words'[i] = r(i) /\ \A j \in DOMAIN words \ {i} : words'[j] = words[j]
    BY <1>1, <1>3
<1>5. Spelt = [j \in DOMAIN words |-> IF j \in todo THEN r(j) ELSE words[j]]
    BY DEF Spelt
<1> DEFINE s(j) == [words'[j] EXCEPT !.symbols = MergeWord(@, Current, NewId - 1)]
<1>6. Spelt' = [j \in DOMAIN words |-> IF j \in todo \ {i} THEN s(j) ELSE words'[j]]
    BY <1>1, <1>2, <1>4 DEF Spelt
<1>7. \A j \in DOMAIN words \ {i} : s(j) = r(j)
    BY <1>4
<1> HIDE DEF r, s
<1> QED BY <1>1, <1>4, <1>5, <1>6, <1>7

LEMMA NaiveStep == ASSUME TInv, [Next]_vars PROVE [Naive!Next]_<<Spelt, merges>>
<1>1. CASE Pick
    BY <1>1, PickIsNaive
<1>2. ASSUME NEW i \in todo, UpdateWord(i) PROVE Spelt' = Spelt /\ merges' = merges
    BY <1>2, UpdateIsSilent
<1>3. CASE Stop \/ Apply \/ UNCHANGED vars
    <2>1. words' = words /\ merges' = merges /\ todo' = todo
        BY <1>3 DEF Stop, Apply, vars
    <2>2. Current' = Current /\ NewId' = NewId
        BY <2>1 DEF Current, NewId
    <2> QED BY <2>1, <2>2 DEF Spelt
<1> QED BY <1>1, <1>2, <1>3 DEF Next, Finished

(* Every merge is the merge that counting every pair from scratch would have made,
   applied to every word. *)
THEOREM TrainingIsNaive == Spec => ImplementsNaive
<1>1. Init => Naive!Init
    BY NaiveInit
<1>2. TInv /\ [Next]_vars => [Naive!Next]_<<Spelt, merges>>
    BY NaiveStep
<1>3. Spec => Naive!Init /\ [][Naive!Next]_<<Spelt, merges>>
    BY <1>1, <1>2, TrainInvariant, PTL DEF Spec
<1>4. ImplementsNaive <=> Naive!Init /\ [][Naive!Next]_<<Spelt, merges>>
    BY DEF ImplementsNaive, Naive!Spec, Spelt
<1> QED BY <1>3, <1>4
=============================================================================
