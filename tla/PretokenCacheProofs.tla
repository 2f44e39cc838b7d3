------------------------- MODULE PretokenCacheProofs -------------------------
(***************************************************************************)
(* Theorems about PretokenCache: whatever the vocabulary, the budgets and  *)
(* the sizes, the caches never affect what an encode returns.              *)
(***************************************************************************)
EXTENDS PretokenCache, FiniteSetTheorems, SequenceTheorems, WellFoundedInduction, TLAPS

Tokens == Pretokens \X {-1, 0} \cup Pretokens \X Nat
Entries == [inline: Seq(Tokens), at: Nat, len: Nat]

(* A well-formed cache. *)
IsCache(ca) ==
    /\ ca = [short |-> ca.short, cap |-> ca.cap, arena |-> ca.arena, long |-> ca.long]
    /\ ca.arena \in Seq(Tokens)
    /\ DOMAIN ca.short \subseteq Short /\ \A p \in DOMAIN ca.short : ca.short[p] \in Entries
    /\ DOMAIN ca.long \subseteq Long /\ \A p \in DOMAIN ca.long : ca.long[p] \in Entries

(* Entry e of ca stands for toks. *)
StandsFor(ca, e, toks) == e.at + e.len <= Len(ca.arena) /\ Value(ca, e) = toks

(* The arena of cb goes on where that of ca ends. *)
GoesOn(ca, cb) ==
    /\ Len(ca.arena) <= Len(cb.arena)
    /\ \A i \in 1..Len(ca.arena) : cb.arena[i] = ca.arena[i]

(* cb is ca with toks[p] under p for each p of ps. *)
HasPut(ca, cb, ps, toks) ==
    /\ IsCache(cb) /\ cb.long = ca.long /\ GoesOn(ca, cb)
    /\ DOMAIN cb.short = DOMAIN ca.short \cup ps
    /\ \A q \in DOMAIN ca.short \ ps : cb.short[q] = ca.short[q]
    /\ \A q \in ps : StandsFor(cb, cb.short[q], toks[q])

-----------------------------------------------------------------------------
(* The least element of a set of numbers. *)
LEMMA LeastElement ==
    ASSUME NEW S \in SUBSET Nat, S # {}
    PROVE  \E n \in S : \A m \in S : n <= m
<1>1. IsWellFoundedOn(OpToRel(<, Nat), Nat)
  BY NatLessThanWellFounded
<1>2. PICK n \in S : \A m \in S : ~ (<<m, n>> \in OpToRel(<, Nat))
  BY <1>1, WFMin
<1>3. \A m \in S : ~ (m < n)
  BY <1>2 DEF OpToRel
<1> QED
  BY <1>3

(* Two sequences that agree from m to n. *)
LEMMA SubSeqEqual ==
    ASSUME NEW S, NEW s, NEW t, NEW m \in Int, NEW n \in Int,
           \A i \in m..n : s[i] = t[i] /\ s[i] \in S
    PROVE  SubSeq(s, m, n) = SubSeq(t, m, n)
<1>1. \A i \in m..n : s[i] \in S /\ t[i] \in S
  OBVIOUS
<1>2. /\ SubSeq(s, m, n) \in Seq(S) /\ SubSeq(t, m, n) \in Seq(S)
      /\ Len(SubSeq(s, m, n)) = Len(SubSeq(t, m, n))
      /\ Len(SubSeq(s, m, n)) = IF m <= n THEN n - m + 1 ELSE 0
      /\ \A i \in 1..(n - m + 1) : /\ SubSeq(s, m, n)[i] = s[m + i - 1]
                                   /\ SubSeq(t, m, n)[i] = t[m + i - 1]
  BY <1>1, SubSeqProperties
<1>3. \A i \in 1..(n - m + 1) : m + i - 1 \in m..n
  OBVIOUS
<1>4. \A i \in 1..Len(SubSeq(s, m, n)) : SubSeq(s, m, n)[i] = SubSeq(t, m, n)[i]
  BY <1>2, <1>3
<1> QED
  BY <1>2, <1>4, SeqEqual

LEMMA SubSeqIs ==
    ASSUME NEW S, NEW s, NEW t \in Seq(S), NEW m \in Int, NEW n \in Int, n - m + 1 = Len(t),
           \A i \in m..n : s[i] = t[i - m + 1] /\ t[i - m + 1] \in S
    PROVE  SubSeq(s, m, n) = t
<1>1. \A i \in m..n : s[i] \in S
  OBVIOUS
<1>2. /\ SubSeq(s, m, n) \in Seq(S)
      /\ Len(SubSeq(s, m, n)) = IF m <= n THEN n - m + 1 ELSE 0
      /\ \A i \in 1..(n - m + 1) : SubSeq(s, m, n)[i] = s[m + i - 1]
  BY <1>1, SubSeqProperties
<1>3. Len(t) \in Nat /\ Len(SubSeq(s, m, n)) = Len(t)
  BY <1>2
<1>4. \A i \in 1..Len(t) : SubSeq(s, m, n)[i] = t[i]
  <2> TAKE i \in 1..Len(t)
  <2>1. m + i - 1 \in m..n /\ (m + i - 1) - m + 1 = i
    BY <1>3
  <2> QED
    BY <1>2, <2>1
<1> QED
  BY <1>2, <1>3, <1>4, SeqEqual

(* What an entry stands for does not change while the arena only grows. *)
LEMMA StandsOn ==
    ASSUME NEW ca, NEW cb, ca.arena \in Seq(Tokens), cb.arena \in Seq(Tokens), GoesOn(ca, cb),
           NEW e \in Entries, NEW toks, StandsFor(ca, e, toks)
    PROVE  StandsFor(cb, e, toks)
<1> DEFINE m == e.at + 1
           n == e.at + e.len
<1>1. /\ e.at \in Nat /\ e.len \in Nat /\ m \in Nat \ {0} /\ n \in Nat
      /\ Len(ca.arena) \in Nat /\ Len(cb.arena) \in Nat
      /\ n <= Len(ca.arena) /\ n <= Len(cb.arena)
  BY DEF Entries, StandsFor, GoesOn
<1>2. e.len # 0 => SubSeq(cb.arena, m, n) = SubSeq(ca.arena, m, n)
  <2>1. \A i \in m..n : cb.arena[i] = ca.arena[i]
    BY <1>1 DEF GoesOn
  <2>2. \A i \in m..n : ca.arena[i] \in Tokens /\ cb.arena[i] \in Tokens
    <3> TAKE i \in m..n
    <3>1. i \in 1..Len(ca.arena) /\ i \in 1..Len(cb.arena)
      BY <1>1
    <3> QED
      BY <3>1, ElementOfSeq
  <2> HIDE DEF m, n
  <2>3. \A i \in 1..(n - m + 1) : m + i - 1 \in m..n
    BY <1>1
  <2> QED
    BY <1>1, <2>1, <2>2, <2>3, SubSeqEqual
<1> QED
  BY <1>1, <1>2 DEF StandsFor, Value

LEMMA GoesOnAfter ==
    ASSUME NEW ca, NEW cb, NEW cc, GoesOn(ca, cb), GoesOn(cb, cc),
           ca.arena \in Seq(Tokens), cb.arena \in Seq(Tokens), cc.arena \in Seq(Tokens)
    PROVE  GoesOn(ca, cc)
<1>1. Len(ca.arena) \in Nat /\ Len(cb.arena) \in Nat /\ Len(cc.arena) \in Nat
  OBVIOUS
<1>2. \A i \in 1..Len(ca.arena) : i \in 1..Len(cb.arena)
  BY <1>1 DEF GoesOn
<1> QED
  BY <1>1, <1>2 DEF GoesOn

(* The arena grows by appending. *)
LEMMA AppendGoesOn ==
    ASSUME NEW ca, NEW cb, ca.arena \in Seq(Tokens), NEW toks \in Seq(Tokens),
           cb.arena = ca.arena \o toks
    PROVE  /\ cb.arena \in Seq(Tokens) /\ GoesOn(ca, cb)
           /\ Len(cb.arena) = Len(ca.arena) + Len(toks)
           /\ toks # <<>> => StandsFor(cb, Spill(Len(ca.arena), Len(toks)), toks)
<1>1. /\ Len(ca.arena) \in Nat /\ Len(toks) \in Nat
      /\ cb.arena \in Seq(Tokens) /\ Len(cb.arena) = Len(ca.arena) + Len(toks)
      /\ \A i \in 1..(Len(ca.arena) + Len(toks)) :
            cb.arena[i] = IF i <= Len(ca.arena) THEN ca.arena[i] ELSE toks[i - Len(ca.arena)]
  BY ConcatProperties
<1>2. GoesOn(ca, cb)
  BY <1>1 DEF GoesOn
<1>3. ASSUME toks # <<>> PROVE StandsFor(cb, Spill(Len(ca.arena), Len(toks)), toks)
  <2> DEFINE m == Len(ca.arena) + 1
             n == Len(ca.arena) + Len(toks)
  <2>1. Len(toks) # 0
    BY <1>3, EmptySeq
  <2>2. m \in Int /\ n \in Int /\ n - m + 1 = Len(toks)
    BY <1>1
  <2>3. \A i \in m..n : cb.arena[i] = toks[i - m + 1] /\ toks[i - m + 1] \in Tokens
    <3> TAKE i \in m..n
    <3>1. i \in 1..(Len(ca.arena) + Len(toks)) /\ ~(i <= Len(ca.arena)) /\ i - m + 1 \in 1..Len(toks)
          /\ i - m + 1 = i - Len(ca.arena)
      BY <1>1
    <3>2. toks[i - m + 1] \in Tokens
      BY <3>1, ElementOfSeq
    <3> QED
      BY <1>1, <3>1, <3>2
  <2> HIDE DEF m, n
  <2>4. ASSUME NEW s, s = cb.arena PROVE SubSeq(s, m, n) = toks
    <3>1. \A i \in m..n : s[i] = toks[i - m + 1] /\ toks[i - m + 1] \in Tokens
      BY <2>3, <2>4
    <3> HIDE <2>4
    <3> QED
      BY ONLY <2>2, <3>1, SubSeqIs, toks \in Seq(Tokens)
  <2>5. SubSeq(cb.arena, m, n) = toks
    BY <2>4
  <2>6. /\ Spill(Len(ca.arena), Len(toks)).at = Len(ca.arena)
        /\ Spill(Len(ca.arena), Len(toks)).len = Len(toks)
    BY DEF Spill
  <2> HIDE DEF m, n
  <2>7. Value(cb, Spill(Len(ca.arena), Len(toks))) = SubSeq(cb.arena, m, n)
    BY <2>1, <2>6 DEF Value, m, n
  <2> QED
    BY <1>1, <2>5, <2>6, <2>7 DEF StandsFor
<1> QED
  BY <1>1, <1>2, <1>3

(* One entry is put; the others stand for what they did. *)
LEMMA PutFacts ==
    ASSUME NEW ca, IsCache(ca), NEW p \in Short, NEW toks, toks[p] \in Seq(Tokens)
    PROVE  HasPut(ca, Put(ca, p, toks[p]), {p}, toks)
<1> DEFINE t == toks[p]
           cb == Put(ca, p, t)
           e == IF Len(t) <= InlineMax THEN Inline(t) ELSE Spill(Len(ca.arena), Len(t))
<1>1. /\ cb.short = [q \in DOMAIN ca.short \cup {p} |-> IF q = p THEN e ELSE ca.short[q]]
      /\ cb.arena = IF e.len = 0 THEN ca.arena ELSE ca.arena \o t
      /\ cb.long = ca.long
      /\ cb = [short |-> cb.short, cap |-> cb.cap, arena |-> cb.arena, long |-> cb.long]
  <2> DEFINE cap == IF p \in DOMAIN ca.short THEN ca.cap
                    ELSE IF (Cardinality(DOMAIN ca.short) + 1) * 4 > ca.cap * 3 THEN 2 * ca.cap ELSE ca.cap
             short == [q \in DOMAIN ca.short \cup {p} |-> IF q = p THEN e ELSE ca.short[q]]
             arena == IF e.len = 0 THEN ca.arena ELSE ca.arena \o t
  <2> HIDE DEF t, e
  <2>1. ca = [short |-> ca.short, cap |-> ca.cap, arena |-> ca.arena, long |-> ca.long]
    BY DEF IsCache
  <2>2. cb = [ca EXCEPT !.short = short, !.cap = cap, !.arena = arena]
    BY DEF Put, e
  <2> HIDE DEF short, cap, arena, cb
  <2>3. cb = [short |-> short, cap |-> cap, arena |-> arena, long |-> ca.long]
    BY <2>1, <2>2
  <2> QED
    BY <2>3 DEF short, arena
<1>2. Len(ca.arena) \in Nat /\ Len(t) \in Nat /\ InlineMax \in Nat /\ t \in Seq(Tokens)
      /\ ca.arena \in Seq(Tokens)
  BY PretokensAssumption DEF IsCache
<1> HIDE DEF t, cb
<1>3. /\ e \in Entries /\ cb.arena \in Seq(Tokens) /\ GoesOn(ca, cb) /\ StandsFor(cb, e, t)
  <2>1. CASE Len(t) <= InlineMax
    <3>1. e = [inline |-> t, at |-> 0, len |-> 0] /\ cb.arena = ca.arena
      BY <1>1, <2>1 DEF Inline
    <3> QED
      BY <1>2, <3>1 DEF Entries, GoesOn, StandsFor, Value
  <2>2. CASE ~(Len(t) <= InlineMax)
    <3>1. e = Spill(Len(ca.arena), Len(t)) /\ e.len # 0 /\ t # <<>>
      BY <1>2, <2>2 DEF Spill
    <3>2. cb.arena = ca.arena \o t
      BY <1>1, <3>1
    <3>3. e \in Entries
      <4>1. <<>> \in Seq(Tokens) /\ Len(ca.arena) \in Nat /\ Len(t) \in Nat
        BY <1>2
      <4>2. e = [inline |-> <<>>, at |-> Len(ca.arena), len |-> Len(t)]
        BY <3>1 DEF Spill
      <4> HIDE DEF e
      <4> QED
        BY <4>1, <4>2 DEF Entries
    <3> QED
      BY <1>2, <3>1, <3>2, <3>3, AppendGoesOn
  <2> QED
    BY <2>1, <2>2
<1> HIDE DEF e
<1>4. IsCache(cb)
  BY <1>1, <1>3 DEF IsCache
<1>5. HasPut(ca, cb, {p}, toks)
  BY <1>1, <1>3, <1>4 DEF HasPut, t
<1> QED
  BY <1>5 DEF cb, t
(* Nothing put. *)
LEMMA HasPutNone ==
    ASSUME NEW ca, IsCache(ca), NEW toks
    PROVE  HasPut(ca, ca, {}, toks)
<1>1. Len(ca.arena) \in Nat
  BY DEF IsCache
<1> QED
  BY <1>1 DEF HasPut, GoesOn

(* What is put in two goes. *)
LEMMA HasPutAfter ==
    ASSUME NEW ca, NEW cb, NEW cc, IsCache(ca), NEW ps, NEW qs, NEW toks,
           HasPut(ca, cb, ps, toks), HasPut(cb, cc, qs, toks)
    PROVE  HasPut(ca, cc, ps \cup qs, toks)
<1>1. /\ ca.arena \in Seq(Tokens) /\ cb.arena \in Seq(Tokens) /\ cc.arena \in Seq(Tokens)
      /\ IsCache(cb) /\ IsCache(cc) /\ GoesOn(ca, cb) /\ GoesOn(cb, cc)
  BY DEF HasPut, IsCache
<1>2. GoesOn(ca, cc)
  BY <1>1, GoesOnAfter
<1>3. ASSUME NEW q \in ps \cup qs PROVE StandsFor(cc, cc.short[q], toks[q])
  <2>1. CASE q \in qs
    BY <2>1 DEF HasPut
  <2>2. CASE q \notin qs
    <3>1. q \in ps /\ q \in DOMAIN cb.short /\ cc.short[q] = cb.short[q]
      BY <2>2, <1>3 DEF HasPut
    <3>2. StandsFor(cb, cb.short[q], toks[q]) /\ cb.short[q] \in Entries
      BY <3>1, <1>1 DEF HasPut, IsCache
    <3>3. StandsFor(cc, cb.short[q], toks[q])
      BY <1>1, <3>2, StandsOn
    <3> QED
      BY <3>1, <3>3
  <2> QED
    BY <2>1, <2>2
<1>4. ASSUME NEW q \in DOMAIN ca.short \ (ps \cup qs) PROVE cc.short[q] = ca.short[q]
  BY DEF HasPut
<1>5. cc.long = ca.long /\ DOMAIN cc.short = DOMAIN ca.short \cup (ps \cup qs)
  BY DEF HasPut
<1> QED
  BY <1>1, <1>2, <1>3, <1>4, <1>5 DEF HasPut

-----------------------------------------------------------------------------
(* PutAll goes over a set one element at a time: the cache of s from that of s
   less one. *)
PutStep(g, s, ca, toks) ==
    IF s = {} THEN ca ELSE LET p == CHOOSE p \in s : TRUE IN Put(g[s \ {p}], p, toks[p])

LEMMA PutAllFold ==
    ASSUME NEW ca, NEW toks
    PROVE  PutAll(ca, toks) =
               (CHOOSE g : g = [s \in SUBSET DOMAIN toks |-> PutStep(g, s, ca, toks)])[DOMAIN toks]
BY DEF PutAll, FoldSet, MapThenFoldSet, PutStep

(* A set less one of its elements. *)
LEMMA OneLess ==
    ASSUME NEW s, IsFiniteSet(s), s # {}
    PROVE  LET p == CHOOSE p \in s : TRUE
           IN  p \in s /\ IsFiniteSet(s \ {p}) /\ Cardinality(s) \in Nat
               /\ Cardinality(s \ {p}) = Cardinality(s) - 1
<1> DEFINE p == CHOOSE p \in s : TRUE
<1>1. p \in s
  OBVIOUS
<1> HIDE DEF p
<1>2. IsFiniteSet(s \ {p}) /\ Cardinality(s) \in Nat /\ Cardinality(s \ {p}) = Cardinality(s) - 1
  BY <1>1, FS_RemoveElement, FS_CardinalityType
<1> QED
  BY <1>1, <1>2 DEF p

(* The walk over a finite set is well defined. *)
LEMMA FoldExists ==
    ASSUME NEW D, IsFiniteSet(D), NEW ca, NEW toks
    PROVE  \E g : g = [s \in SUBSET D |-> PutStep(g, s, ca, toks)]
<1> DEFINE Upto(n) == {s \in SUBSET D : Cardinality(s) <= n}
           Walk(g, n) == g = [s \in Upto(n) |-> PutStep(g, s, ca, toks)]
           bad == {n \in Nat : ~ \E g : Walk(g, n)}
<1>0. \A s \in SUBSET D : IsFiniteSet(s) /\ Cardinality(s) \in Nat /\ Cardinality(s) <= Cardinality(D)
  BY FS_Subset, FS_CardinalityType
<1>1. bad = {}
  <2> SUFFICES ASSUME bad # {} PROVE FALSE
    OBVIOUS
  <2>1. PICK n \in bad : \A m \in bad : n <= m
    BY LeastElement
  <2>2. n \in Nat /\ ~ \E g : Walk(g, n)
    OBVIOUS
  <2>3. CASE n = 0
    <3>1. \A s \in Upto(n) : s = {}
      BY <1>0, <2>3, FS_EmptySet
    <3> DEFINE g == [s \in Upto(n) |-> ca]
    <3>2. \A s \in Upto(n) : PutStep(g, s, ca, toks) = ca
      BY <3>1 DEF PutStep
    <3> HIDE DEF Upto
    <3>3. Walk(g, n)
      BY <3>2
    <3> QED
      BY <2>2, <3>3
  <2>4. CASE n # 0
    <3>1. n - 1 \in Nat /\ n - 1 \notin bad
      <4> HIDE DEF bad
      <4> QED
        BY <2>1, <2>2, <2>4
    <3>2. PICK h : Walk(h, n - 1)
      BY <3>1
    <3> DEFINE g == [s \in Upto(n) |-> PutStep(h, s, ca, toks)]
    <3>3. \A s \in Upto(n) : PutStep(g, s, ca, toks) = PutStep(h, s, ca, toks)
      <4> SUFFICES ASSUME NEW s \in Upto(n), s # {}
                   PROVE  PutStep(g, s, ca, toks) = PutStep(h, s, ca, toks)
        BY DEF PutStep
      <4> DEFINE p == CHOOSE p \in s : TRUE
      <4>1. p \in s /\ Cardinality(s \ {p}) = Cardinality(s) - 1 /\ Cardinality(s) \in Nat
        BY <1>0, OneLess
      <4> HIDE DEF p, g
      <4>2. s \ {p} \in Upto(n - 1) /\ s \ {p} \in Upto(n)
        BY <1>0, <4>1, <2>2
      <4> HIDE DEF Upto
      <4>3. h[s \ {p}] = PutStep(h, s \ {p}, ca, toks)
        BY <3>2, <4>2
      <4>4. g[s \ {p}] = PutStep(h, s \ {p}, ca, toks)
        BY <4>2 DEF g
      <4> QED
        BY <4>3, <4>4 DEF PutStep, p
    <3> HIDE DEF Upto
    <3>4. [s \in Upto(n) |-> PutStep(g, s, ca, toks)] = [s \in Upto(n) |-> PutStep(h, s, ca, toks)]
      <4> HIDE DEF g
      <4> QED
        BY <3>3
    <3>5. Walk(g, n)
      BY <3>4
    <3> QED
      BY <2>2, <3>5
  <2> QED
    BY <2>3, <2>4
<1>2. Cardinality(D) \in Nat
  BY FS_CardinalityType
<1>3. PICK g : Walk(g, Cardinality(D))
  BY <1>1, <1>2
<1>4. Upto(Cardinality(D)) = SUBSET D
  BY <1>0
<1> QED
  BY <1>3, <1>4

(* PutAll puts what it is given. *)
LEMMA PutAllFacts ==
    ASSUME NEW ca, IsCache(ca), NEW toks, DOMAIN toks \subseteq Short,
           \A p \in DOMAIN toks : toks[p] \in Seq(Tokens)
    PROVE  HasPut(ca, PutAll(ca, toks), DOMAIN toks, toks)
<1> DEFINE D == DOMAIN toks
           g == CHOOSE g : g = [s \in SUBSET D |-> PutStep(g, s, ca, toks)]
<1>1. IsFiniteSet(D)
  BY PretokensAssumption, FS_Subset DEF Pretokens
<1> HIDE DEF D
<1>2. g = [s \in SUBSET D |-> PutStep(g, s, ca, toks)]
  BY <1>1, FoldExists
<1>3. PutAll(ca, toks) = g[D]
  BY PutAllFold DEF D
<1> HIDE DEF g
<1> DEFINE bad == {n \in Nat : \E s \in SUBSET D : Cardinality(s) = n /\ ~HasPut(ca, g[s], s, toks)}
<1>4. bad = {}
  <2> SUFFICES ASSUME bad # {} PROVE FALSE
    OBVIOUS
  <2>1. PICK n \in bad : \A m \in bad : n <= m
    BY LeastElement
  <2>2. PICK s \in SUBSET D : Cardinality(s) = n /\ ~HasPut(ca, g[s], s, toks)
    BY <2>1
  <2>3. g[s] = PutStep(g, s, ca, toks) /\ IsFiniteSet(s)
    BY <1>1, <1>2, FS_Subset
  <2>4. s # {}
    BY <2>2, <2>3, HasPutNone DEF PutStep
  <2> DEFINE p == CHOOSE p \in s : TRUE
             r == s \ {p}
  <2>5. p \in s /\ IsFiniteSet(r) /\ Cardinality(s) \in Nat /\ Cardinality(r) = Cardinality(s) - 1
    BY <2>3, <2>4, OneLess
  <2>6. g[s] = Put(g[r], p, toks[p])
    BY <2>3, <2>4 DEF PutStep
  <2> HIDE DEF p
  <2>7. Cardinality(r) \in Nat /\ Cardinality(r) < n /\ r \in SUBSET D
    BY <2>2, <2>5, FS_CardinalityType
  <2> HIDE DEF r
  <2>8. HasPut(ca, g[r], r, toks)
    BY <2>1, <2>7
  <2>9. p \in Short /\ toks[p] \in Seq(Tokens) /\ IsCache(g[r])
    BY <2>5, <2>8 DEF D, HasPut
  <2>10. HasPut(g[r], g[s], {p}, toks)
    BY <2>6, <2>9, PutFacts
  <2>11. HasPut(ca, g[s], r \cup {p}, toks)
    BY <2>8, <2>10, HasPutAfter
  <2> QED
    BY <2>2, <2>5, <2>11 DEF r
<1>5. Cardinality(D) \in Nat
  BY <1>1, FS_CardinalityType
<1> QED
  BY <1>3, <1>4, <1>5 DEF D
-----------------------------------------------------------------------------
(* The sizes of tables: powers of two.                                        *)

(* d is from, doubled up to n times. *)
Doubles(d, from, n) == d = [k \in 0..n |-> IF k = 0 THEN from ELSE 2 * d[k - 1]]

(* d is from, doubled n times. *)
IsDoubling(d, from, n) ==
    /\ d \in [0..n -> Nat \ {0}] /\ d[0] = from
    /\ \A k \in 1..n : d[k] = 2 * d[k - 1]

LEMMA DoublesExist ==
    ASSUME NEW from, NEW n \in Nat
    PROVE  \E d : Doubles(d, from, n)
<1> DEFINE bad == {m \in Nat : ~ \E d : Doubles(d, from, m)}
<1> SUFFICES ASSUME bad # {} PROVE FALSE
  OBVIOUS
<1>1. PICK m \in bad : \A i \in bad : m <= i
  BY LeastElement
<1>2. m \in Nat /\ ~ \E d : Doubles(d, from, m)
  OBVIOUS
<1>3. CASE m = 0
  <2> DEFINE d == [k \in 0..0 |-> from]
  <2>1. Doubles(d, from, 0)
    BY DEF Doubles
  <2> QED
    BY <1>2, <1>3, <2>1
<1>4. CASE m # 0
  <2>1. m - 1 \in Nat /\ m - 1 \notin bad
    <3> HIDE DEF bad
    <3> QED
      BY <1>1, <1>2, <1>4
  <2>2. PICK h : Doubles(h, from, m - 1)
    BY <2>1
  <2> DEFINE d == [k \in 0..m |-> IF k = 0 THEN from ELSE 2 * h[k - 1]]
  <2>3. \A k \in 0..(m - 1) : h[k] = IF k = 0 THEN from ELSE 2 * h[k - 1]
    BY <2>2 DEF Doubles
  <2>4. ASSUME NEW k \in 0..m, k # 0 PROVE d[k - 1] = h[k - 1]
    <3>1. k - 1 \in 0..(m - 1) /\ k - 1 \in 0..m
      BY <1>2, <2>4
    <3>2. d[k - 1] = IF k - 1 = 0 THEN from ELSE 2 * h[(k - 1) - 1]
      BY <3>1
    <3> QED
      BY <2>3, <3>1, <3>2
  <2>5. Doubles(d, from, m)
    <3>1. \A k \in 0..m : (IF k = 0 THEN from ELSE 2 * h[k - 1]) = (IF k = 0 THEN from ELSE 2 * d[k - 1])
      BY <2>4
    <3> DEFINE r == [k \in 0..m |-> IF k = 0 THEN from ELSE 2 * d[k - 1]]
    <3>2. d = r
      BY <3>1
    <3> HIDE DEF d
    <3> QED
      BY <3>2 DEF Doubles
  <2> QED
    BY <1>2, <2>5
<1> QED
  BY <1>3, <1>4

(* The same set, with a name for the doubling. *)
LEMMA DoublingsFacts ==
    ASSUME NEW from \in Nat \ {0}, NEW n \in Nat
    PROVE  \E d : IsDoubling(d, from, n) /\ Doublings(from, n) = {d[k] : k \in 0..n}
<1> DEFINE d == CHOOSE d : Doubles(d, from, n)
<1>1. Doubles(d, from, n)
  BY DoublesExist
<1>2. Doublings(from, n) = {d[k] : k \in 0..n}
  BY DEF Doublings, Doubles
<1> HIDE DEF d
<1>3. d = [k \in 0..n |-> IF k = 0 THEN from ELSE 2 * d[k - 1]]
  BY <1>1 DEF Doubles
<1>4. d[0] = from /\ \A k \in 1..n : d[k] = 2 * d[k - 1]
  <2>1. \A k \in 0..n : d[k] = IF k = 0 THEN from ELSE 2 * d[k - 1]
    BY <1>3
  <2>2. 0 \in 0..n /\ \A k \in 1..n : k \in 0..n /\ k # 0
    OBVIOUS
  <2> QED
    BY <2>1, <2>2
<1>5. \A k \in 0..n : d[k] \in Nat \ {0}
  <2> DEFINE bad == {k \in 0..n : d[k] \notin Nat \ {0}}
  <2> SUFFICES ASSUME bad # {} PROVE FALSE
    OBVIOUS
  <2>1. PICK k \in bad : \A i \in bad : k <= i
    <3>1. bad \in SUBSET Nat
      OBVIOUS
    <3> HIDE DEF bad
    <3> QED
      BY <3>1, LeastElement
  <2>2. k \in 0..n /\ d[k] \notin Nat \ {0} /\ k # 0
    BY <1>4
  <2>3. k - 1 \in 0..n /\ k - 1 \notin bad /\ k \in 1..n
    <3>1. k \in Nat
      BY <2>2
    <3> HIDE DEF bad
    <3> QED
      BY <2>1, <2>2, <3>1
  <2>4. d[k - 1] \in Nat \ {0} /\ d[k] = 2 * d[k - 1]
    BY <1>4, <2>3
  <2> QED
    BY <2>2, <2>4
<1>6. d \in [0..n -> Nat \ {0}]
  BY <1>3, <1>5
<1> QED
  BY <1>2, <1>4, <1>6 DEF IsDoubling

PowerOfTwo(x) == \E n \in Nat : x \in Doublings(1, n)

(* Doubling up to n times says the same of the first steps as doubling more often. *)
LEMMA SameDoubles ==
    ASSUME NEW n \in Nat, NEW m \in Nat, NEW from, NEW d, NEW e,
           IsDoubling(d, from, n), IsDoubling(e, from, m)
    PROVE  \A k \in 0..n : k <= m => d[k] = e[k]
<1> DEFINE bad == {k \in 0..n : k <= m /\ d[k] # e[k]}
<1> SUFFICES ASSUME bad # {} PROVE FALSE
  OBVIOUS
<1>1. PICK k \in bad : \A i \in bad : k <= i
  <2>1. bad \in SUBSET Nat
    OBVIOUS
  <2> HIDE DEF bad
  <2> QED
    BY <2>1, LeastElement
<1>2. k \in 1..n /\ k \in 1..m /\ d[k] # e[k] /\ k \in Nat
  BY DEF IsDoubling
<1>3. k - 1 \in 0..n /\ k - 1 <= m /\ k - 1 \notin bad
  <2> HIDE DEF bad
  <2> QED
    BY <1>1, <1>2
<1>4. d[k - 1] = e[k - 1]
  BY <1>3
<1> HIDE DEF bad
<1> QED
  BY <1>2, <1>4 DEF IsDoubling

(* Later doublings are larger. *)
LEMMA DoublesGrow ==
    ASSUME NEW n \in Nat, NEW from, NEW d, IsDoubling(d, from, n)
    PROVE  \A i \in 0..n : \A k \in i..n : d[i] + (k - i) <= d[k]
<1> SUFFICES ASSUME NEW i \in 0..n PROVE \A k \in i..n : d[i] + (k - i) <= d[k]
  OBVIOUS
<1> DEFINE bad == {k \in i..n : ~(d[i] + (k - i) <= d[k])}
<1> SUFFICES ASSUME bad # {} PROVE FALSE
  OBVIOUS
<1>1. PICK k \in bad : \A j \in bad : k <= j
  <2>1. bad \in SUBSET Nat
    OBVIOUS
  <2> HIDE DEF bad
  <2> QED
    BY <2>1, LeastElement
<1>2. k \in i..n /\ ~(d[i] + (k - i) <= d[k]) /\ k # i /\ k \in Nat /\ i \in Nat /\ d[i] \in Nat
  BY DEF IsDoubling
<1>3. k - 1 \in i..n /\ k - 1 \notin bad /\ k \in 1..n /\ k - 1 \in 0..n
  <2> HIDE DEF bad
  <2> QED
    BY <1>1, <1>2
<1>4. d[i] + ((k - 1) - i) <= d[k - 1] /\ d[k] = 2 * d[k - 1] /\ d[k - 1] \in Nat \ {0}
  BY <1>3 DEF IsDoubling
<1> HIDE DEF bad
<1> QED
  BY <1>2, <1>4

LEMMA PowerFacts ==
    ASSUME NEW x, PowerOfTwo(x)
    PROVE  x \in Nat \ {0} /\ PowerOfTwo(2 * x)
<1>1. PICK n \in Nat : x \in Doublings(1, n)
  BY DEF PowerOfTwo
<1>2. PICK d : IsDoubling(d, 1, n) /\ Doublings(1, n) = {d[k] : k \in 0..n}
  BY DoublingsFacts
<1>3. PICK e : IsDoubling(e, 1, n + 1) /\ Doublings(1, n + 1) = {e[k] : k \in 0..(n + 1)}
  BY DoublingsFacts
<1>4. PICK k \in 0..n : x = d[k]
  BY <1>1, <1>2
<1>5. d[k] = e[k]
  BY <1>2, <1>3, SameDoubles, k <= n + 1, n + 1 \in Nat
<1>6. k + 1 \in 1..(n + 1) /\ k + 1 \in 0..(n + 1) /\ (k + 1) - 1 = k
  OBVIOUS
<1>7. e[k + 1] = 2 * x
  BY <1>3, <1>4, <1>5, <1>6 DEF IsDoubling
<1>8. 2 * x \in Doublings(1, n + 1)
  BY <1>3, <1>6, <1>7
<1> QED
  BY <1>2, <1>4, <1>8 DEF PowerOfTwo, IsDoubling

(* What is doubled up from a power of two is one, and not smaller. *)
LEMMA PowerDoubled ==
    ASSUME NEW x, PowerOfTwo(x), NEW n \in Nat, NEW d, IsDoubling(d, x, n)
    PROVE  \A k \in 0..n : PowerOfTwo(d[k]) /\ d[k] >= x
<1>1. \A k \in 0..n : d[k] >= x
  <2> TAKE k \in 0..n
  <2>1. 0 \in 0..n /\ k \in 0..n /\ k - 0 = k /\ k \in Nat
    OBVIOUS
  <2>2. d[0] + (k - 0) <= d[k]
    BY <2>1, DoublesGrow
  <2> QED
    BY <2>1, <2>2, PowerFacts DEF IsDoubling
<1> DEFINE bad == {k \in 0..n : ~PowerOfTwo(d[k])}
<1> SUFFICES ASSUME bad # {} PROVE FALSE
  BY <1>1
<1>2. PICK k \in bad : \A i \in bad : k <= i
  <2>1. bad \in SUBSET Nat
    OBVIOUS
  <2> HIDE DEF bad
  <2> QED
    BY <2>1, LeastElement
<1>3. k \in 1..n /\ ~PowerOfTwo(d[k]) /\ k \in Nat
  BY DEF IsDoubling
<1>4. k - 1 \in 0..n /\ k - 1 \notin bad
  <2> HIDE DEF bad
  <2> QED
    BY <1>2, <1>3
<1>5. PowerOfTwo(d[k - 1]) /\ d[k] = 2 * d[k - 1]
  BY <1>3, <1>4 DEF IsDoubling
<1> QED
  BY <1>3, <1>5, PowerFacts

(* There is nothing between a power of two and the next. *)
LEMMA NextPower ==
    ASSUME NEW x, NEW y, PowerOfTwo(x), PowerOfTwo(y), x < y
    PROVE  2 * x <= y
<1>1. PICK n \in Nat : x \in Doublings(1, n)
  BY DEF PowerOfTwo
<1>2. PICK d : IsDoubling(d, 1, n) /\ Doublings(1, n) = {d[k] : k \in 0..n}
  BY DoublingsFacts
<1>3. PICK m \in Nat : y \in Doublings(1, m)
  BY DEF PowerOfTwo
<1>4. PICK e : IsDoubling(e, 1, m) /\ Doublings(1, m) = {e[k] : k \in 0..m}
  BY DoublingsFacts
<1>5. PICK i \in 0..n : x = d[i]
  BY <1>1, <1>2
<1>6. PICK j \in 0..m : y = e[j]
  BY <1>3, <1>4
<1>7. \A k \in 0..n : k <= m => d[k] = e[k]
  BY <1>2, <1>4, SameDoubles
<1>8. i < j
  <2> SUFFICES ASSUME j <= i PROVE FALSE
    OBVIOUS
  <2>1. j \in 0..n /\ i \in j..n /\ j <= m
    OBVIOUS
  <2>2. d[j] + (i - j) <= d[i] /\ d[j] = e[j]
    BY <1>2, <1>7, <2>1, DoublesGrow
  <2> QED
    BY <1>2, <1>5, <1>6, <2>1, <2>2 DEF IsDoubling
<1>9. i \in 0..m /\ i + 1 \in 0..m /\ i + 1 \in 1..m /\ j \in (i + 1)..m /\ i <= m /\ (i + 1) - 1 = i
  BY <1>8
<1>10. e[i + 1] = 2 * e[i] /\ e[i] = x
  BY <1>4, <1>5, <1>7, <1>9 DEF IsDoubling
<1>11. e[i + 1] + (j - (i + 1)) <= e[j]
  BY <1>4, <1>9, DoublesGrow
<1>12. e[i + 1] \in Nat /\ e[j] \in Nat /\ i \in Nat /\ j \in Nat /\ x \in Nat
  BY <1>4, <1>9, <1>10 DEF IsDoubling
<1> QED
  BY <1>6, <1>8, <1>10, <1>11, <1>12

(* required_capacity: the least power of two from cap on that holds n entries. *)
LEMMA GrownFacts ==
    ASSUME NEW n \in Nat, NEW cap, PowerOfTwo(cap), cap > 1
    PROVE  /\ Grown(n, cap) \in Nat /\ PowerOfTwo(Grown(n, cap)) /\ Grown(n, cap) >= cap
           /\ (n + 1) * 4 <= Grown(n, cap) * 3
           /\ \A s : PowerOfTwo(s) /\ cap <= s /\ (n + 1) * 4 <= s * 3 => Grown(n, cap) <= s
<1>1. cap \in Nat \ {0}
  BY PowerFacts
<1>2. PICK d : IsDoubling(d, cap, n) /\ Doublings(cap, n) = {d[k] : k \in 0..n}
  BY <1>1, DoublingsFacts
<1> DEFINE fit == {k \in 0..n : (n + 1) * 4 <= d[k] * 3}
           sizes == {size \in Doublings(cap, n) : (n + 1) * 4 <= size * 3}
<1>3. \A k \in 0..n : d[k] >= 2 * (k + 1)
  <2> DEFINE bad == {k \in 0..n : ~(d[k] >= 2 * (k + 1))}
  <2> SUFFICES ASSUME bad # {} PROVE FALSE
    OBVIOUS
  <2>1. PICK k \in bad : \A i \in bad : k <= i
    <3>1. bad \in SUBSET Nat
      OBVIOUS
    <3> HIDE DEF bad
    <3> QED
      BY <3>1, LeastElement
  <2>2. k \in 0..n /\ ~(d[k] >= 2 * (k + 1)) /\ k \in Nat
    OBVIOUS
  <2>3. k # 0
    BY <1>1, <1>2, <2>2 DEF IsDoubling
  <2>4. k \in 1..n /\ k - 1 \in 0..n /\ k - 1 \notin bad
    <3> HIDE DEF bad
    <3> QED
      BY <2>1, <2>2, <2>3
  <2>5. d[k - 1] >= 2 * ((k - 1) + 1) /\ d[k] = 2 * d[k - 1] /\ d[k - 1] \in Nat
    BY <1>2, <2>4 DEF IsDoubling
  <2> HIDE DEF bad
  <2> QED
    BY <2>2, <2>3, <2>5
<1>4. n \in fit
  <2>1. n \in 0..n /\ d[n] >= 2 * (n + 1) /\ d[n] \in Nat
    BY <1>2, <1>3 DEF IsDoubling
  <2> QED
    BY <2>1
<1>5. PICK k \in fit : \A i \in fit : k <= i
  <2>1. fit \in SUBSET Nat
    OBVIOUS
  <2> HIDE DEF fit
  <2> QED
    BY <1>4, <2>1, LeastElement
<1>6. k \in 0..n /\ (n + 1) * 4 <= d[k] * 3 /\ k \in Nat /\ d[k] \in Nat
  BY <1>2 DEF IsDoubling
<1>7. \A i \in 0..n : i \in fit => d[k] <= d[i]
  <2> TAKE i \in 0..n
  <2> HAVE i \in fit
  <2>1. k <= i
    BY <1>5
  <2>2. i \in k..n /\ d[i] \in Nat
    BY <1>2, <1>6, <2>1 DEF IsDoubling
  <2>3. d[k] + (i - k) <= d[i]
    BY <1>2, <1>6, <2>2, DoublesGrow
  <2> QED
    BY <1>6, <2>1, <2>2, <2>3
<1>8. d[k] \in sizes /\ \A s \in sizes : d[k] <= s
  <2>1. d[k] \in sizes
    BY <1>2, <1>6
  <2>2. ASSUME NEW s \in sizes PROVE d[k] <= s
    <3>1. PICK i \in 0..n : s = d[i]
      BY <1>2
    <3>2. i \in fit
      BY <3>1
    <3> QED
      BY <1>7, <3>1, <3>2
  <2> QED
    BY <2>1, <2>2
<1>9. Grown(n, cap) = d[k]
  <2>1. \A s \in sizes : s \in Nat
    BY <1>2 DEF IsDoubling
  <2> HIDE DEF sizes
  <2>2. Min(sizes) = d[k]
    BY <1>6, <1>8, <2>1 DEF Min
  <2> QED
    BY <2>2 DEF Grown, sizes
<1>10. PowerOfTwo(d[k]) /\ d[k] >= cap
  BY <1>2, <1>6, PowerDoubled
<1>11. ASSUME NEW s, PowerOfTwo(s), cap <= s, (n + 1) * 4 <= s * 3 PROVE d[k] <= s
  <2>0. s \in Nat
    BY <1>11, PowerFacts
  <2> SUFFICES ASSUME s < d[k] PROVE FALSE
    BY <1>6, <2>0
  <2>1. k # 0
    BY <1>1, <1>2, <1>11, <2>0 DEF IsDoubling
  <2>2. k \in 1..n /\ k - 1 \in 0..n /\ d[k - 1] \in Nat /\ d[k] = 2 * d[k - 1]
    BY <1>2, <1>6, <2>1 DEF IsDoubling
  <2>3. 2 * s <= d[k]
    BY <1>10, <1>11, NextPower
  <2>4. (n + 1) * 4 <= d[k - 1] * 3
    BY <1>11, <2>0, <2>2, <2>3
  <2>5. k - 1 \in fit
    BY <2>2, <2>4
  <2>6. k <= k - 1
    <3> HIDE DEF fit
    <3> QED
      BY <1>5, <2>5
  <2> QED
    BY <1>6, <2>6
<1> QED
  BY <1>6, <1>9, <1>10, <1>11

-----------------------------------------------------------------------------
(* The cache ca holds what configuration c asks for: the invariant's core. *)
Configs == [vocab: SUBSET (Pretokens \X {-1, 0}), ignore: BOOLEAN, added: SUBSET Addable]

Overwritten(c) == c.added \cap ShortVocab(c)

Holds(c, ca) ==
    /\ \A p \in DOMAIN ca.short : StandsFor(ca, ca.short[p], Expected(c, p))
    /\ \A p \in DOMAIN ca.long : StandsFor(ca, ca.long[p], Expected(c, p))

Good(c, ca) == IsCache(ca) /\ Holds(c, ca) /\ ShortVocab(c) \subseteq DOMAIN ca.short

IsBudget(b) ==
    b = Unbounded \/ /\ b.total \in Budgets /\ b.total \in Nat
                     /\ b = [total |-> b.total, slots |-> b.slots, arena |-> b.arena,
                             long |-> b.long, used |-> b.used, giant |-> b.giant]

(* The inductive invariant. *)
IInv ==
    /\ cfg \in Configs /\ Good(cfg, cache) /\ IsBudget(budget)
    /\ encoded \in BOOLEAN /\ (~encoded => DOMAIN cache.long = {})

-----------------------------------------------------------------------------
(* What a pretoken encodes to is a non-empty sequence of tokens. *)
LEMMA SeedSymbolsType ==
    ASSUME NEW c \in Configs, NEW p \in Pretokens
    PROVE  /\ <<VocabInv(c, p)>> \in Seq(Tokens)
           /\ SeedSymbols(c, p) \in Seq(Tokens) /\ SeedSymbols(c, p) # <<>>
<1>1. <<p, -1>> \in Tokens /\ <<p, 0>> \in Tokens /\ \A k \in Nat : <<p, k>> \in Tokens
  BY DEF Tokens
<1>2. VocabInv(c, p) \in Tokens
  BY <1>1 DEF VocabInv
<1>3. Width[p] \in Nat \ {0}
  BY PretokensAssumption
<1>4. Merged(p) \in Seq(Tokens) /\ Merged(p) # <<>>
  <2>1. CASE Width[p] = 1
    BY <1>1, <2>1 DEF Merged
  <2>2. CASE Width[p] # 1
    <3> DEFINE n == Width[p]
               s == [k \in 1..n |-> <<p, k>>]
    <3>1. Merged(p) = s
      BY <2>2 DEF Merged
    <3>2. n \in Nat \ {0}
      BY <1>3
    <3> HIDE DEF n
    <3>3. s \in Seq(Tokens) /\ Len(s) = n
      BY <1>1, <3>2
    <3>4. s # <<>>
      BY <3>2, <3>3
    <3> QED
      BY <3>1, <3>3, <3>4
  <2> QED
    BY <2>1, <2>2
<1> QED
  BY <1>2, <1>4 DEF SeedSymbols

(* What is put is what the configuration asks for. *)
LEMMA GoodPut ==
    ASSUME NEW c, NEW ca, NEW cb, Good(c, ca), NEW ps, NEW toks, HasPut(ca, cb, ps, toks),
           \A q \in ps : toks[q] = Expected(c, q)
    PROVE  Good(c, cb)
<1>1. /\ IsCache(ca) /\ IsCache(cb) /\ GoesOn(ca, cb) /\ cb.long = ca.long
      /\ ca.arena \in Seq(Tokens) /\ cb.arena \in Seq(Tokens)
      /\ DOMAIN cb.short = DOMAIN ca.short \cup ps
  BY DEF Good, HasPut, IsCache
<1>2. ASSUME NEW p \in DOMAIN cb.short PROVE StandsFor(cb, cb.short[p], Expected(c, p))
  <2>1. CASE p \in ps
    BY <2>1 DEF HasPut
  <2>2. CASE p \notin ps
    <3>1. p \in DOMAIN ca.short /\ cb.short[p] = ca.short[p]
      BY <1>1, <1>2, <2>2 DEF HasPut
    <3>2. ca.short[p] \in Entries /\ StandsFor(ca, ca.short[p], Expected(c, p))
      BY <1>1, <3>1 DEF Good, Holds, IsCache
    <3> QED
      BY <1>1, <3>1, <3>2, StandsOn
  <2> QED
    BY <2>1, <2>2
<1>3. ASSUME NEW p \in DOMAIN cb.long PROVE StandsFor(cb, cb.long[p], Expected(c, p))
  <2>1. ca.long[p] \in Entries /\ StandsFor(ca, ca.long[p], Expected(c, p))
    BY <1>1, <1>3 DEF Good, Holds, IsCache
  <2> QED
    BY <1>1, <2>1, StandsOn
<1>4. ShortVocab(c) \subseteq DOMAIN cb.short
  BY <1>1 DEF Good
<1> QED
  BY <1>1, <1>2, <1>3, <1>4 DEF Good, Holds

(* Two caches, one put into the other: the long entries stand for what they did. *)
LEMMA LongStands ==
    ASSUME NEW c, NEW ca, IsCache(ca), NEW cb, NEW ps, NEW toks, HasPut(ca, cb, ps, toks),
           \A p \in DOMAIN ca.long : StandsFor(ca, ca.long[p], Expected(c, p))
    PROVE  \A p \in DOMAIN cb.long : StandsFor(cb, cb.long[p], Expected(c, p))
<1>1. /\ GoesOn(ca, cb) /\ cb.long = ca.long
      /\ ca.arena \in Seq(Tokens) /\ cb.arena \in Seq(Tokens)
  BY DEF HasPut, IsCache
<1> SUFFICES ASSUME NEW p \in DOMAIN cb.long PROVE StandsFor(cb, cb.long[p], Expected(c, p))
  OBVIOUS
<1>2. ca.long[p] \in Entries /\ StandsFor(ca, ca.long[p], Expected(c, p))
  BY <1>1 DEF IsCache
<1> QED
  BY <1>1, <1>2, StandsOn

(* ... and so do the short ones that were not put. *)
LEMMA ShortStands ==
    ASSUME NEW ca, IsCache(ca), NEW cb, NEW ps, NEW toks, HasPut(ca, cb, ps, toks),
           NEW p \in DOMAIN cb.short, p \notin ps, NEW t, StandsFor(ca, ca.short[p], t)
    PROVE  StandsFor(cb, cb.short[p], t)
<1>1. /\ GoesOn(ca, cb) /\ ca.arena \in Seq(Tokens) /\ cb.arena \in Seq(Tokens)
      /\ p \in DOMAIN ca.short /\ cb.short[p] = ca.short[p]
  BY DEF HasPut, IsCache
<1>2. ca.short[p] \in Entries
  BY <1>1 DEF IsCache
<1> QED
  BY <1>1, <1>2, StandsOn

(* The added tokens take their entries over: the rest must be the seed encodings. *)
LEMMA OverwriteGood ==
    ASSUME NEW c \in Configs, NEW ca, IsCache(ca),
           \A p \in DOMAIN ca.short \ Overwritten(c) : StandsFor(ca, ca.short[p], SeedSymbols(c, p)),
           \A p \in DOMAIN ca.long : StandsFor(ca, ca.long[p], Expected(c, p)),
           ShortVocab(c) \subseteq DOMAIN ca.short \cup c.added
    PROVE  Good(c, Overwrite(c, ca)) /\ Overwrite(c, ca).long = ca.long
<1> DEFINE toks == [p \in Overwritten(c) |-> <<VocabInv(c, p)>>]
           cb == Overwrite(c, ca)
<1>1. cb = PutAll(ca, toks)
  BY DEF Overwrite, Overwritten
<1>2. Overwritten(c) \subseteq Short /\ Overwritten(c) \subseteq Pretokens
  BY DEF Overwritten, ShortVocab, Pretokens
<1>3. \A p \in DOMAIN toks : toks[p] \in Seq(Tokens)
  BY <1>2, SeedSymbolsType
<1>4. HasPut(ca, PutAll(ca, toks), DOMAIN toks, toks)
  <2> HIDE DEF toks
  <2>1. DOMAIN toks \subseteq Short
    BY <1>2 DEF toks
  <2> QED
    BY <1>3, <2>1, PutAllFacts
<1>5. HasPut(ca, cb, Overwritten(c), toks)
  BY <1>1, <1>4
<1> HIDE DEF cb
<1>6. \A p \in Overwritten(c) : toks[p] = Expected(c, p)
  BY DEF Expected, Overwritten
<1> HIDE DEF toks
<1>7. ASSUME NEW p \in DOMAIN cb.short PROVE StandsFor(cb, cb.short[p], Expected(c, p))
  <2>1. CASE p \in Overwritten(c)
    BY <1>5, <1>6, <2>1 DEF HasPut
  <2>2. CASE p \notin Overwritten(c)
    <3>1. p \in DOMAIN ca.short \ Overwritten(c) /\ Expected(c, p) = SeedSymbols(c, p)
      BY <1>5, <1>7, <2>2 DEF HasPut, Expected, Overwritten
    <3> QED
      BY <1>5, <2>2, <3>1, ShortStands
  <2> QED
    BY <2>1, <2>2
<1>8. \A p \in DOMAIN cb.long : StandsFor(cb, cb.long[p], Expected(c, p))
  BY <1>5, LongStands
<1>9. ShortVocab(c) \subseteq DOMAIN cb.short /\ IsCache(cb) /\ cb.long = ca.long
  BY <1>5 DEF HasPut, Overwritten
<1> QED
  BY <1>7, <1>8, <1>9 DEF Good, Holds, cb

(* The whole seed is written again: only the other short entries matter. *)
LEMMA ReseedGood ==
    ASSUME NEW c \in Configs, NEW ca, IsCache(ca),
           \A p \in DOMAIN ca.short \ ShortVocab(c) : StandsFor(ca, ca.short[p], SeedSymbols(c, p)),
           \A p \in DOMAIN ca.long : StandsFor(ca, ca.long[p], Expected(c, p))
    PROVE  Good(c, Reseed(c, ca)) /\ Reseed(c, ca).long = ca.long
<1> DEFINE toks == [p \in ShortVocab(c) |-> SeedSymbols(c, p)]
           cb == PutAll(ca, toks)
<1>1. Reseed(c, ca) = Overwrite(c, cb)
  BY DEF Reseed
<1>2. ShortVocab(c) \subseteq Short /\ ShortVocab(c) \subseteq Pretokens
  BY DEF ShortVocab, Pretokens
<1>3. \A p \in DOMAIN toks : toks[p] \in Seq(Tokens)
  BY <1>2, SeedSymbolsType
<1>4. HasPut(ca, cb, ShortVocab(c), toks)
  <2> HIDE DEF toks
  <2>1. DOMAIN toks \subseteq Short /\ DOMAIN toks = ShortVocab(c)
    BY <1>2 DEF toks
  <2> QED
    BY <1>3, <2>1, PutAllFacts
<1> HIDE DEF cb
<1>5. \A p \in ShortVocab(c) : toks[p] = SeedSymbols(c, p)
  OBVIOUS
<1> HIDE DEF toks
<1>6. ASSUME NEW p \in DOMAIN cb.short PROVE StandsFor(cb, cb.short[p], SeedSymbols(c, p))
  <2>1. CASE p \in ShortVocab(c)
    BY <1>4, <1>5, <2>1 DEF HasPut
  <2>2. CASE p \notin ShortVocab(c)
    <3>1. p \in DOMAIN ca.short \ ShortVocab(c)
      BY <1>4, <1>6, <2>2 DEF HasPut
    <3> QED
      BY <1>4, <2>2, <3>1, ShortStands
  <2> QED
    BY <2>1, <2>2
<1>7. \A p \in DOMAIN cb.long : StandsFor(cb, cb.long[p], Expected(c, p))
  BY <1>4, LongStands
<1>8. IsCache(cb) /\ cb.long = ca.long /\ ShortVocab(c) \subseteq DOMAIN cb.short
  BY <1>4 DEF HasPut
<1> QED
  BY <1>1, <1>6, <1>7, <1>8, OverwriteGood

(* A cache that starts over from the seed. *)
LEMMA SeededGood ==
    ASSUME NEW c \in Configs, NEW cap
    PROVE  Good(c, Reseed(c, Empty(cap))) /\ DOMAIN Reseed(c, Empty(cap)).long = {}
<1>1. /\ IsCache(Empty(cap)) /\ DOMAIN Empty(cap).short = {} /\ DOMAIN Empty(cap).long = {}
  BY DEF Empty, IsCache
<1> QED
  BY <1>1, ReseedGood
-----------------------------------------------------------------------------
LEMMA InitInv == Init => IInv
<1> SUFFICES ASSUME Init PROVE IInv
  OBVIOUS
<1>1. cfg \in Configs
  <2>1. \A p \in Vocab : <<p, 0>> \in Pretokens \X {-1, 0}
    BY PretokensAssumption
  <2> QED
    BY <2>1 DEF Init, Configs
<1>2. Good(cfg, cache) /\ DOMAIN cache.long = {}
  BY <1>1, SeededGood DEF Init, Seeded
<1>3. IsBudget(budget)
  <2>1. PICK total \in Budgets : budget = IF total = Unbounded THEN Unbounded ELSE Derive(total, cfg)
    BY DEF Init
  <2> QED
    BY <2>1, PretokensAssumption DEF IsBudget, Derive
<1>4. encoded = FALSE
  BY DEF Init
<1> QED
  BY <1>1, <1>2, <1>3, <1>4 DEF IInv

(* What a miss writes to: the cache, or what a wipe leaves of it. *)
Before == IF OverBudget THEN Wiped(cfg) ELSE cache

LEMMA BeforeGood ==
    ASSUME IInv
    PROVE  Good(cfg, Before)
BY SeededGood DEF IInv, Before, Wiped

(* A pretoken that misses is none of an added token's. *)
LEMMA MissExpected ==
    ASSUME IInv, NEW p \in Pretokens, p \notin DOMAIN cache.short
    PROVE  Expected(cfg, p) = SeedSymbols(cfg, p)
BY DEF IInv, Good, Expected

LEMMA HitEmits ==
    ASSUME IInv, NEW p, Hit(p)
    PROVE  out'.tokens = Expected(cfg, p) /\ out'.pretoken = p /\ p \in Pretokens
<1>1. CASE p \in DOMAIN cache.short /\ Emit(p, Value(cache, cache.short[p]), FALSE)
  BY <1>1 DEF IInv, Good, Holds, IsCache, StandsFor, Emit, Pretokens
<1>2. CASE p \in DOMAIN cache.long /\ Emit(p, Value(cache, cache.long[p]), FALSE)
  BY <1>2 DEF IInv, Good, Holds, IsCache, StandsFor, Emit, Pretokens
<1> QED
  BY <1>1, <1>2 DEF Hit

(* A budget stays one while its accounts change. *)
LEMMA Accounted ==
    ASSUME NEW b, IsBudget(b), b # Unbounded, NEW used, NEW giant
    PROVE  /\ IsBudget([b EXCEPT !.used = used])
           /\ IsBudget([b EXCEPT !.used = used, !.giant = giant])
<1>1. /\ b.total \in Budgets /\ b.total \in Nat
      /\ b = [total |-> b.total, slots |-> b.slots, arena |-> b.arena,
              long |-> b.long, used |-> b.used, giant |-> b.giant]
  BY DEF IsBudget
<1>2. [b EXCEPT !.used = used] =
        [total |-> b.total, slots |-> b.slots, arena |-> b.arena,
         long |-> b.long, used |-> used, giant |-> b.giant]
  BY <1>1
<1>3. [b EXCEPT !.used = used, !.giant = giant] =
        [total |-> b.total, slots |-> b.slots, arena |-> b.arena,
         long |-> b.long, used |-> used, giant |-> giant]
  <2> DEFINE b1 == [b EXCEPT !.used = used]
  <2>1. [b EXCEPT !.used = used, !.giant = giant] = [b1 EXCEPT !.giant = giant]
    BY Zenon
  <2> HIDE DEF b1
  <2>2. b1 = [total |-> b.total, slots |-> b.slots, arena |-> b.arena,
              long |-> b.long, used |-> used, giant |-> b.giant]
    BY <1>2 DEF b1
  <2> QED
    BY <2>1, <2>2
<1> QED
  BY <1>1, <1>2, <1>3 DEF IsBudget

LEMMA MissShortInv ==
    ASSUME IInv, NEW p \in Pretokens, MissShort(p)
    PROVE  /\ IInv'
           /\ out'.tokens = Expected(cfg, p) /\ out'.pretoken = p
<1> DEFINE toks == SeedSymbols(cfg, p)
<1>1. /\ p \in Short /\ p \notin DOMAIN cache.short
      /\ IF p \in DOMAIN Before.short
         THEN Emit(p, Value(Before, Before.short[p]), OverBudget) /\ cache' = Before
         ELSE Emit(p, toks, OverBudget) /\ cache' = Put(Before, p, toks)
      /\ budget' = IF OverBudget THEN [budget EXCEPT !.used = 0] ELSE budget
  BY DEF MissShort, Before
<1>2. cfg \in Configs /\ Good(cfg, Before) /\ Expected(cfg, p) = toks /\ toks \in Seq(Tokens)
  BY <1>1, BeforeGood, MissExpected, SeedSymbolsType DEF IInv
<1>3. cfg' = cfg /\ encoded' = TRUE
  BY <1>1 DEF Emit
<1>4. IsBudget(budget')
  BY <1>1, Accounted DEF IInv, OverBudget
<1> HIDE DEF toks
<1>5. CASE p \in DOMAIN Before.short
  <2>1. cache' = Before /\ Emit(p, Value(Before, Before.short[p]), OverBudget)
    BY <1>1, <1>5
  <2>2. Value(Before, Before.short[p]) = Expected(cfg, p)
    BY <1>2, <1>5 DEF Good, Holds, StandsFor
  <2> QED
    BY <1>2, <1>3, <1>4, <2>1, <2>2 DEF Emit, IInv
<1>6. CASE p \notin DOMAIN Before.short
  <2>1. cache' = Put(Before, p, toks) /\ Emit(p, toks, OverBudget)
    BY <1>1, <1>6
  <2> DEFINE put == [q \in {p} |-> toks]
  <2>2. put[p] = toks /\ \A q \in {p} : put[q] = Expected(cfg, q)
    BY <1>2
  <2> HIDE DEF put
  <2>3. IsCache(Before) /\ put[p] \in Seq(Tokens)
    BY <1>2, <2>2 DEF Good
  <2>4. HasPut(Before, Put(Before, p, put[p]), {p}, put)
    BY <1>1, <2>3, PutFacts
  <2>5. Good(cfg, cache')
    BY <1>2, <2>1, <2>2, <2>4, GoodPut
  <2> QED
    BY <1>2, <1>3, <1>4, <2>1, <2>5 DEF Emit, IInv
<1> QED
  BY <1>5, <1>6

(* A long encoding is appended to the arena, and no short entry changes. *)
LEMMA LongPut ==
    ASSUME NEW c \in Configs, NEW ca, Good(c, ca), NEW p \in Long, NEW cb,
           cb = [ca EXCEPT
                  !.arena = @ \o SeedSymbols(c, p),
                  !.long = [q \in DOMAIN @ \cup {p} |->
                               IF q = p THEN Spill(Len(ca.arena), Len(SeedSymbols(c, p))) ELSE @[q]]]
    PROVE  Good(c, cb)
<1> DEFINE toks == SeedSymbols(c, p)
           e == Spill(Len(ca.arena), Len(toks))
           long == [q \in DOMAIN ca.long \cup {p} |-> IF q = p THEN e ELSE ca.long[q]]
<1>1. ca = [short |-> ca.short, cap |-> ca.cap, arena |-> ca.arena, long |-> ca.long]
  BY DEF Good, IsCache
<1>2. toks \in Seq(Tokens) /\ toks # <<>> /\ Expected(c, p) = toks
  <2>1. p \in Pretokens /\ p \notin ShortVocab(c)
    BY PretokensAssumption DEF Pretokens, ShortVocab
  <2> QED
    BY <2>1, SeedSymbolsType DEF Expected
<1>3. cb = [ca EXCEPT !.arena = ca.arena \o toks, !.long = long]
  OBVIOUS
<1> HIDE DEF toks, long
<1>4. cb = [short |-> ca.short, cap |-> ca.cap, arena |-> ca.arena \o toks, long |-> long]
  BY <1>1, <1>3
<1>5. /\ cb.short = ca.short /\ cb.arena = ca.arena \o toks /\ cb.long = long
      /\ cb = [short |-> cb.short, cap |-> cb.cap, arena |-> cb.arena, long |-> cb.long]
  BY ONLY <1>4
<1>6. ca.arena \in Seq(Tokens)
  BY DEF Good, IsCache
<1>7. cb.arena \in Seq(Tokens) /\ GoesOn(ca, cb) /\ StandsFor(cb, e, toks)
  BY <1>2, <1>5, <1>6, AppendGoesOn
<1>8. e \in Entries
  <2>1. <<>> \in Seq(Tokens) /\ Len(ca.arena) \in Nat /\ Len(toks) \in Nat
    BY <1>2, <1>6
  <2>2. e = [inline |-> <<>>, at |-> Len(ca.arena), len |-> Len(toks)]
    BY DEF Spill
  <2> HIDE DEF e
  <2> QED
    BY <2>1, <2>2 DEF Entries
<1> HIDE DEF e
<1>9. /\ DOMAIN long = DOMAIN ca.long \cup {p} /\ long[p] = e
      /\ \A q \in DOMAIN ca.long : q # p => long[q] = ca.long[q]
  BY DEF long
<1>10. ASSUME NEW q \in DOMAIN cb.short
       PROVE  cb.short[q] \in Entries /\ StandsFor(cb, cb.short[q], Expected(c, q))
  <2>1. ca.short[q] \in Entries /\ StandsFor(ca, ca.short[q], Expected(c, q))
    BY <1>5, <1>10 DEF Good, Holds, IsCache
  <2>2. StandsFor(cb, ca.short[q], Expected(c, q))
    BY <1>6, <1>7, <2>1, StandsOn, ZenonT(60)
  <2> QED
    BY ONLY <1>5, <2>1, <2>2
<1>11. ASSUME NEW q \in DOMAIN cb.long
       PROVE  cb.long[q] \in Entries /\ StandsFor(cb, cb.long[q], Expected(c, q))
  <2>1. CASE q = p
    BY <1>2, <1>5, <1>7, <1>8, <1>9, <2>1
  <2>2. CASE q # p
    <3>1. q \in DOMAIN ca.long /\ cb.long[q] = ca.long[q]
      BY <1>5, <1>9, <1>11, <2>2
    <3>2. ca.long[q] \in Entries /\ StandsFor(ca, ca.long[q], Expected(c, q))
      BY <3>1 DEF Good, Holds, IsCache
    <3>3. StandsFor(cb, ca.long[q], Expected(c, q))
      BY <1>6, <1>7, <3>2, StandsOn, ZenonT(60)
    <3> QED
      BY ONLY <3>1, <3>2, <3>3
  <2> QED
    BY <2>1, <2>2
<1>12. /\ DOMAIN cb.short \subseteq Short /\ DOMAIN cb.long \subseteq Long
       /\ ShortVocab(c) \subseteq DOMAIN cb.short
  BY <1>5, <1>9 DEF Good, IsCache
<1>13. IsCache(cb)
  BY <1>5, <1>7, <1>10, <1>11, <1>12 DEF IsCache
<1> QED
  BY <1>10, <1>11, <1>12, <1>13 DEF Good, Holds

LEMMA MissLongInv ==
    ASSUME IInv, NEW p \in Pretokens, MissLong(p)
    PROVE  /\ IInv'
           /\ out'.tokens = Expected(cfg, p) /\ out'.pretoken = p
<1> DEFINE toks == SeedSymbols(cfg, p)
<1>1. /\ p \in Long /\ Emit(p, toks, OverBudget)
      /\ cache' = [Before EXCEPT
                    !.arena = @ \o toks,
                    !.long = [q \in DOMAIN @ \cup {p} |->
                                 IF q = p THEN Spill(Len(Before.arena), Len(toks)) ELSE @[q]]]
      /\ budget' = IF budget = Unbounded THEN budget
                   ELSE [budget EXCEPT !.used = (IF OverBudget THEN 0 ELSE @) + KeyLen[p] + EntryBytes,
                                       !.giant = Max({@, Len(toks)})]
  BY DEF MissLong, Before
<1>2. cfg \in Configs /\ Good(cfg, Before)
  BY BeforeGood DEF IInv
<1>3. Good(cfg, cache')
  BY <1>1, <1>2, LongPut
<1>4. IsBudget(budget')
  BY <1>1, Accounted DEF IInv
<1>5. Expected(cfg, p) = toks
  <2>1. p \notin DOMAIN cache.short
    BY <1>1, PretokensAssumption DEF IInv, Good, IsCache
  <2> QED
    BY <2>1, MissExpected
<1> QED
  BY <1>1, <1>2, <1>3, <1>4, <1>5 DEF Emit, IInv

(* The mutators: with a budget the seed is laid out anew, without one the caches
   are what the mutator made of them. *)
LEMMA ResetInv ==
    ASSUME IInv, NEW c \in Configs, NEW total, total = Unbounded \/ total \in Budgets, NEW ca,
           ResetTo(total, c, ca), cfg' = c, encoded' = encoded,
           total = Unbounded => Good(c, ca) /\ (~encoded => DOMAIN ca.long = {})
    PROVE  IInv'
<1>1. CASE total = Unbounded
  BY <1>1 DEF ResetTo, IInv, IsBudget
<1>2. CASE total # Unbounded
  <2>1. budget' = Derive(total, c) /\ cache' = Seeded(c) /\ total \in Nat /\ total \in Budgets
    BY <1>2, PretokensAssumption DEF ResetTo
  <2>2. IsBudget(budget')
    BY <2>1 DEF IsBudget, Derive
  <2>3. Good(c, cache') /\ DOMAIN cache'.long = {}
    BY <2>1, SeededGood DEF Seeded
  <2> QED
    BY <2>2, <2>3 DEF IInv
<1> QED
  BY <1>1, <1>2

LEMMA TotalType ==
    ASSUME IInv
    PROVE  (Total = Unbounded \/ Total \in Budgets) /\ (Total = Unbounded => budget = Unbounded)
BY PretokensAssumption DEF IInv, IsBudget, Total

LEMMA SetMaxCacheBytesInv ==
    ASSUME IInv, NEW total \in Budgets, SetMaxCacheBytes(total)
    PROVE  IInv'
<1>1. /\ cfg \in Configs /\ Good(cfg, cache) /\ (~encoded => DOMAIN cache.long = {})
      /\ ResetTo(total, cfg, cache) /\ cfg' = cfg /\ encoded' = encoded
  BY DEF SetMaxCacheBytes, IInv
<1> QED
  BY <1>1, ResetInv

LEMMA SetIgnoreMergesInv ==
    ASSUME IInv, LoaderPhase, NEW flag \in BOOLEAN, SetIgnoreMerges(flag)
    PROVE  IInv'
<1> DEFINE c == [cfg EXCEPT !.ignore = flag]
<1>1. cfg \in Configs /\ Good(cfg, cache)
  BY DEF IInv
<1>2. /\ c \in Configs /\ c.vocab = cfg.vocab /\ c.added = cfg.added
      /\ ResetTo(Total, c, Reseed(c, cache)) /\ cfg' = c /\ encoded' = encoded
      /\ budget # Unbounded \/ ~encoded
  BY <1>1 DEF SetIgnoreMerges, LoaderPhase, Mutated, Rederive, Configs
<1> HIDE DEF c
<1>3. ASSUME Total = Unbounded
      PROVE  Good(c, Reseed(c, cache)) /\ (~encoded => DOMAIN Reseed(c, cache).long = {})
  <2>1. DOMAIN cache.long = {}
    BY <1>2, <1>3, TotalType DEF IInv
  <2>2. ASSUME NEW p \in DOMAIN cache.short \ ShortVocab(c)
        PROVE  StandsFor(cache, cache.short[p], SeedSymbols(c, p))
    <3>1. p \in Short
      BY <1>1 DEF Good, IsCache
    <3>2. ~InVocab(c, p) /\ ~InVocab(cfg, p) /\ p \notin ShortVocab(cfg)
      BY <1>2, <3>1 DEF ShortVocab, InVocab
    <3>3. Expected(cfg, p) = SeedSymbols(c, p)
      BY <3>2 DEF Expected, SeedSymbols
    <3>4. StandsFor(cache, cache.short[p], Expected(cfg, p))
      BY <1>1 DEF Good, Holds
    <3> QED
      BY <3>3, <3>4
  <2> QED
    BY <1>1, <1>2, <2>1, <2>2, ReseedGood DEF Good
<1> QED
  BY <1>2, <1>3, TotalType, ResetInv

(* The outgoing tokens get their seed back and the incoming ones take theirs over. *)
LEMMA SetAddedInv ==
    ASSUME IInv, NEW c \in Configs, SetAdded(c), c.ignore = cfg.ignore,
           \A p \in Pretokens : InVocab(cfg, p) => InVocab(c, p),
           \A p \in Pretokens \ Overwritten(c) :
               (InVocab(c, p) => InVocab(cfg, p)) /\ VocabInv(c, p) = VocabInv(cfg, p)
    PROVE  IInv'
<1> DEFINE outgoing == cfg.added \cap ShortVocab(c)
           toks == [p \in outgoing |-> SeedSymbols(c, p)]
           cb == PutAll(cache, toks)
<1>1. ResetTo(Total, c, Overwrite(c, cb)) /\ cfg' = c /\ encoded' = encoded
  BY DEF SetAdded, Mutated, Rederive
<1>2. cfg \in Configs /\ Good(cfg, cache) /\ IsCache(cache)
  BY DEF IInv, Good
<1>3. outgoing \subseteq Short /\ outgoing \subseteq Pretokens
  BY DEF ShortVocab, Pretokens
<1>4. \A p \in DOMAIN toks : toks[p] \in Seq(Tokens)
  BY <1>3, SeedSymbolsType
<1>5. HasPut(cache, cb, outgoing, toks)
  <2> HIDE DEF toks
  <2>1. DOMAIN toks \subseteq Short /\ DOMAIN toks = outgoing
    BY <1>3 DEF toks
  <2> QED
    BY <1>2, <1>4, <2>1, PutAllFacts
<1>6. \A p \in outgoing : toks[p] = SeedSymbols(c, p)
  OBVIOUS
<1> HIDE DEF cb, toks
<1>7. ASSUME NEW p \in Pretokens \ Overwritten(c)
      PROVE  SeedSymbols(c, p) = SeedSymbols(cfg, p)
  BY <1>7 DEF SeedSymbols
<1>8. ASSUME NEW p \in DOMAIN cb.short \ Overwritten(c)
      PROVE  StandsFor(cb, cb.short[p], SeedSymbols(c, p))
  <2>1. CASE p \in outgoing
    BY <1>5, <1>6, <2>1 DEF HasPut
  <2>2. CASE p \notin outgoing
    <3>1. p \in DOMAIN cache.short /\ p \in Short /\ p \in Pretokens
      BY <1>2, <1>5, <1>8, <2>2 DEF HasPut, IsCache, Pretokens
    <3>2. p \notin cfg.added \cap ShortVocab(cfg)
      BY <2>2, <3>1 DEF ShortVocab
    <3>3. Expected(cfg, p) = SeedSymbols(c, p)
      BY <1>7, <1>8, <3>1, <3>2 DEF Expected
    <3>4. StandsFor(cache, cache.short[p], SeedSymbols(c, p))
      BY <1>2, <3>1, <3>3 DEF Good, Holds
    <3> QED
      BY <1>2, <1>5, <1>8, <2>2, <3>4, ShortStands
  <2> QED
    BY <2>1, <2>2
<1>9. ASSUME NEW p \in DOMAIN cache.long
      PROVE  StandsFor(cache, cache.long[p], Expected(c, p))
  <2>1. p \in Pretokens /\ p \notin Short
    BY <1>2, PretokensAssumption DEF IsCache, Pretokens
  <2>2. p \notin ShortVocab(c) /\ p \notin ShortVocab(cfg) /\ p \notin Overwritten(c)
    BY <2>1 DEF ShortVocab, Overwritten
  <2>3. Expected(c, p) = Expected(cfg, p)
    BY <1>7, <2>1, <2>2 DEF Expected
  <2> QED
    BY <1>2, <2>3 DEF Good, Holds
<1>10. \A p \in DOMAIN cb.long : StandsFor(cb, cb.long[p], Expected(c, p))
  BY <1>2, <1>5, <1>9, LongStands
<1>11. ShortVocab(c) \subseteq DOMAIN cb.short \cup c.added
  <2> SUFFICES ASSUME NEW p \in ShortVocab(c), p \notin c.added PROVE p \in DOMAIN cb.short
    OBVIOUS
  <2>1. p \in ShortVocab(cfg)
    BY DEF ShortVocab, Overwritten, Pretokens
  <2> QED
    BY <1>2, <1>5, <2>1 DEF Good, HasPut
<1>12. Good(c, Overwrite(c, cb)) /\ Overwrite(c, cb).long = cache.long
  BY <1>5, <1>8, <1>10, <1>11, OverwriteGood DEF HasPut
<1>13. ~encoded => DOMAIN Overwrite(c, cb).long = {}
  BY <1>12 DEF IInv
<1> QED
  BY <1>1, <1>12, <1>13, TotalType, ResetInv

LEMMA SetAddedTokensInv ==
    ASSUME IInv, NEW ps \in SUBSET Addable, SetAddedTokens(ps)
    PROVE  IInv'
<1> DEFINE c == [cfg EXCEPT !.added = ps]
<1>1. c \in Configs /\ c.vocab = cfg.vocab /\ c.ignore = cfg.ignore /\ SetAdded(c)
  BY DEF SetAddedTokens, IInv, Configs
<1> HIDE DEF c
<1>2. \A p : (InVocab(c, p) <=> InVocab(cfg, p)) /\ VocabInv(c, p) = VocabInv(cfg, p)
  BY <1>1 DEF InVocab, VocabInv
<1> QED
  BY <1>1, <1>2, SetAddedInv

LEMMA AddSpecialTokenInv ==
    ASSUME IInv, NEW p \in Addable, NEW free \in BOOLEAN, AddSpecialToken(p, free)
    PROVE  IInv'
<1> DEFINE vocab == IF free THEN cfg.vocab \cup {<<p, -1>>} ELSE cfg.vocab
           c == [cfg EXCEPT !.added = @ \cup {p}, !.vocab = IF free THEN @ \cup {<<p, -1>>} ELSE @]
<1>1. cfg \in Configs /\ p \in Short /\ p \in Pretokens /\ SetAdded(c)
  BY PretokensAssumption DEF IInv, AddSpecialToken, Pretokens
<1>2. vocab \in SUBSET (Pretokens \X {-1, 0})
  BY <1>1 DEF Configs
<1>3. c.vocab = vocab /\ c.added = cfg.added \cup {p} /\ c.ignore = cfg.ignore
  BY <1>1 DEF Configs
<1>4. c \in Configs
  BY <1>1, <1>2 DEF Configs
<1> HIDE DEF c
<1>5. cfg.vocab \subseteq c.vocab /\ c.vocab \subseteq cfg.vocab \cup {<<p, -1>>}
  BY <1>3
<1>6. free => p \in Overwritten(c)
  <2>1. free => <<p, -1>> \in c.vocab /\ <<p, -1>>[1] = p
    BY <1>3
  <2>2. free => InVocab(c, p)
    BY <2>1 DEF InVocab
  <2> QED
    BY <1>1, <1>3, <2>2 DEF Overwritten, ShortVocab
<1>7. \A q : InVocab(cfg, q) => InVocab(c, q)
  BY <1>5 DEF InVocab
<1>8. ASSUME NEW q \in Pretokens \ Overwritten(c)
      PROVE  (InVocab(c, q) => InVocab(cfg, q)) /\ VocabInv(c, q) = VocabInv(cfg, q)
  <2>1. CASE free
    <3>1. q # p
      BY <1>6, <1>8, <2>1
    <3>2. <<p, -1>>[1] # q /\ <<q, -1>> # <<p, -1>>
      BY <3>1
    <3>3. InVocab(c, q) => InVocab(cfg, q)
      BY <1>5, <3>2 DEF InVocab
    <3>4. <<q, -1>> \in c.vocab <=> <<q, -1>> \in cfg.vocab
      BY <1>5, <3>2
    <3> QED
      BY <3>3, <3>4 DEF VocabInv
  <2>2. CASE ~free
    BY <1>3, <2>2 DEF InVocab, VocabInv
  <2> QED
    BY <2>1, <2>2
<1> QED
  BY <1>1, <1>3, <1>4, <1>7, <1>8, SetAddedInv

LEMMA ForkInv ==
    ASSUME IInv, NEW hint, Fork(hint)
    PROVE  IInv'
<1>1. cfg \in Configs /\ cfg' = cfg /\ encoded' = encoded
  BY DEF IInv, Fork
<1>2. Good(cfg, cache') /\ DOMAIN cache'.long = {}
  BY <1>1, SeededGood DEF Fork
<1>3. IsBudget(budget')
  BY Accounted DEF IInv, Fork
<1> QED
  BY <1>1, <1>2, <1>3 DEF IInv

LEMMA NextInv == IInv /\ [Next]_vars => IInv'
<1> SUFFICES ASSUME IInv, [Next]_vars PROVE IInv'
  OBVIOUS
<1>1. ASSUME NEW p \in Pretokens, Hit(p) PROVE IInv'
  BY <1>1 DEF Hit, Emit, IInv
<1>2. ASSUME NEW p \in Pretokens, MissShort(p) PROVE IInv'
  BY <1>2, MissShortInv
<1>3. ASSUME NEW p \in Pretokens, MissLong(p) PROVE IInv'
  BY <1>3, MissLongInv
<1>4. ASSUME NEW total \in Budgets, SetMaxCacheBytes(total) PROVE IInv'
  BY <1>4, SetMaxCacheBytesInv
<1>5. ASSUME LoaderPhase, NEW flag \in BOOLEAN, SetIgnoreMerges(flag) PROVE IInv'
  BY <1>5, SetIgnoreMergesInv
<1>6. ASSUME NEW ps \in SUBSET Addable, SetAddedTokens(ps) PROVE IInv'
  BY <1>6, SetAddedTokensInv
<1>7. ASSUME NEW p \in Addable, NEW free \in BOOLEAN, AddSpecialToken(p, free) PROVE IInv'
  BY <1>7, AddSpecialTokenInv
<1>8. ASSUME NEW hint \in {MinSlots, 4 * MinSlots}, Fork(hint) PROVE IInv'
  BY <1>8, ForkInv
<1>9. CASE UNCHANGED vars
  BY <1>9 DEF vars, IInv
<1> QED
  BY <1>1, <1>2, <1>3, <1>4, <1>5, <1>6, <1>7, <1>8, <1>9 DEF Next

LEMMA Invariant == Spec => []IInv
BY InitInv, NextInv, PTL DEF Spec

-----------------------------------------------------------------------------
(* The largest element of a finite set of numbers. *)
LEMMA LargestElement ==
    ASSUME NEW S \in SUBSET Nat, IsFiniteSet(S), S # {}
    PROVE  \E m \in S : \A x \in S : x <= m
<1> DEFINE bad == {n \in Nat : \E T \in SUBSET Nat : /\ IsFiniteSet(T) /\ T # {} /\ Cardinality(T) = n
                                                    /\ ~ \E m \in T : \A x \in T : x <= m}
<1> SUFFICES ASSUME bad # {} PROVE FALSE
  <2>1. Cardinality(S) \in Nat
    BY FS_CardinalityType
  <2> QED
    BY <2>1
<1>1. PICK n \in bad : \A k \in bad : n <= k
  <2>1. bad \in SUBSET Nat
    OBVIOUS
  <2> HIDE DEF bad
  <2> QED
    BY <2>1, LeastElement
<1>2. PICK T \in SUBSET Nat : /\ IsFiniteSet(T) /\ T # {} /\ Cardinality(T) = n
                              /\ ~ \E m \in T : \A x \in T : x <= m
  BY <1>1
<1>3. PICK t \in T : TRUE
  BY <1>2
<1> DEFINE r == T \ {t}
<1>4. IsFiniteSet(r) /\ Cardinality(r) = Cardinality(T) - 1 /\ Cardinality(r) \in Nat
  BY <1>2, <1>3, FS_RemoveElement, FS_CardinalityType
<1>5. t \in Nat /\ r \in SUBSET Nat /\ T = r \cup {t}
  BY <1>2, <1>3
<1>6. r # {}
  BY <1>2, <1>5
<1>7. Cardinality(r) \notin bad
  <2>1. ~(n <= Cardinality(r))
    BY <1>2, <1>4
  <2> HIDE DEF bad
  <2> QED
    BY <1>1, <2>1
<1>8. PICK m \in r : \A x \in r : x <= m
  BY <1>4, <1>5, <1>6, <1>7
<1> HIDE DEF r, bad
<1>9. m \in Nat
  BY <1>5
<1>10. CASE t <= m
  BY <1>2, <1>5, <1>8, <1>10
<1>11. CASE ~(t <= m)
  <2>1. \A x \in T : x <= t
    BY <1>5, <1>8, <1>9, <1>11
  <2> QED
    BY <1>2, <1>3, <2>1
<1> QED
  BY <1>10, <1>11

LEMMA MaxFacts ==
    ASSUME NEW S \in SUBSET Nat, IsFiniteSet(S), S # {}
    PROVE  Max(S) \in Nat /\ Max(S) \in S /\ \A x \in S : x <= Max(S)
<1>1. \E m \in S : \A x \in S : m >= x
  BY LargestElement
<1> QED
  BY <1>1 DEF Max

LEMMA MaxOfTwo ==
    ASSUME NEW a \in Int, NEW b \in Int
    PROVE  Max({a, b}) \in {a, b} /\ a <= Max({a, b}) /\ b <= Max({a, b})
BY DEF Max

LEMMA MinOfTwo ==
    ASSUME NEW a \in Int, NEW b \in Int
    PROVE  Min({a, b}) \in {a, b} /\ Min({a, b}) <= a /\ Min({a, b}) <= b
BY DEF Min

(* The image of a finite set of pretokens under a size. *)
LEMMA LargestSize ==
    ASSUME NEW P \in SUBSET Pretokens, P # {}, NEW f \in [Pretokens -> Nat]
    PROVE  /\ Max({f[p] : p \in P}) \in Nat
           /\ \A q \in P : f[q] <= Max({f[p] : p \in P})
<1> DEFINE S == {f[p] : p \in P}
           g == [p \in P |-> f[p]]
<1>1. IsFiniteSet(P)
  BY PretokensAssumption, FS_Subset
<1>2. g \in Surjection(P, S)
  BY DEF Surjection
<1>3. IsFiniteSet(S)
  BY <1>1, <1>2, FS_Surjection
<1>4. S # {} /\ S \in SUBSET Nat
  OBVIOUS
<1> QED
  BY <1>3, <1>4, MaxFacts

-----------------------------------------------------------------------------
(* The sizes of a cache.                                                      *)

(* The well-formed caches of a given size are a set. *)
Caches ==
    [short: UNION {[ps -> Entries] : ps \in SUBSET Short}, cap: Nat, arena: Seq(Tokens),
     long: UNION {[ps -> Entries] : ps \in SUBSET Long}]

LEMMA CachesAre ==
    ASSUME NEW ca
    PROVE  /\ ca \in Caches => IsCache(ca) /\ ca.cap \in Nat
           /\ IsCache(ca) /\ ca.cap \in Nat
              /\ ca.short = [p \in DOMAIN ca.short |-> ca.short[p]]
              /\ ca.long = [p \in DOMAIN ca.long |-> ca.long[p]] => ca \in Caches
<1>1. ASSUME ca \in Caches PROVE IsCache(ca) /\ ca.cap \in Nat
  <2>1. PICK ps \in SUBSET Short : ca.short \in [ps -> Entries]
    BY <1>1 DEF Caches
  <2>2. PICK qs \in SUBSET Long : ca.long \in [qs -> Entries]
    BY <1>1 DEF Caches
  <2>3. /\ ca = [short |-> ca.short, cap |-> ca.cap, arena |-> ca.arena, long |-> ca.long]
        /\ ca.arena \in Seq(Tokens) /\ ca.cap \in Nat
    BY <1>1 DEF Caches
  <2> QED
    BY <2>1, <2>2, <2>3 DEF IsCache
<1>2. ASSUME IsCache(ca), ca.cap \in Nat,
             ca.short = [p \in DOMAIN ca.short |-> ca.short[p]],
             ca.long = [p \in DOMAIN ca.long |-> ca.long[p]]
      PROVE  ca \in Caches
  <2>1. ca.short \in [DOMAIN ca.short -> Entries] /\ DOMAIN ca.short \in SUBSET Short
    BY <1>2 DEF IsCache
  <2>2. ca.long \in [DOMAIN ca.long -> Entries] /\ DOMAIN ca.long \in SUBSET Long
    BY <1>2 DEF IsCache
  <2>3. /\ ca.short \in UNION {[ps -> Entries] : ps \in SUBSET Short}
        /\ ca.long \in UNION {[ps -> Entries] : ps \in SUBSET Long}
    BY <2>1, <2>2
  <2>4. /\ ca = [short |-> ca.short, cap |-> ca.cap, arena |-> ca.arena, long |-> ca.long]
        /\ ca.arena \in Seq(Tokens) /\ ca.cap \in Nat
    BY <1>2 DEF IsCache
  <2> QED
    BY <2>3, <2>4 DEF Caches
<1> QED
  BY <1>1, <1>2

LEMMA PutFields ==
    ASSUME NEW ca, IsCache(ca), NEW p, NEW toks, NEW cb, cb = Put(ca, p, toks)
    PROVE  /\ DOMAIN cb.short = DOMAIN ca.short \cup {p}
           /\ cb.short = [q \in DOMAIN cb.short |-> cb.short[q]]
           /\ cb.cap = IF p \in DOMAIN ca.short THEN ca.cap
                       ELSE IF (Cardinality(DOMAIN ca.short) + 1) * 4 > ca.cap * 3 THEN 2 * ca.cap ELSE ca.cap
           /\ cb.arena = IF Len(toks) <= InlineMax \/ Len(toks) = 0 THEN ca.arena ELSE ca.arena \o toks
           /\ cb.long = ca.long
<1> DEFINE e == IF Len(toks) <= InlineMax THEN Inline(toks) ELSE Spill(Len(ca.arena), Len(toks))
           cap == IF p \in DOMAIN ca.short THEN ca.cap
                  ELSE IF (Cardinality(DOMAIN ca.short) + 1) * 4 > ca.cap * 3 THEN 2 * ca.cap ELSE ca.cap
           short == [q \in DOMAIN ca.short \cup {p} |-> IF q = p THEN e ELSE ca.short[q]]
           arena == IF e.len = 0 THEN ca.arena ELSE ca.arena \o toks
<1>1. ca = [short |-> ca.short, cap |-> ca.cap, arena |-> ca.arena, long |-> ca.long]
  BY DEF IsCache
<1>2. cb = [ca EXCEPT !.short = short, !.cap = cap, !.arena = arena]
  BY DEF Put
<1> HIDE DEF short, cap, arena
<1>3. cb = [short |-> short, cap |-> cap, arena |-> arena, long |-> ca.long]
  BY <1>1, <1>2
<1>4. cb.short = short /\ cb.cap = cap /\ cb.arena = arena /\ cb.long = ca.long
  BY ONLY <1>3
<1>5. e.len = 0 <=> Len(toks) <= InlineMax \/ Len(toks) = 0
  BY DEF Inline, Spill
<1> HIDE DEF e
<1>6. DOMAIN short = DOMAIN ca.short \cup {p} /\ short = [q \in DOMAIN short |-> short[q]]
  BY DEF short
<1> QED
  BY <1>4, <1>5, <1>6 DEF cap, arena

(* A table that can be filled and grown: required_capacity, and the growth check
   of its inserts. *)
Sized(ca) ==
    PowerOfTwo(ca.cap) /\ ca.cap >= 2 /\ Cardinality(DOMAIN ca.short) * 4 <= ca.cap * 3

LEMMA ShortCount ==
    ASSUME NEW ca, IsCache(ca)
    PROVE  IsFiniteSet(DOMAIN ca.short) /\ Cardinality(DOMAIN ca.short) \in Nat
<1>1. IsFiniteSet(DOMAIN ca.short)
  BY PretokensAssumption, FS_Subset DEF IsCache, Pretokens
<1> QED
  BY <1>1, FS_CardinalityType

(* One entry is put: the arena is what it was, and perhaps toks; the table has grown
   when it had to. *)
LEMMA PutSizes ==
    ASSUME NEW ca \in Caches, NEW p \in Short, NEW toks \in Seq(Tokens)
    PROVE  LET cb == Put(ca, p, toks)
           IN  /\ cb \in Caches /\ DOMAIN cb.short = DOMAIN ca.short \cup {p}
               /\ cb.arena = IF Len(toks) <= InlineMax THEN ca.arena ELSE ca.arena \o toks
               /\ cb.cap # ca.cap => /\ cb.cap = 2 * ca.cap /\ p \notin DOMAIN ca.short
                                     /\ (Cardinality(DOMAIN ca.short) + 1) * 4 > ca.cap * 3
               /\ Sized(ca) => Sized(cb)
<1> DEFINE cb == Put(ca, p, toks)
           put == [q \in {p} |-> toks]
           n == Cardinality(DOMAIN ca.short)
<1>1. IsCache(ca) /\ ca.cap \in Nat /\ n \in Nat /\ IsFiniteSet(DOMAIN ca.short)
  BY CachesAre, ShortCount
<1>2. /\ DOMAIN cb.short = DOMAIN ca.short \cup {p}
      /\ cb.short = [q \in DOMAIN cb.short |-> cb.short[q]]
      /\ cb.cap = IF p \in DOMAIN ca.short THEN ca.cap
                  ELSE IF (n + 1) * 4 > ca.cap * 3 THEN 2 * ca.cap ELSE ca.cap
      /\ cb.arena = IF Len(toks) <= InlineMax \/ Len(toks) = 0 THEN ca.arena ELSE ca.arena \o toks
      /\ cb.long = ca.long
  BY <1>1, PutFields
<1>3. put[p] = toks
  OBVIOUS
<1>4. IsCache(cb)
  <2>1. put[p] \in Seq(Tokens)
    BY <1>3
  <2> HIDE DEF put
  <2>2. HasPut(ca, Put(ca, p, put[p]), {p}, put)
    BY <1>1, <2>1, PutFacts
  <2> QED
    BY <1>3, <2>2 DEF HasPut
<1> HIDE DEF cb
<1>5. Len(toks) <= InlineMax \/ Len(toks) = 0 <=> Len(toks) <= InlineMax
  <2>1. Len(toks) \in Nat /\ InlineMax \in Nat
    BY PretokensAssumption
  <2> QED
    BY <2>1
<1> HIDE DEF n
<1>6. cb.cap \in Nat
  BY <1>1, <1>2
<1>7. cb \in Caches
  <2>1. ca.long = [q \in DOMAIN ca.long |-> ca.long[q]]
    BY DEF Caches
  <2> QED
    BY <1>2, <1>4, <1>6, <2>1, CachesAre
<1>8. DOMAIN cb.short = DOMAIN ca.short \cup {p}
  BY <1>2
<1>9. ASSUME Sized(ca) PROVE Sized(cb)
  <2>1. PowerOfTwo(ca.cap) /\ ca.cap >= 2 /\ n * 4 <= ca.cap * 3
    BY <1>9 DEF Sized, n
  <2>2. Cardinality(DOMAIN cb.short) = IF p \in DOMAIN ca.short THEN n ELSE n + 1
    BY <1>1, <1>8, FS_AddElement DEF n
  <2>3. PowerOfTwo(2 * ca.cap)
    BY <2>1, PowerFacts
  <2>4. CASE p \in DOMAIN ca.short
    BY <1>2, <2>1, <2>2, <2>4 DEF Sized
  <2>5. CASE p \notin DOMAIN ca.short
    <3>1. Cardinality(DOMAIN cb.short) = n + 1
      BY <2>2, <2>5
    <3>2. CASE (n + 1) * 4 > ca.cap * 3
      <4>1. cb.cap = 2 * ca.cap
        BY <1>2, <2>5, <3>2
      <4>2. (n + 1) * 4 <= (2 * ca.cap) * 3 /\ 2 * ca.cap >= 2
        BY <1>1, <2>1
      <4> QED
        BY <2>3, <3>1, <4>1, <4>2 DEF Sized
    <3>3. CASE ~((n + 1) * 4 > ca.cap * 3)
      <4>1. cb.cap = ca.cap /\ (n + 1) * 4 <= ca.cap * 3
        BY <1>1, <1>2, <2>5, <3>3
      <4> QED
        BY <2>1, <3>1, <4>1 DEF Sized
    <3> QED
      BY <3>2, <3>3
  <2> QED
    BY <2>4, <2>5
<1>10. cb.cap # ca.cap => cb.cap = 2 * ca.cap /\ p \notin DOMAIN ca.short /\ (n + 1) * 4 > ca.cap * 3
  BY <1>2
<1> QED
  BY <1>2, <1>5, <1>7, <1>8, <1>9, <1>10 DEF cb, n

(* Two caches filled with the same entries stay as alike as one entry leaves them. *)
LEMMA PutAllTwo ==
    ASSUME NEW ca, NEW cb, NEW toks, DOMAIN toks \subseteq Short, NEW R, <<ca, cb>> \in R,
           \A x, y : \A p \in DOMAIN toks :
               <<x, y>> \in R => <<Put(x, p, toks[p]), Put(y, p, toks[p])>> \in R
    PROVE  <<PutAll(ca, toks), PutAll(cb, toks)>> \in R
<1> DEFINE D == DOMAIN toks
           g == CHOOSE g : g = [s \in SUBSET D |-> PutStep(g, s, ca, toks)]
           h == CHOOSE h : h = [s \in SUBSET D |-> PutStep(h, s, cb, toks)]
<1>1. IsFiniteSet(D)
  BY PretokensAssumption, FS_Subset DEF Pretokens
<1> HIDE DEF D
<1>2. /\ g = [s \in SUBSET D |-> PutStep(g, s, ca, toks)]
      /\ h = [s \in SUBSET D |-> PutStep(h, s, cb, toks)]
  BY <1>1, FoldExists
<1>3. PutAll(ca, toks) = g[D] /\ PutAll(cb, toks) = h[D]
  BY PutAllFold DEF D
<1> HIDE DEF g, h
<1> DEFINE bad == {n \in Nat : \E s \in SUBSET D : Cardinality(s) = n /\ <<g[s], h[s]>> \notin R}
<1>4. bad = {}
  <2> SUFFICES ASSUME bad # {} PROVE FALSE
    OBVIOUS
  <2>1. PICK n \in bad : \A m \in bad : n <= m
    BY LeastElement
  <2>2. PICK s \in SUBSET D : Cardinality(s) = n /\ <<g[s], h[s]>> \notin R
    BY <2>1
  <2>3. g[s] = PutStep(g, s, ca, toks) /\ h[s] = PutStep(h, s, cb, toks) /\ IsFiniteSet(s)
    BY <1>1, <1>2, FS_Subset
  <2>4. s # {}
    BY <2>2, <2>3 DEF PutStep
  <2> DEFINE p == CHOOSE p \in s : TRUE
             r == s \ {p}
  <2>5. p \in s /\ IsFiniteSet(r) /\ Cardinality(s) \in Nat /\ Cardinality(r) = Cardinality(s) - 1
    BY <2>3, <2>4, OneLess
  <2>6. g[s] = Put(g[r], p, toks[p]) /\ h[s] = Put(h[r], p, toks[p])
    BY <2>3, <2>4 DEF PutStep
  <2> HIDE DEF p
  <2>7. Cardinality(r) \in Nat /\ Cardinality(r) < n /\ r \in SUBSET D
    BY <2>2, <2>5, FS_CardinalityType
  <2> HIDE DEF r
  <2>8. <<g[r], h[r]>> \in R
    BY <2>1, <2>7
  <2>9. p \in DOMAIN toks
    BY <2>5 DEF D
  <2> QED
    BY <2>2, <2>6, <2>8, <2>9
<1>5. Cardinality(D) \in Nat
  BY <1>1, FS_CardinalityType
<1> QED
  BY <1>3, <1>4, <1>5 DEF D

(* However much is put, the table holds it. *)
LEMMA PutAllSized ==
    ASSUME NEW ca \in Caches, Sized(ca), NEW toks, DOMAIN toks \subseteq Short,
           \A p \in DOMAIN toks : toks[p] \in Seq(Tokens)
    PROVE  PutAll(ca, toks) \in Caches /\ Sized(PutAll(ca, toks))
<1> DEFINE R == {x \in Caches : Sized(x)} \X {x \in Caches : Sized(x)}
<1>1. ASSUME NEW x \in Caches, Sized(x), NEW p \in DOMAIN toks
      PROVE  Put(x, p, toks[p]) \in Caches /\ Sized(Put(x, p, toks[p]))
  BY <1>1, PutSizes
<1>2. ASSUME NEW x, NEW y, NEW p \in DOMAIN toks, <<x, y>> \in R
      PROVE  <<Put(x, p, toks[p]), Put(y, p, toks[p])>> \in R
  BY <1>1, <1>2
<1>3. <<ca, ca>> \in R
  OBVIOUS
<1> HIDE DEF R
<1>4. <<PutAll(ca, toks), PutAll(ca, toks)>> \in R
  BY <1>2, <1>3, PutAllTwo
<1> QED
  BY <1>4 DEF R

(* A table with room for ps does not grow while the ps are put, and what the arena
   gets does not depend on the size of the table. *)
LEMMA PutAllFit ==
    ASSUME NEW ps \in SUBSET Short, NEW ca \in Caches, NEW cb \in Caches,
           DOMAIN ca.short \subseteq ps, DOMAIN cb.short \subseteq ps, ca.arena = cb.arena,
           Cardinality(ps) * 4 <= ca.cap * 3, Cardinality(ps) * 4 <= cb.cap * 3,
           NEW toks, DOMAIN toks \subseteq ps, \A p \in DOMAIN toks : toks[p] \in Seq(Tokens)
    PROVE  LET x == PutAll(ca, toks)
               y == PutAll(cb, toks)
           IN  /\ x \in Caches /\ y \in Caches /\ x.arena = y.arena /\ x.cap = ca.cap /\ y.cap = cb.cap
               /\ DOMAIN x.short \subseteq ps /\ DOMAIN y.short \subseteq ps
<1> DEFINE Like(c) == {x \in Caches : x.cap = c.cap /\ DOMAIN x.short \subseteq ps}
           R == {r \in Like(ca) \X Like(cb) : r[1].arena = r[2].arena}
<1>1. ASSUME NEW c \in Caches, Cardinality(ps) * 4 <= c.cap * 3, NEW x \in Like(c), NEW p \in DOMAIN toks
      PROVE  /\ Put(x, p, toks[p]) \in Like(c)
             /\ Put(x, p, toks[p]).arena = IF Len(toks[p]) <= InlineMax THEN x.arena ELSE x.arena \o toks[p]
  <2> DEFINE y == Put(x, p, toks[p])
             n == Cardinality(DOMAIN x.short)
  <2>1. /\ y \in Caches /\ DOMAIN y.short = DOMAIN x.short \cup {p}
        /\ y.arena = IF Len(toks[p]) <= InlineMax THEN x.arena ELSE x.arena \o toks[p]
    BY PutSizes
  <2>2. y.cap # x.cap => p \notin DOMAIN x.short /\ (n + 1) * 4 > x.cap * 3
    BY PutSizes
  <2> HIDE DEF y
  <2>3. DOMAIN y.short \subseteq ps
    BY <2>1
  <2>4. y.cap = c.cap
    <3>1. CASE p \in DOMAIN x.short
      BY <2>2, <3>1
    <3>2. CASE p \notin DOMAIN x.short
      <4>1. IsFiniteSet(ps) /\ IsFiniteSet(DOMAIN x.short) /\ n \in Nat
        BY PretokensAssumption, FS_Subset, ShortCount, CachesAre DEF Pretokens
      <4>2. Cardinality(DOMAIN y.short) = n + 1
        BY <2>1, <3>2, <4>1, FS_AddElement
      <4>3. n + 1 <= Cardinality(ps) /\ Cardinality(ps) \in Nat
        BY <2>3, <4>1, <4>2, FS_Subset, FS_CardinalityType
      <4>4. x.cap = c.cap /\ c.cap \in Nat
        BY CachesAre
      <4> HIDE DEF n
      <4>5. ~((n + 1) * 4 > x.cap * 3)
        BY <1>1, <4>1, <4>3, <4>4
      <4> QED
        BY <2>2, <4>4, <4>5
    <3> QED
      BY <3>1, <3>2
  <2> QED
    BY <2>1, <2>3, <2>4 DEF y
<1>2. ASSUME NEW x, NEW y, NEW p \in DOMAIN toks, <<x, y>> \in R
      PROVE  <<Put(x, p, toks[p]), Put(y, p, toks[p])>> \in R
  <2>1. x \in Like(ca) /\ y \in Like(cb) /\ x.arena = y.arena
    BY <1>2
  <2> HIDE DEF Like
  <2>2. /\ Put(x, p, toks[p]) \in Like(ca) /\ Put(y, p, toks[p]) \in Like(cb)
        /\ Put(x, p, toks[p]).arena = Put(y, p, toks[p]).arena
    BY <1>1, <2>1
  <2> QED
    BY <2>2
<1>3. <<ca, cb>> \in R
  OBVIOUS
<1> HIDE DEF R
<1>4. <<PutAll(ca, toks), PutAll(cb, toks)>> \in R
  BY <1>2, <1>3, PutAllTwo
<1> QED
  BY <1>4 DEF R

-----------------------------------------------------------------------------
(* The sizes of the seed.                                                     *)

SeedToks(c) == [p \in ShortVocab(c) |-> SeedSymbols(c, p)]
AddedToks(c) == [p \in Overwritten(c) |-> <<VocabInv(c, p)>>]

LEMMA ReseedPuts ==
    ASSUME NEW c \in Configs, NEW ca
    PROVE  /\ Overwrite(c, ca) = PutAll(ca, AddedToks(c))
           /\ Reseed(c, ca) = PutAll(PutAll(ca, SeedToks(c)), AddedToks(c))
           /\ DOMAIN SeedToks(c) = ShortVocab(c) /\ DOMAIN AddedToks(c) = Overwritten(c)
           /\ ShortVocab(c) \subseteq Short /\ Overwritten(c) \subseteq ShortVocab(c)
           /\ \A p \in DOMAIN SeedToks(c) : SeedToks(c)[p] \in Seq(Tokens)
           /\ \A p \in DOMAIN AddedToks(c) : AddedToks(c)[p] \in Seq(Tokens)
<1>1. /\ ShortVocab(c) \subseteq Short /\ Overwritten(c) \subseteq ShortVocab(c)
      /\ ShortVocab(c) \subseteq Pretokens
  BY DEF ShortVocab, Overwritten, Pretokens
<1>2. \A p \in ShortVocab(c) : SeedSymbols(c, p) \in Seq(Tokens) /\ <<VocabInv(c, p)>> \in Seq(Tokens)
  BY <1>1, SeedSymbolsType
<1>3. Overwrite(c, ca) = PutAll(ca, AddedToks(c))
  BY DEF Overwrite, AddedToks, Overwritten
<1>4. Reseed(c, ca) = PutAll(PutAll(ca, SeedToks(c)), AddedToks(c))
  BY DEF Reseed, Overwrite, SeedToks, AddedToks, Overwritten
<1> QED
  BY <1>1, <1>2, <1>3, <1>4 DEF SeedToks, AddedToks

(* A mutator may grow the table, and never beyond what its entries ask for. *)
LEMMA ReseedSized ==
    ASSUME NEW c \in Configs, NEW ca \in Caches, Sized(ca)
    PROVE  /\ Overwrite(c, ca) \in Caches /\ Sized(Overwrite(c, ca))
           /\ Reseed(c, ca) \in Caches /\ Sized(Reseed(c, ca))
<1> DEFINE cb == PutAll(ca, SeedToks(c))
<1>1. DOMAIN SeedToks(c) \subseteq Short /\ DOMAIN AddedToks(c) \subseteq Short
  BY ReseedPuts
<1>2. cb \in Caches /\ Sized(cb)
  BY <1>1, ReseedPuts, PutAllSized
<1> HIDE DEF cb
<1>3. PutAll(cb, AddedToks(c)) \in Caches /\ Sized(PutAll(cb, AddedToks(c)))
  BY <1>1, <1>2, ReseedPuts, PutAllSized
<1>4. PutAll(ca, AddedToks(c)) \in Caches /\ Sized(PutAll(ca, AddedToks(c)))
  BY <1>1, ReseedPuts, PutAllSized
<1> QED
  BY <1>3, <1>4, ReseedPuts DEF cb

LEMMA EmptyCache ==
    ASSUME NEW cap \in Nat
    PROVE  /\ Empty(cap) \in Caches /\ Empty(cap).cap = cap /\ Empty(cap).arena = <<>>
           /\ DOMAIN Empty(cap).short = {}
<1> DEFINE f == [p \in {} |-> <<>>]
<1>1. f \in [{} -> Entries] /\ {} \in SUBSET Short /\ {} \in SUBSET Long
  OBVIOUS
<1>2. /\ f \in UNION {[ps -> Entries] : ps \in SUBSET Short}
      /\ f \in UNION {[ps -> Entries] : ps \in SUBSET Long}
  BY <1>1
<1>3. Empty(cap) = [short |-> f, cap |-> cap, arena |-> <<>>, long |-> f] /\ <<>> \in Seq(Tokens)
  BY DEF Empty
<1>4. DOMAIN f = {}
  OBVIOUS
<1> HIDE DEF f
<1> DEFINE e == Empty(cap)
<1>5. e = [short |-> f, cap |-> cap, arena |-> <<>>, long |-> f]
  BY <1>3
<1> HIDE DEF e
<1>6. e \in Caches /\ e.cap = cap /\ e.arena = <<>> /\ e.short = f
  BY <1>2, <1>3, <1>5 DEF Caches
<1> QED
  BY <1>4, <1>6 DEF e

(* The arena of the seed, in tokens. *)
SeedLen(c) == Len(Seeded(c).arena)

(* Tables that have room for the seed do not grow while it is laid out, and the arena
   it leaves does not depend on their size. *)
LEMMA ReseedEmpty ==
    ASSUME NEW c \in Configs, NEW a \in Nat, NEW b \in Nat,
           Cardinality(ShortVocab(c)) * 4 <= a * 3, Cardinality(ShortVocab(c)) * 4 <= b * 3
    PROVE  LET x == Reseed(c, Empty(a))
               y == Reseed(c, Empty(b))
           IN  /\ x \in Caches /\ y \in Caches /\ x.arena = y.arena /\ x.cap = a /\ y.cap = b
               /\ DOMAIN x.short = ShortVocab(c) /\ DOMAIN y.short = ShortVocab(c)
<1> DEFINE ps == ShortVocab(c)
           x1 == PutAll(Empty(a), SeedToks(c))
           y1 == PutAll(Empty(b), SeedToks(c))
           x2 == PutAll(x1, AddedToks(c))
           y2 == PutAll(y1, AddedToks(c))
<1>0. ps \in SUBSET Short
  BY DEF ShortVocab
<1>1. /\ DOMAIN SeedToks(c) \subseteq ps /\ DOMAIN AddedToks(c) \subseteq ps
      /\ \A p \in DOMAIN SeedToks(c) : SeedToks(c)[p] \in Seq(Tokens)
      /\ \A p \in DOMAIN AddedToks(c) : AddedToks(c)[p] \in Seq(Tokens)
  BY ReseedPuts
<1>2. /\ Empty(a) \in Caches /\ Empty(b) \in Caches /\ Empty(a).arena = Empty(b).arena
      /\ Empty(a).cap = a /\ Empty(b).cap = b
      /\ DOMAIN Empty(a).short \subseteq ps /\ DOMAIN Empty(b).short \subseteq ps
  BY EmptyCache
<1>3. /\ x1 \in Caches /\ y1 \in Caches /\ x1.arena = y1.arena /\ x1.cap = a /\ y1.cap = b
      /\ DOMAIN x1.short \subseteq ps /\ DOMAIN y1.short \subseteq ps
  <2> DEFINE toks == SeedToks(c)
             e == Empty(a)
             f == Empty(b)
  <2>1. /\ e \in Caches /\ f \in Caches /\ DOMAIN e.short \subseteq ps /\ DOMAIN f.short \subseteq ps
        /\ e.arena = f.arena /\ e.cap = a /\ f.cap = b
        /\ Cardinality(ps) * 4 <= e.cap * 3 /\ Cardinality(ps) * 4 <= f.cap * 3
    BY <1>2
  <2>2. DOMAIN toks \subseteq ps /\ \A p \in DOMAIN toks : toks[p] \in Seq(Tokens)
    BY <1>1
  <2> HIDE DEF ps, toks, e, f
  <2>3. LET x == PutAll(e, toks)
            y == PutAll(f, toks)
        IN  /\ x \in Caches /\ y \in Caches /\ x.arena = y.arena /\ x.cap = e.cap /\ y.cap = f.cap
            /\ DOMAIN x.short \subseteq ps /\ DOMAIN y.short \subseteq ps
    BY <1>0, <2>1, <2>2, PutAllFit
  <2> QED
    BY <2>1, <2>3 DEF toks, e, f
<1> HIDE DEF x1, y1
<1>4. /\ x2 \in Caches /\ y2 \in Caches /\ x2.arena = y2.arena /\ x2.cap = a /\ y2.cap = b
      /\ DOMAIN x2.short \subseteq ps /\ DOMAIN y2.short \subseteq ps
  <2> DEFINE toks == AddedToks(c)
  <2>1. /\ x1 \in Caches /\ y1 \in Caches /\ DOMAIN x1.short \subseteq ps /\ DOMAIN y1.short \subseteq ps
        /\ x1.arena = y1.arena
        /\ Cardinality(ps) * 4 <= x1.cap * 3 /\ Cardinality(ps) * 4 <= y1.cap * 3
    BY <1>3
  <2>2. DOMAIN toks \subseteq ps /\ \A p \in DOMAIN toks : toks[p] \in Seq(Tokens)
    BY <1>1
  <2> HIDE DEF ps, toks
  <2>3. LET x == PutAll(x1, toks)
            y == PutAll(y1, toks)
        IN  /\ x \in Caches /\ y \in Caches /\ x.arena = y.arena /\ x.cap = x1.cap /\ y.cap = y1.cap
            /\ DOMAIN x.short \subseteq ps /\ DOMAIN y.short \subseteq ps
    BY <1>0, <2>1, <2>2, PutAllFit
  <2> QED
    BY <1>3, <2>3 DEF toks
<1>5. Reseed(c, Empty(a)) = x2 /\ Reseed(c, Empty(b)) = y2
  BY ReseedPuts DEF x1, y1
<1> HIDE DEF x2, y2
<1>6. ps \subseteq DOMAIN x2.short /\ ps \subseteq DOMAIN y2.short
  BY <1>5, SeededGood DEF Good
<1> QED
  BY <1>4, <1>5, <1>6

(* No more short words than the count the sizes are derived from. *)
SeedVocab(c) == {v \in c.vocab : v[1] \in Short}

LEMMA SeedCounts ==
    ASSUME NEW c \in Configs
    PROVE  /\ Cardinality(SeedVocab(c)) \in Nat /\ SeedCount(c) \in Nat
           /\ Cardinality(ShortVocab(c)) \in Nat
           /\ Cardinality(ShortVocab(c)) <= Cardinality(SeedVocab(c))
           /\ Cardinality(SeedVocab(c)) <= SeedCount(c)
<1> DEFINE V == SeedVocab(c)
           f == [v \in V |-> v[1]]
<1>1. IsFiniteSet(c.vocab) /\ IsFiniteSet(c.added)
  <2>1. IsFiniteSet({-1, 0})
    <3>1. {-1, 0} = {-1} \cup {0} /\ IsFiniteSet({-1})
      BY FS_Singleton
    <3> QED
      BY <3>1, FS_AddElement
  <2>2. IsFiniteSet(Pretokens \X {-1, 0}) /\ IsFiniteSet(Pretokens)
    BY <2>1, PretokensAssumption, FS_Product
  <2>3. c.vocab \in SUBSET (Pretokens \X {-1, 0}) /\ c.added \in SUBSET Pretokens
    BY PretokensAssumption DEF Configs, Pretokens
  <2> QED
    BY <2>2, <2>3, FS_Subset
<1>2. IsFiniteSet(V) /\ Cardinality(V) \in Nat /\ Cardinality(c.added) \in Nat
  BY <1>1, FS_Subset, FS_CardinalityType DEF SeedVocab
<1>3. f \in Surjection(V, ShortVocab(c))
  <2>1. \A v \in V : v[1] \in ShortVocab(c)
    BY DEF SeedVocab, ShortVocab, InVocab
  <2>2. \A p \in ShortVocab(c) : \E v \in V : v[1] = p
    BY DEF SeedVocab, ShortVocab, InVocab
  <2> HIDE DEF V
  <2> QED
    BY <2>1, <2>2 DEF Surjection
<1>4. IsFiniteSet(ShortVocab(c)) /\ Cardinality(ShortVocab(c)) <= Cardinality(V)
  BY <1>2, <1>3, FS_Surjection
<1>5. Cardinality(ShortVocab(c)) \in Nat
  BY <1>4, FS_CardinalityType
<1>6. SeedCount(c) = Cardinality(V) + Cardinality(c.added)
  BY DEF SeedCount, SeedVocab
<1> QED
  BY <1>2, <1>4, <1>5, <1>6

(* The sizes a table starts from. *)
LEMMA MinSlotsPower ==
    MinSlots \in Nat /\ MinSlots >= 2 /\ PowerOfTwo(MinSlots) /\ PowerOfTwo(4 * MinSlots)
<1>1. PICK d : IsDoubling(d, 2, MinSlots) /\ Doublings(2, MinSlots) = {d[k] : k \in 0..MinSlots}
  <2>1. MinSlots \in Nat /\ 2 \in Nat \ {0}
    BY SizesAssumption
  <2> QED
    BY <2>1, DoublingsFacts
<1>2. PowerOfTwo(2)
  <2>1. PICK e : IsDoubling(e, 1, 0) /\ Doublings(1, 0) = {e[k] : k \in 0..0}
    <3>1. 0 \in Nat /\ 1 \in Nat \ {0}
      OBVIOUS
    <3> QED
      BY <3>1, DoublingsFacts
  <2>2. 1 \in Doublings(1, 0) /\ 0 \in Nat
    BY <2>1 DEF IsDoubling
  <2>3. PowerOfTwo(1)
    BY <2>2 DEF PowerOfTwo
  <2>4. PowerOfTwo(2 * 1) /\ 2 * 1 = 2
    BY <2>3, PowerFacts
  <2> QED
    BY <2>4
<1>3. PICK k \in 0..MinSlots : MinSlots = d[k]
  BY <1>1, SizesAssumption
<1>4. \A i \in 0..MinSlots : PowerOfTwo(d[i]) /\ d[i] >= 2
  BY <1>1, <1>2, PowerDoubled, SizesAssumption
<1>5. PowerOfTwo(MinSlots) /\ MinSlots >= 2 /\ MinSlots \in Nat
  BY <1>3, <1>4, SizesAssumption
<1>6. PowerOfTwo(2 * (2 * MinSlots)) /\ 2 * (2 * MinSlots) = 4 * MinSlots
  BY <1>5, PowerFacts
<1> QED
  BY <1>5, <1>6

(* Every power of two up to n is 1 doubled up to n times. *)
LEMMA PowerReached ==
    ASSUME NEW n \in Nat, NEW x, PowerOfTwo(x), x <= n
    PROVE  x \in Doublings(1, n)
<1>1. PICK m \in Nat : x \in Doublings(1, m)
  BY DEF PowerOfTwo
<1>0. 1 \in Nat \ {0}
  OBVIOUS
<1>2. PICK d : IsDoubling(d, 1, m) /\ Doublings(1, m) = {d[k] : k \in 0..m}
  BY <1>0, DoublingsFacts
<1>3. PICK e : IsDoubling(e, 1, n) /\ Doublings(1, n) = {e[k] : k \in 0..n}
  BY <1>0, DoublingsFacts
<1>4. PICK k \in 0..m : x = d[k]
  BY <1>1, <1>2
<1>5. k \in Nat /\ 0 \in 0..m /\ k \in 0..m /\ k - 0 = k
  OBVIOUS
<1>6. d[0] + (k - 0) <= d[k]
  BY <1>2, <1>5, DoublesGrow
<1>7. d[0] = 1 /\ d[k] \in Nat
  BY <1>2 DEF IsDoubling
<1>8. k <= n /\ k \in 0..n
  BY <1>4, <1>5, <1>6, <1>7
<1>9. d[k] = e[k]
  BY <1>2, <1>3, <1>8, SameDoubles
<1> QED
  BY <1>3, <1>4, <1>8, <1>9

LEMMA SeededIs ==
    ASSUME NEW c \in Configs
    PROVE  /\ Seeded(c) \in Caches /\ Sized(Seeded(c)) /\ SeedLen(c) \in Nat
           /\ Seeded(c).cap = RequiredCapacity(SeedCount(c))
           /\ DOMAIN Seeded(c).short = ShortVocab(c)
<1> DEFINE n == SeedCount(c)
           cap == RequiredCapacity(n)
           ca == Seeded(c)
<1>1. n \in Nat /\ Cardinality(ShortVocab(c)) \in Nat /\ Cardinality(ShortVocab(c)) <= n
  BY SeedCounts
<1>2. cap \in Nat /\ PowerOfTwo(cap) /\ cap >= MinSlots /\ (n + 1) * 4 <= cap * 3
  <2> HIDE DEF n
  <2> QED
    BY <1>1, MinSlotsPower, GrownFacts DEF RequiredCapacity
<1>3. ca = Reseed(c, Empty(cap))
  BY DEF Seeded
<1> HIDE DEF cap, ca, n
<1>4. Cardinality(ShortVocab(c)) * 4 <= cap * 3
  BY <1>1, <1>2
<1>5. ca \in Caches /\ ca.cap = cap /\ DOMAIN ca.short = ShortVocab(c)
  BY <1>2, <1>3, <1>4, ReseedEmpty
<1>6. Sized(ca)
  BY <1>2, <1>4, <1>5, MinSlotsPower DEF Sized
<1>7. Len(ca.arena) \in Nat
  BY <1>5 DEF Caches
<1> QED
  BY <1>5, <1>6, <1>7 DEF ca, cap, n, SeedLen

(* What a wipe or a fork leaves: the seed, in a table that holds it. *)
LEMMA SeedAgain ==
    ASSUME NEW c \in Configs, NEW cap, PowerOfTwo(cap), cap >= 2,
           Cardinality(ShortVocab(c)) * 4 <= cap * 3
    PROVE  LET ca == Reseed(c, Empty(cap))
           IN  /\ ca \in Caches /\ Sized(ca) /\ ca.cap = cap
               /\ Len(ca.arena) = SeedLen(c) /\ DOMAIN ca.short = ShortVocab(c)
<1> DEFINE ca == Reseed(c, Empty(cap))
           n == SeedCount(c)
           full == RequiredCapacity(n)
<1>1. n \in Nat /\ Cardinality(ShortVocab(c)) \in Nat /\ Cardinality(ShortVocab(c)) <= n
  BY SeedCounts
<1>2. full \in Nat /\ (n + 1) * 4 <= full * 3
  <2> HIDE DEF n
  <2> QED
    BY <1>1, MinSlotsPower, GrownFacts DEF RequiredCapacity
<1>3. Seeded(c) = Reseed(c, Empty(full))
  BY DEF Seeded
<1> HIDE DEF full, n
<1>4. Cardinality(ShortVocab(c)) * 4 <= full * 3 /\ cap \in Nat
  BY <1>1, <1>2, PowerFacts
<1>5. /\ ca \in Caches /\ ca.cap = cap /\ DOMAIN ca.short = ShortVocab(c)
      /\ ca.arena = Seeded(c).arena
  BY <1>2, <1>3, <1>4, ReseedEmpty
<1> HIDE DEF ca
<1>6. Sized(ca)
  BY <1>5 DEF Sized
<1> QED
  BY <1>5, <1>6 DEF ca, SeedLen

(* A budget has room for the seed of c. *)
Fits(b, c) ==
    /\ PowerOfTwo(b.slots) /\ b.slots >= MinSlots /\ (SeedCount(c) + 1) * 4 <= b.slots * 3
    /\ b.arena \in Nat /\ b.arena >= 2 * SeedLen(c) + ArenaSlack
    /\ b.long \in Nat /\ b.long >= LongFloor
    /\ b.used \in Nat /\ b.giant \in Nat

LEMMA DeriveFits ==
    ASSUME NEW c \in Configs, NEW total \in Nat
    PROVE  Fits(Derive(total, c), c) /\ Derive(total, c).used = 0 /\ Derive(total, c).giant = 0
<1> DEFINE n == SeedCount(c)
           share == ((total \div SlotBytes) * 7) \div 10
           want == Max({share, MinSlots})
           powers == {size \in Doublings(1, want) : size <= want}
           base == Grown(n, Max(powers))
           slots == IF n * 8 > base * 5 THEN 2 * base ELSE base
           rem == Max({total - slots * SlotBytes, 0})
           arena == Max({(rem \div 2) \div 4, 2 * Len(Seeded(c).arena) + ArenaSlack})
           long == Max({rem \div 2, LongFloor})
<1>1. Derive(total, c) = [total |-> total, slots |-> slots, arena |-> arena, long |-> long,
                          used |-> 0, giant |-> 0]
  BY DEF Derive
<1>2. n \in Nat
  BY SeedCounts
<1>3. share \in Int
  BY SizesAssumption
<1> HIDE DEF share
<1>4. want \in Nat /\ MinSlots <= want
  BY <1>3, MinSlotsPower, MaxOfTwo
<1> HIDE DEF want
<1>5. powers \in SUBSET Nat /\ IsFiniteSet(powers) /\ MinSlots \in powers
  <2>1. MinSlots \in powers
    BY <1>4, MinSlotsPower, PowerReached
  <2>2. \A size \in powers : size \in Nat /\ size <= want
    BY <1>4, PowerFacts DEF PowerOfTwo
  <2> HIDE DEF powers
  <2>3. powers \in SUBSET (0..want)
    BY <1>4, <2>2
  <2>4. IsFiniteSet(0..want)
    BY <1>4, FS_Interval
  <2> QED
    BY <2>1, <2>2, <2>3, <2>4, FS_Subset
<1>6. Max(powers) \in powers /\ MinSlots <= Max(powers)
  <2> HIDE DEF powers
  <2> QED
    BY <1>5, MaxFacts
<1>7. PowerOfTwo(Max(powers)) /\ Max(powers) \in Nat
  BY <1>4, <1>5, <1>6 DEF PowerOfTwo
<1> HIDE DEF powers
<1>8. /\ base \in Nat /\ PowerOfTwo(base) /\ base >= Max(powers) /\ (n + 1) * 4 <= base * 3
  <2>1. Max(powers) > 1
    BY <1>6, <1>7, MinSlotsPower
  <2> HIDE DEF n
  <2> QED
    BY <1>2, <1>7, <2>1, GrownFacts
<1> HIDE DEF base, n
<1>9. slots \in Nat /\ PowerOfTwo(slots) /\ slots >= MinSlots /\ (n + 1) * 4 <= slots * 3
  <2>1. PowerOfTwo(2 * base)
    BY <1>8, PowerFacts
  <2>2. base >= MinSlots
    BY <1>6, <1>7, <1>8, MinSlotsPower
  <2>3. CASE n * 8 > base * 5
    BY <1>2, <1>8, <2>1, <2>2, <2>3, MinSlotsPower
  <2>4. CASE ~(n * 8 > base * 5)
    BY <1>8, <2>2, <2>4
  <2> QED
    BY <2>3, <2>4
<1> HIDE DEF slots
<1>10. rem \in Int
  <2> DEFINE x == total - slots * SlotBytes
  <2>1. x \in Int /\ rem = Max({x, 0})
    BY <1>9, SizesAssumption
  <2> HIDE DEF x, rem
  <2>2. 0 \in Int
    OBVIOUS
  <2>3. Max({x, 0}) \in {x, 0}
    BY <2>1, <2>2, MaxOfTwo
  <2> QED
    BY <2>1, <2>3
<1> HIDE DEF rem
<1>11. arena \in Nat /\ arena >= 2 * SeedLen(c) + ArenaSlack
  <2> DEFINE x == (rem \div 2) \div 4
             y == 2 * SeedLen(c) + ArenaSlack
  <2>1. SeedLen(c) \in Nat
    BY SeededIs
  <2>2. x \in Int /\ y \in Nat
    BY <1>10, <2>1, SizesAssumption
  <2>3. arena = Max({x, y})
    BY DEF SeedLen
  <2> HIDE DEF x, y, arena
  <2>4. x \in Int /\ y \in Int
    BY <2>2
  <2>5. Max({x, y}) \in {x, y} /\ y <= Max({x, y})
    BY <2>4, MaxOfTwo
  <2>6. arena \in Int /\ y <= arena
    BY <2>3, <2>4, <2>5
  <2> QED
    BY <2>2, <2>6 DEF y
<1>12. long \in Nat /\ long >= LongFloor
  <2>1. rem \div 2 \in Int /\ LongFloor \in Nat
    BY <1>10, SizesAssumption
  <2> QED
    BY <2>1, MaxOfTwo
<1> HIDE DEF arena, long
<1>13. ASSUME NEW b, b = Derive(total, c)
       PROVE  Fits(b, c) /\ b.used = 0 /\ b.giant = 0
  BY <1>1, <1>9, <1>11, <1>12, <1>13 DEF Fits, n
<1> QED
  BY <1>13

-----------------------------------------------------------------------------
(* The caches stay within the budget. *)

MaxWidth == Max({Width[p] : p \in Pretokens})
MaxKeyLen == Max({KeyLen[p] : p \in Long})

Within(b, ca) ==
    /\ ca.cap <= b.slots
    /\ Len(ca.arena) <= b.arena + b.giant + MaxWidth
    /\ b.used <= b.long + MaxKeyLen + EntryBytes

(* The second invariant: a table that could be filled the way it was, a budget that fits
   the seed, and caches within it. *)
Sizes ==
    /\ cache \in Caches /\ Sized(cache)
    /\ budget # Unbounded => Fits(budget, cfg) /\ Within(budget, cache)

(* No long pretoken needs more than the floor of the long map's share (64 KiB). *)
KeysFit == \A p \in Long : KeyLen[p] + EntryBytes <= LongFloor

(* If so, what the last wipe left does not ask for another. *)
Quiet == KeysFit /\ budget # Unbounded /\ out.wiped => ~SharesSpent

LEMMA Largest ==
    /\ MaxWidth \in Nat /\ MaxKeyLen \in Nat
    /\ \A p \in Pretokens : Width[p] <= MaxWidth
    /\ \A p \in Long : KeyLen[p] \in Nat /\ KeyLen[p] <= MaxKeyLen
<1>1. /\ Width \in [Pretokens -> Nat] /\ KeyLen \in [Pretokens -> Nat]
      /\ Long \in SUBSET Pretokens /\ Long # {} /\ Pretokens \in SUBSET Pretokens /\ Pretokens # {}
  BY PretokensAssumption DEF Pretokens
<1>2. MaxWidth \in Nat /\ \A p \in Pretokens : Width[p] <= MaxWidth
  BY <1>1, LargestSize DEF MaxWidth
<1>3. MaxKeyLen \in Nat /\ \A p \in Long : KeyLen[p] <= MaxKeyLen
  BY <1>1, LargestSize DEF MaxKeyLen
<1> QED
  BY <1>1, <1>2, <1>3

LEMMA SeedSymbolsLen ==
    ASSUME NEW c \in Configs, NEW p \in Pretokens
    PROVE  Len(SeedSymbols(c, p)) \in Nat /\ Len(SeedSymbols(c, p)) <= Width[p] /\ Width[p] \in Nat
<1>1. Width[p] \in Nat \ {0}
  BY PretokensAssumption
<1>2. Len(Merged(p)) = Width[p]
  <2>1. CASE Width[p] = 1
    BY <2>1 DEF Merged
  <2>2. CASE Width[p] # 1
    <3> DEFINE n == Width[p]
    <3>1. Merged(p) = [k \in 1..n |-> <<p, k>>] /\ n \in Nat
      BY <1>1, <2>2 DEF Merged
    <3> HIDE DEF n
    <3>2. Len(Merged(p)) = n
      BY <3>1
    <3> QED
      BY <3>2 DEF n
  <2> QED
    BY <2>1, <2>2
<1>3. Len(<<VocabInv(c, p)>>) = 1
  OBVIOUS
<1> QED
  BY <1>1, <1>2, <1>3 DEF SeedSymbols

(* d is b with other accounts. *)
Accounts(b, d, used, giant) ==
    /\ d.slots = b.slots /\ d.arena = b.arena /\ d.long = b.long
    /\ d.used = used /\ d.giant = giant

LEMMA AccountFields ==
    ASSUME NEW b, IsBudget(b), b # Unbounded, NEW used, NEW giant
    PROVE  /\ Accounts(b, [b EXCEPT !.used = used], used, b.giant)
           /\ Accounts(b, [b EXCEPT !.used = used, !.giant = giant], used, giant)
<1>1. b = [total |-> b.total, slots |-> b.slots, arena |-> b.arena,
           long |-> b.long, used |-> b.used, giant |-> b.giant]
  BY DEF IsBudget
<1> DEFINE b1 == [b EXCEPT !.used = used]
           b2 == [b EXCEPT !.used = used, !.giant = giant]
<1>2. b1 = [total |-> b.total, slots |-> b.slots, arena |-> b.arena,
            long |-> b.long, used |-> used, giant |-> b.giant]
  BY <1>1
<1>3. b2 = [b1 EXCEPT !.giant = giant]
  BY Zenon
<1> HIDE DEF b1, b2
<1>4. b2 = [total |-> b.total, slots |-> b.slots, arena |-> b.arena,
            long |-> b.long, used |-> used, giant |-> giant]
  BY <1>2, <1>3
<1>5. Accounts(b, b1, used, b.giant)
  BY ONLY <1>2 DEF Accounts
<1>6. Accounts(b, b2, used, giant)
  BY ONLY <1>4 DEF Accounts
<1> QED
  BY <1>5, <1>6 DEF b1, b2

(* With room for one more entry, or below the ceiling, one more entry is put without
   passing it. *)
Room(b, ca) == (Cardinality(DOMAIN ca.short) + 1) * 4 <= ca.cap * 3 \/ ca.cap < b.slots

LEMMA PutStays ==
    ASSUME NEW b, NEW ca \in Caches, Sized(ca), NEW p \in Short, NEW toks \in Seq(Tokens),
           PowerOfTwo(b.slots), ca.cap <= b.slots, Room(b, ca)
    PROVE  /\ Put(ca, p, toks) \in Caches /\ Sized(Put(ca, p, toks)) /\ Put(ca, p, toks).cap <= b.slots
           /\ Len(Put(ca, p, toks).arena) <= Len(ca.arena) + Len(toks)
<1> DEFINE cb == Put(ca, p, toks)
           n == Cardinality(DOMAIN ca.short)
<1>1. /\ cb \in Caches /\ Sized(cb)
      /\ cb.arena = IF Len(toks) <= InlineMax THEN ca.arena ELSE ca.arena \o toks
      /\ cb.cap # ca.cap => cb.cap = 2 * ca.cap /\ (n + 1) * 4 > ca.cap * 3
  BY PutSizes
<1> HIDE DEF cb
<1>2. /\ ca.arena \in Seq(Tokens) /\ Len(ca.arena) \in Nat /\ Len(toks) \in Nat
      /\ Len(ca.arena \o toks) = Len(ca.arena) + Len(toks)
  BY ConcatProperties DEF Caches
<1>3. Len(cb.arena) <= Len(ca.arena) + Len(toks)
  BY <1>1, <1>2
<1>4. n \in Nat /\ ca.cap \in Nat /\ b.slots \in Nat
  BY CachesAre, ShortCount, PowerFacts
<1>5. cb.cap <= b.slots
  <2>1. CASE cb.cap = ca.cap
    BY <2>1
  <2>2. CASE cb.cap # ca.cap
    <3>1. cb.cap = 2 * ca.cap /\ (n + 1) * 4 > ca.cap * 3
      BY <1>1, <2>2
    <3>2. ca.cap < b.slots
      <4> HIDE DEF n
      <4>1. (n + 1) * 4 <= ca.cap * 3 \/ ca.cap < b.slots
        BY DEF Room, n
      <4> QED
        BY <1>4, <3>1, <4>1
    <3>3. PowerOfTwo(ca.cap)
      BY DEF Sized
    <3> QED
      BY <3>1, <3>2, <3>3, NextPower
  <2> QED
    BY <2>1, <2>2
<1> QED
  BY <1>1, <1>3, <1>5 DEF cb

(* The cache a miss writes to: within the budget, and with room. *)
LEMMA BeforeFits ==
    ASSUME IInv, Sizes
    PROVE  /\ Before \in Caches /\ Sized(Before)
           /\ budget # Unbounded =>
                /\ Before.cap <= budget.slots /\ Room(budget, Before)
                /\ Len(Before.arena) <= budget.arena + budget.giant
                /\ OverBudget => Len(Before.arena) = SeedLen(cfg)
                /\ ~OverBudget => budget.used <= budget.long
<1>0. cfg \in Configs /\ Good(cfg, cache)
  BY DEF IInv
<1>1. /\ cache \in Caches /\ IsCache(cache) /\ cache.cap \in Nat /\ PowerOfTwo(cache.cap) /\ cache.cap >= 2
      /\ IsFiniteSet(DOMAIN cache.short) /\ Cardinality(DOMAIN cache.short) \in Nat
      /\ Cardinality(DOMAIN cache.short) * 4 <= cache.cap * 3
  BY CachesAre, ShortCount DEF Sizes, Sized
<1>2. Cardinality(ShortVocab(cfg)) * 4 <= cache.cap * 3
  <2>1. ShortVocab(cfg) \subseteq DOMAIN cache.short
    BY <1>0 DEF Good
  <2>2. Cardinality(ShortVocab(cfg)) <= Cardinality(DOMAIN cache.short)
    BY <1>1, <2>1, FS_Subset
  <2> QED
    BY <1>0, <1>1, <2>2, SeedCounts
<1>3. CASE ~OverBudget
  <2>1. Before = cache
    BY <1>3 DEF Before
  <2>2. ASSUME budget # Unbounded
        PROVE  /\ cache.cap <= budget.slots /\ Room(budget, cache)
               /\ Len(cache.arena) <= budget.arena + budget.giant /\ budget.used <= budget.long
    <3>1. Fits(budget, cfg) /\ Within(budget, cache)
      BY <2>2 DEF Sizes
    <3>2. ~TableFull /\ ~SharesSpent
      BY <1>3, <2>2 DEF OverBudget
    <3>3. budget.slots \in Nat /\ budget.arena \in Nat /\ budget.giant \in Nat /\ budget.long \in Nat
          /\ budget.used \in Nat /\ Len(cache.arena) \in Nat
      BY <1>1, <3>1, PowerFacts DEF Fits, Caches
    <3>4. Len(cache.arena) <= budget.arena + budget.giant /\ budget.used <= budget.long
      BY <3>2, <3>3 DEF SharesSpent
    <3>5. Room(budget, cache)
      BY <1>1, <3>2, <3>3, SMTT(30) DEF TableFull, Room
    <3> QED
      BY <3>1, <3>4, <3>5 DEF Within
  <2> QED
    BY <1>3, <2>1, <2>2 DEF Sizes
<1>4. CASE OverBudget
  <2>1. Before = Reseed(cfg, Empty(cache.cap))
    BY <1>4 DEF Before, Wiped
  <2>2. /\ Before \in Caches /\ Sized(Before) /\ Before.cap = cache.cap
        /\ Len(Before.arena) = SeedLen(cfg) /\ DOMAIN Before.short = ShortVocab(cfg)
    BY <1>0, <1>1, <1>2, <2>1, SeedAgain
  <2>3. Fits(budget, cfg) /\ Within(budget, cache) /\ budget # Unbounded
    BY <1>4 DEF Sizes, OverBudget
  <2>4. budget.slots \in Nat /\ budget.arena \in Nat /\ budget.giant \in Nat /\ SeedLen(cfg) \in Nat
        /\ ArenaSlack \in Nat
    BY <1>0, <2>3, PowerFacts, SeededIs, SizesAssumption DEF Fits
  <2>5. SeedLen(cfg) <= budget.arena + budget.giant
    BY <2>3, <2>4 DEF Fits
  <2>6. Before.cap <= budget.slots
    BY <2>2, <2>3 DEF Within
  <2>7. Room(budget, Before)
    <3>1. (Cardinality(ShortVocab(cfg)) + 1) * 4 <= budget.slots * 3
      BY <1>0, <2>3, <2>4, SeedCounts DEF Fits
    <3>2. Cardinality(ShortVocab(cfg)) \in Nat
      BY <1>0, SeedCounts
    <3> QED
      BY <1>1, <2>2, <2>4, <2>6, <3>1, <3>2 DEF Room
  <2> QED
    BY <1>4, <2>2, <2>5, <2>6, <2>7
<1> QED
  BY <1>3, <1>4

(* A budget with new accounts still fits. *)
LEMMA AccountsFit ==
    ASSUME NEW b, NEW c, Fits(b, c), NEW used \in Nat, NEW giant \in Nat,
           NEW d, Accounts(b, d, used, giant)
    PROVE  Fits(d, c)
BY DEF Accounts, Fits

(* What Within and Quiet ask of a budget and the caches after a step. *)
LEMMA SizesAfter ==
    ASSUME cache' \in Caches, Sized(cache'),
           budget' # Unbounded =>
              /\ Fits(budget', cfg') /\ Within(budget', cache')
              /\ out'.wiped /\ KeysFit => /\ Len(cache'.arena) <= budget'.arena + budget'.giant
                                          /\ budget'.used <= budget'.long
    PROVE  Sizes' /\ Quiet'
<1>1. Sizes'
  BY DEF Sizes
<1>2. ASSUME KeysFit, budget' # Unbounded, out'.wiped PROVE ~SharesSpent'
  <2>1. /\ Len(cache'.arena) <= budget'.arena + budget'.giant /\ budget'.used <= budget'.long
        /\ Fits(budget', cfg')
    BY <1>2
  <2>2. /\ Len(cache'.arena) \in Nat /\ budget'.arena \in Nat /\ budget'.giant \in Nat
        /\ budget'.used \in Nat /\ budget'.long \in Nat
    BY <2>1 DEF Fits, Caches
  <2> QED
    BY <2>1, <2>2 DEF SharesSpent
<1> QED
  BY <1>1, <1>2 DEF Quiet

(* A seed laid out anew, with nothing in the long map, is within any budget that fits. *)
LEMMA SeedWithin ==
    ASSUME NEW c \in Configs, NEW b, Fits(b, c), b.used = 0, NEW ca, ca.cap <= b.slots,
           Len(ca.arena) = SeedLen(c)
    PROVE  Within(b, ca) /\ Len(ca.arena) <= b.arena + b.giant /\ b.used <= b.long
<1>1. /\ SeedLen(c) \in Nat /\ ArenaSlack \in Nat /\ LongFloor \in Nat /\ EntryBytes \in Nat
      /\ MaxWidth \in Nat /\ MaxKeyLen \in Nat
  BY SeededIs, SizesAssumption, Largest
<1>2. /\ b.arena \in Nat /\ b.giant \in Nat /\ b.long \in Nat /\ b.arena >= 2 * SeedLen(c) + ArenaSlack
  BY DEF Fits
<1> QED
  BY <1>1, <1>2, SMTT(30) DEF Within

(* The table of the seed is within any ceiling that fits. *)
LEMMA SeededStays ==
    ASSUME NEW c \in Configs, NEW b, Fits(b, c), b.used = 0
    PROVE  /\ Within(b, Seeded(c))
           /\ Len(Seeded(c).arena) <= b.arena + b.giant /\ b.used <= b.long
<1>1. Seeded(c).cap = Grown(SeedCount(c), MinSlots)
  BY SeededIs DEF RequiredCapacity
<1>2. SeedCount(c) \in Nat /\ MinSlots \in Nat /\ MinSlots > 1 /\ PowerOfTwo(MinSlots)
  BY SeedCounts, MinSlotsPower
<1>3. PowerOfTwo(b.slots) /\ MinSlots <= b.slots /\ (SeedCount(c) + 1) * 4 <= b.slots * 3
  BY <1>2, PowerFacts DEF Fits
<1>4. Seeded(c).cap <= b.slots
  BY <1>1, <1>2, <1>3, GrownFacts
<1> QED
  BY <1>4, SeedWithin DEF SeedLen

LEMMA InitSizes == Init => Sizes /\ Quiet
<1> SUFFICES ASSUME Init PROVE Sizes /\ Quiet
  OBVIOUS
<1>1. cfg \in Configs
  BY InitInv DEF IInv
<1>2. cache = Seeded(cfg) /\ cache \in Caches /\ Sized(cache)
  BY <1>1, SeededIs DEF Init
<1>3. ASSUME budget # Unbounded PROVE Fits(budget, cfg) /\ Within(budget, cache)
  <2>1. PICK total \in Budgets : budget = IF total = Unbounded THEN Unbounded ELSE Derive(total, cfg)
    BY DEF Init
  <2>2. total \in Nat /\ budget = Derive(total, cfg)
    BY <1>3, <2>1, PretokensAssumption
  <2>3. Fits(budget, cfg) /\ budget.used = 0
    BY <1>1, <2>2, DeriveFits
  <2> QED
    BY <1>1, <1>2, <2>3, SeededStays
<1>4. out.wiped = FALSE
  BY DEF Init, NoOut
<1> QED
  BY <1>2, <1>3, <1>4 DEF Sizes, Quiet

(* A sum of bounded parts. *)
LEMMA AddUp ==
    ASSUME NEW a \in Nat, NEW t \in Nat, NEW w \in Nat, NEW m \in Nat, NEW x \in Nat,
           t <= w, w <= m, a <= x, NEW n, n <= a + t, n \in Nat
    PROVE  n <= x + m
OBVIOUS

(* A short miss: one entry more, in the table as it was or as the wipe left it. *)
LEMMA MissShortSizes ==
    ASSUME IInv, Sizes, NEW p \in Pretokens, MissShort(p)
    PROVE  Sizes' /\ Quiet'
<1> DEFINE toks == SeedSymbols(cfg, p)
           ca == Before
           cb == cache'
<1>1. /\ p \in Short /\ cfg' = cfg /\ out'.wiped = OverBudget
      /\ cb = ca \/ cb = Put(ca, p, toks)
      /\ budget' = IF OverBudget THEN [budget EXCEPT !.used = 0] ELSE budget
  BY DEF MissShort, Before, Emit
<1>2. cfg \in Configs /\ IsBudget(budget)
  BY DEF IInv
<1>3. toks \in Seq(Tokens) /\ Len(toks) \in Nat /\ Len(toks) <= Width[p] /\ Width[p] \in Nat
  BY <1>2, SeedSymbolsType, SeedSymbolsLen
<1>4. /\ ca \in Caches /\ Sized(ca)
      /\ budget # Unbounded =>
           /\ ca.cap <= budget.slots /\ Room(budget, ca)
           /\ Len(ca.arena) <= budget.arena + budget.giant
           /\ OverBudget => Len(ca.arena) = SeedLen(cfg)
           /\ ~OverBudget => budget.used <= budget.long
  BY BeforeFits
<1> HIDE DEF toks, ca
<1>5. cb \in Caches /\ Sized(cb)
  BY <1>1, <1>3, <1>4, PutSizes
<1>6. ASSUME budget # Unbounded
      PROVE  /\ Fits(budget', cfg') /\ Within(budget', cb)
             /\ out'.wiped => Len(cb.arena) <= budget'.arena + budget'.giant /\ budget'.used <= budget'.long
  <2>1. Fits(budget, cfg) /\ PowerOfTwo(budget.slots)
    BY <1>6 DEF Sizes, Fits
  <2>2. /\ budget.arena \in Nat /\ budget.giant \in Nat /\ budget.long \in Nat /\ budget.used \in Nat
        /\ budget.arena >= 2 * SeedLen(cfg) + ArenaSlack
    BY <2>1 DEF Fits
  <2>3. cb.cap <= budget.slots /\ Len(cb.arena) <= Len(ca.arena) + Len(toks) /\ Len(cb.arena) \in Nat
        /\ Len(ca.arena) \in Nat
    <3>1. Put(ca, p, toks).cap <= budget.slots /\ Len(Put(ca, p, toks).arena) <= Len(ca.arena) + Len(toks)
      BY <1>1, <1>3, <1>4, <1>6, <2>1, PutStays
    <3>2. Len(ca.arena) \in Nat /\ Len(cb.arena) \in Nat
      BY <1>4, <1>5 DEF Caches
    <3> QED
      BY <1>1, <1>3, <1>4, <1>6, <3>1, <3>2
  <2>4. PICK used \in Nat : /\ Accounts(budget, budget', used, budget.giant)
                            /\ used <= budget.long /\ Fits(budget', cfg)
    <3>1. CASE OverBudget
      <4>1. Accounts(budget, budget', 0, budget.giant)
        BY <1>1, <1>2, <1>6, <3>1, AccountFields
      <4>2. Fits(budget', cfg)
        BY <2>1, <2>2, <4>1, AccountsFit
      <4> QED
        BY <2>2, <4>1, <4>2
    <3>2. CASE ~OverBudget
      <4>1. Accounts(budget, budget', budget.used, budget.giant)
        BY <1>1, <3>2 DEF Accounts
      <4> QED
        BY <1>1, <1>4, <1>6, <2>1, <2>2, <3>2, <4>1
    <3> QED
      BY <3>1, <3>2
  <2>5. /\ budget'.slots = budget.slots /\ budget'.arena = budget.arena /\ budget'.long = budget.long
        /\ budget'.used = used /\ budget'.giant = budget.giant
    BY <2>4 DEF Accounts
  <2>6. /\ Width[p] <= MaxWidth /\ MaxWidth \in Nat /\ MaxKeyLen \in Nat /\ EntryBytes \in Nat
        /\ Width[p] <= ArenaSlack /\ ArenaSlack \in Nat /\ SeedLen(cfg) \in Nat
    BY <1>1, <1>2, Largest, SizesAssumption, SeededIs
  <2>7. Len(cb.arena) <= budget.arena + budget.giant + MaxWidth
    <3>1. Len(ca.arena) <= budget.arena + budget.giant
      BY <1>4, <1>6
    <3>2. budget.arena + budget.giant \in Nat
      BY <2>2
    <3> HIDE DEF cb
    <3> QED
      BY <1>3, <2>3, <2>6, <3>1, <3>2, AddUp
  <2>8. used <= budget.long + MaxKeyLen + EntryBytes
    BY <2>2, <2>4, <2>6
  <2>9. OverBudget => Len(cb.arena) <= budget.arena + budget.giant
    BY <1>3, <1>4, <1>6, <2>2, <2>3, <2>6, SMTT(30)
  <2>10. Within(budget', cb)
    BY <2>3, <2>5, <2>7, <2>8 DEF Within
  <2> QED
    BY <1>1, <2>4, <2>5, <2>9, <2>10
<1>7. budget' # Unbounded => budget # Unbounded
  BY <1>1 DEF OverBudget
<1> QED
  BY <1>5, <1>6, <1>7, SizesAfter

(* A long miss: its tokens go to the arena, its key to the long map's account. *)
PutLong(c, ca, p) ==
    [ca EXCEPT !.arena = @ \o SeedSymbols(c, p),
               !.long = [q \in DOMAIN @ \cup {p} |->
                            IF q = p THEN Spill(Len(ca.arena), Len(SeedSymbols(c, p))) ELSE @[q]]]

LEMMA LongPutSizes ==
    ASSUME NEW ca \in Caches, Sized(ca), NEW p \in Long, NEW c \in Configs, Good(c, ca), NEW cb,
           cb = PutLong(c, ca, p)
    PROVE  /\ cb \in Caches /\ Sized(cb) /\ cb.cap = ca.cap
           /\ Len(cb.arena) = Len(ca.arena) + Len(SeedSymbols(c, p))
<1> DEFINE toks == SeedSymbols(c, p)
           e == Spill(Len(ca.arena), Len(toks))
           long == [q \in DOMAIN ca.long \cup {p} |-> IF q = p THEN e ELSE ca.long[q]]
<1>1. ca = [short |-> ca.short, cap |-> ca.cap, arena |-> ca.arena, long |-> ca.long]
  BY DEF Caches
<1>2. cb = [ca EXCEPT !.arena = ca.arena \o toks, !.long = long]
  BY DEF PutLong
<1>3. toks \in Seq(Tokens) /\ ca.arena \in Seq(Tokens)
  BY SeedSymbolsType DEF Caches, Pretokens
<1>4. IsCache(cb)
  BY LongPut DEF Good, PutLong
<1> HIDE DEF toks, long
<1>5. cb = [short |-> ca.short, cap |-> ca.cap, arena |-> ca.arena \o toks, long |-> long]
  BY <1>1, <1>2
<1>6. cb.short = ca.short /\ cb.cap = ca.cap /\ cb.arena = ca.arena \o toks /\ cb.long = long
  BY ONLY <1>5
<1>7. long = [q \in DOMAIN long |-> long[q]]
  BY DEF long
<1>8. ca.short = [q \in DOMAIN ca.short |-> ca.short[q]] /\ ca.cap \in Nat
  BY DEF Caches
<1>9. cb \in Caches
  BY <1>4, <1>6, <1>7, <1>8, CachesAre
<1>10. Len(cb.arena) = Len(ca.arena) + Len(toks)
  BY <1>3, <1>6, ConcatProperties
<1> QED
  BY <1>6, <1>9, <1>10 DEF Sized, toks

LEMMA MissLongSizes ==
    ASSUME IInv, Sizes, NEW p \in Pretokens, MissLong(p)
    PROVE  Sizes' /\ Quiet'
<1> DEFINE toks == SeedSymbols(cfg, p)
           ca == Before
           cb == cache'
           was == IF OverBudget THEN 0 ELSE budget.used
           giant == Max({budget.giant, Len(toks)})
           used == was + KeyLen[p] + EntryBytes
<1>1. /\ p \in Long /\ cfg' = cfg /\ out'.wiped = OverBudget
      /\ cb = PutLong(cfg, ca, p)
      /\ budget' = IF budget = Unbounded THEN budget
                   ELSE [budget EXCEPT !.used = used, !.giant = giant]
  BY DEF MissLong, Before, Emit, PutLong
<1>2. cfg \in Configs /\ IsBudget(budget) /\ Good(cfg, ca)
  BY BeforeGood DEF IInv
<1>3. Len(toks) \in Nat /\ Len(toks) <= Width[p] /\ Width[p] \in Nat
  BY <1>2, SeedSymbolsLen
<1>4. /\ ca \in Caches /\ Sized(ca)
      /\ budget # Unbounded =>
           /\ ca.cap <= budget.slots
           /\ Len(ca.arena) <= budget.arena + budget.giant
           /\ OverBudget => Len(ca.arena) = SeedLen(cfg)
           /\ ~OverBudget => budget.used <= budget.long
  BY BeforeFits
<1>5. cb \in Caches /\ Sized(cb) /\ cb.cap = ca.cap /\ Len(cb.arena) = Len(ca.arena) + Len(toks)
  <2>1. p \in Long /\ ca \in Caches /\ Sized(ca)
    BY <1>1, <1>4
  <2> HIDE DEF ca, cb
  <2> QED
    BY <1>1, <1>2, <2>1, LongPutSizes
<1> HIDE DEF toks, ca, cb, giant, used
<1>6. ASSUME budget # Unbounded
      PROVE  /\ Fits(budget', cfg') /\ Within(budget', cb)
             /\ out'.wiped /\ KeysFit => /\ Len(cb.arena) <= budget'.arena + budget'.giant
                                         /\ budget'.used <= budget'.long
  <2>1. Fits(budget, cfg)
    BY <1>6 DEF Sizes
  <2>2. /\ budget.arena \in Nat /\ budget.giant \in Nat /\ budget.long \in Nat /\ budget.used \in Nat
        /\ budget.arena >= 2 * SeedLen(cfg) + ArenaSlack /\ budget.long >= LongFloor
    BY <2>1 DEF Fits
  <2>3. /\ Width[p] <= MaxWidth /\ MaxWidth \in Nat /\ MaxKeyLen \in Nat /\ EntryBytes \in Nat
        /\ ArenaSlack \in Nat /\ LongFloor \in Nat /\ SeedLen(cfg) \in Nat
        /\ KeyLen[p] \in Nat /\ KeyLen[p] <= MaxKeyLen
    BY <1>1, <1>2, Largest, SizesAssumption, SeededIs
  <2>4. was \in Nat /\ was <= budget.long /\ (OverBudget => was = 0)
    BY <1>4, <1>6, <2>2
  <2> HIDE DEF was
  <2>5. giant \in Nat /\ giant >= budget.giant /\ giant >= Len(toks)
    <3> DEFINE a == budget.giant
               b == Len(toks)
    <3>1. a \in Nat /\ b \in Nat /\ a \in Int /\ b \in Int /\ giant = Max({a, b})
      BY <1>3, <2>2 DEF giant
    <3> HIDE DEF a, b
    <3>2. Max({a, b}) \in {a, b} /\ a <= Max({a, b}) /\ b <= Max({a, b})
      BY <3>1, MaxOfTwo
    <3>3. giant \in Nat /\ giant >= a /\ giant >= b
      BY <3>1, <3>2
    <3> QED
      BY <3>3 DEF a, b
  <2>6. used = was + KeyLen[p] + EntryBytes /\ used \in Nat
    BY <2>3, <2>4 DEF used
  <2>7. Accounts(budget, budget', used, giant)
    BY <1>1, <1>2, <1>6, AccountFields
  <2>8. Fits(budget', cfg)
    BY <2>1, <2>5, <2>6, <2>7, AccountsFit
  <2>9. /\ budget'.slots = budget.slots /\ budget'.arena = budget.arena /\ budget'.long = budget.long
        /\ budget'.used = used /\ budget'.giant = giant
    BY <2>7 DEF Accounts
  <2>10. Len(ca.arena) \in Nat
    BY <1>4 DEF Caches
  <2>11. Len(cb.arena) <= budget.arena + giant + MaxWidth
    <3>1. Len(ca.arena) <= budget.arena + budget.giant
      BY <1>4, <1>6
    <3>2. Len(cb.arena) = Len(ca.arena) + Len(toks)
      BY <1>5
    <3>3. budget.arena + giant \in Nat /\ budget.arena + budget.giant <= budget.arena + giant
      BY <2>2, <2>5
    <3>4. Len(cb.arena) \in Nat
      BY <1>5 DEF Caches
    <3>5. ASSUME NEW n \in Nat, n <= budget.arena + budget.giant PROVE n <= budget.arena + giant
      BY <2>2, <2>5, <3>5
    <3>6. Len(ca.arena) <= budget.arena + giant
      BY <2>10, <3>1, <3>5
    <3> QED
      BY <1>3, <2>3, <2>10, <3>2, <3>3, <3>4, <3>6, AddUp
  <2>12. used <= budget.long + MaxKeyLen + EntryBytes
    BY <2>2, <2>3, <2>4, <2>6
  <2>13. OverBudget => Len(cb.arena) <= budget.arena + giant
    BY <1>3, <1>4, <1>5, <1>6, <2>2, <2>3, <2>5, <2>10, SMTT(30)
  <2>14. OverBudget /\ KeysFit => used <= budget.long
    <3>1. KeysFit => KeyLen[p] + EntryBytes <= LongFloor
      BY <1>1 DEF KeysFit
    <3> QED
      BY <2>2, <2>3, <2>4, <2>6, <3>1
  <2>15. Within(budget', cb)
    BY <1>4, <1>5, <1>6, <2>9, <2>11, <2>12 DEF Within
  <2> QED
    BY <1>1, <2>8, <2>9, <2>13, <2>14, <2>15
<1>7. budget' # Unbounded => budget # Unbounded
  BY <1>1
<1> QED
  BY <1>5, <1>6, <1>7, SizesAfter DEF cb

(* The mutators: with a budget, the seed laid out anew. *)
LEMMA ResetSizes ==
    ASSUME IInv, Sizes, NEW c \in Configs, NEW total, total = Unbounded \/ total \in Budgets, NEW ca,
           ResetTo(total, c, ca), cfg' = c, total = Unbounded => ca \in Caches /\ Sized(ca)
    PROVE  Sizes' /\ Quiet'
<1>1. CASE total = Unbounded
  <2>1. budget' = Unbounded /\ cache' = ca
    BY <1>1 DEF ResetTo
  <2> QED
    BY <1>1, <2>1, SizesAfter
<1>2. CASE total # Unbounded
  <2>1. budget' = Derive(total, c) /\ cache' = Seeded(c) /\ total \in Nat
    BY <1>2, PretokensAssumption DEF ResetTo
  <2>2. Fits(budget', c) /\ budget'.used = 0
    BY <2>1, DeriveFits
  <2>3. /\ Within(budget', cache')
        /\ Len(cache'.arena) <= budget'.arena + budget'.giant /\ budget'.used <= budget'.long
    BY <2>1, <2>2, SeededStays
  <2>4. cache' \in Caches /\ Sized(cache')
    BY <2>1, SeededIs
  <2> QED
    BY <2>2, <2>3, <2>4, SizesAfter
<1> QED
  BY <1>1, <1>2

LEMMA SetAddedSizes ==
    ASSUME IInv, Sizes, NEW c \in Configs, SetAdded(c)
    PROVE  Sizes' /\ Quiet'
<1> DEFINE outgoing == cfg.added \cap ShortVocab(c)
           toks == [p \in outgoing |-> SeedSymbols(c, p)]
           cb == PutAll(cache, toks)
<1>1. ResetTo(Total, c, Overwrite(c, cb)) /\ cfg' = c
  BY DEF SetAdded, Mutated, Rederive
<1>2. outgoing \subseteq Short /\ outgoing \subseteq Pretokens
  BY DEF ShortVocab, Pretokens
<1>3. DOMAIN toks \subseteq Short /\ \A p \in DOMAIN toks : toks[p] \in Seq(Tokens)
  BY <1>2, SeedSymbolsType
<1>4. cb \in Caches /\ Sized(cb)
  <2> HIDE DEF toks
  <2> QED
    BY <1>3, PutAllSized DEF Sizes
<1> HIDE DEF cb
<1>5. Overwrite(c, cb) \in Caches /\ Sized(Overwrite(c, cb))
  BY <1>4, ReseedSized
<1> QED
  BY <1>1, <1>5, TotalType, ResetSizes

LEMMA MutatorSizes ==
    ASSUME IInv, Sizes,
           \/ \E total \in Budgets : SetMaxCacheBytes(total)
           \/ \E flag \in BOOLEAN : SetIgnoreMerges(flag)
           \/ \E ps \in SUBSET Addable : SetAddedTokens(ps)
           \/ \E p \in Addable, free \in BOOLEAN : AddSpecialToken(p, free)
    PROVE  Sizes' /\ Quiet'
<1>0. cfg \in Configs /\ cache \in Caches /\ Sized(cache)
  BY DEF IInv, Sizes
<1>1. ASSUME NEW total \in Budgets, SetMaxCacheBytes(total) PROVE Sizes' /\ Quiet'
  <2>1. ResetTo(total, cfg, cache) /\ cfg' = cfg
    BY <1>1 DEF SetMaxCacheBytes
  <2> QED
    BY <1>0, <2>1, ResetSizes
<1>2. ASSUME NEW flag \in BOOLEAN, SetIgnoreMerges(flag) PROVE Sizes' /\ Quiet'
  <2> DEFINE c == [cfg EXCEPT !.ignore = flag]
  <2>1. c \in Configs /\ ResetTo(Total, c, Reseed(c, cache)) /\ cfg' = c
    BY <1>0, <1>2 DEF SetIgnoreMerges, Mutated, Rederive, Configs
  <2> HIDE DEF c
  <2>2. Reseed(c, cache) \in Caches /\ Sized(Reseed(c, cache))
    BY <1>0, <2>1, ReseedSized
  <2> QED
    BY <2>1, <2>2, TotalType, ResetSizes
<1>3. ASSUME NEW ps \in SUBSET Addable, SetAddedTokens(ps) PROVE Sizes' /\ Quiet'
  <2> DEFINE c == [cfg EXCEPT !.added = ps]
  <2>1. c \in Configs /\ SetAdded(c)
    BY <1>0, <1>3 DEF SetAddedTokens, Configs
  <2> HIDE DEF c
  <2> QED
    BY <2>1, SetAddedSizes
<1>4. ASSUME NEW p \in Addable, NEW free \in BOOLEAN, AddSpecialToken(p, free)
      PROVE  Sizes' /\ Quiet'
  <2> DEFINE vocab == IF free THEN cfg.vocab \cup {<<p, -1>>} ELSE cfg.vocab
             added == cfg.added \cup {p}
             c1 == [cfg EXCEPT !.added = added]
             c == [cfg EXCEPT !.added = @ \cup {p}, !.vocab = IF free THEN @ \cup {<<p, -1>>} ELSE @]
  <2>1. p \in Pretokens /\ SetAdded(c)
    BY <1>4, PretokensAssumption DEF AddSpecialToken, Pretokens
  <2>2. vocab \in SUBSET (Pretokens \X {-1, 0}) /\ added \in SUBSET Addable
    BY <1>0, <2>1 DEF Configs
  <2>3. c = [c1 EXCEPT !.vocab = vocab]
    BY <1>0 DEF Configs
  <2> HIDE DEF vocab, added, c
  <2>4. c \in Configs
    BY <1>0, <2>2, <2>3 DEF Configs
  <2> QED
    BY <2>1, <2>4, SetAddedSizes
<1> QED
  BY <1>1, <1>2, <1>3, <1>4

LEMMA ForkSizes ==
    ASSUME IInv, Sizes, NEW hint \in {MinSlots, 4 * MinSlots}, Fork(hint)
    PROVE  Sizes' /\ Quiet'
<1> DEFINE n == Cardinality(SeedVocab(cfg))
           floor == IF budget = Unbounded THEN hint ELSE Min({hint, budget.slots})
           cap == Grown(n, floor)
           cb == cache'
<1>1. /\ cb = Reseed(cfg, Empty(cap)) /\ cfg' = cfg
      /\ budget' = IF budget = Unbounded THEN budget ELSE [budget EXCEPT !.used = 0, !.giant = 0]
  BY DEF Fork, SeedVocab
<1>2. cfg \in Configs /\ IsBudget(budget)
  BY DEF IInv
<1>3. /\ n \in Nat /\ Cardinality(ShortVocab(cfg)) \in Nat /\ SeedCount(cfg) \in Nat
      /\ Cardinality(ShortVocab(cfg)) <= n /\ n <= SeedCount(cfg)
  BY <1>2, SeedCounts
<1>4. PowerOfTwo(hint) /\ hint \in Nat /\ hint >= MinSlots
  BY MinSlotsPower
<1>5. ASSUME budget # Unbounded
      PROVE  /\ Fits(budget, cfg) /\ PowerOfTwo(budget.slots) /\ budget.slots \in Nat
             /\ budget.slots >= MinSlots /\ (SeedCount(cfg) + 1) * 4 <= budget.slots * 3
  BY <1>5, PowerFacts DEF Sizes, Fits
<1>6. /\ PowerOfTwo(floor) /\ floor \in Nat /\ floor >= MinSlots
      /\ budget # Unbounded => floor <= budget.slots
  <2>1. CASE budget = Unbounded
    BY <1>4, <2>1
  <2>2. CASE budget # Unbounded
    <3> DEFINE b == budget.slots
    <3>1. b \in Nat /\ PowerOfTwo(b) /\ b >= MinSlots /\ floor = Min({hint, b})
      BY <1>5, <2>2
    <3> HIDE DEF b, floor
    <3>2. Min({hint, b}) \in {hint, b} /\ Min({hint, b}) <= b
      BY <1>4, <3>1, MinOfTwo, hint \in Int, b \in Int
    <3>3. floor \in {hint, b} /\ floor <= b
      BY <3>1, <3>2
    <3> QED
      BY <1>4, <3>1, <3>3 DEF b
  <2> QED
    BY <2>1, <2>2
<1> HIDE DEF floor, n
<1>7. /\ cap \in Nat /\ PowerOfTwo(cap) /\ cap >= floor /\ (n + 1) * 4 <= cap * 3
      /\ \A s : PowerOfTwo(s) /\ floor <= s /\ (n + 1) * 4 <= s * 3 => cap <= s
  <2>1. floor > 1
    BY <1>6, MinSlotsPower
  <2> QED
    BY <1>3, <1>6, <2>1, GrownFacts
<1> HIDE DEF cap, cb
<1>8. cap >= 2 /\ Cardinality(ShortVocab(cfg)) * 4 <= cap * 3
  BY <1>3, <1>6, <1>7, MinSlotsPower
<1>9. cb \in Caches /\ Sized(cb) /\ cb.cap = cap /\ Len(cb.arena) = SeedLen(cfg)
  BY <1>1, <1>2, <1>7, <1>8, SeedAgain
<1>10. ASSUME budget # Unbounded
       PROVE  /\ Fits(budget', cfg') /\ Within(budget', cb)
              /\ Len(cb.arena) <= budget'.arena + budget'.giant /\ budget'.used <= budget'.long
  <2>1. Accounts(budget, budget', 0, 0)
    BY <1>1, <1>2, <1>10, AccountFields
  <2>2. Fits(budget', cfg)
    BY <1>5, <1>10, <2>1, AccountsFit
  <2>3. (n + 1) * 4 <= budget.slots * 3
    BY <1>3, <1>5, <1>10
  <2>4. cap <= budget.slots
    BY <1>5, <1>6, <1>7, <1>10, <2>3
  <2>5. budget'.slots = budget.slots /\ budget'.used = 0
    BY <2>1 DEF Accounts
  <2> QED
    BY <1>1, <1>2, <1>9, <2>2, <2>4, <2>5, SeedWithin
<1>11. budget' # Unbounded => budget # Unbounded
  BY <1>1
<1> QED
  BY <1>9, <1>10, <1>11, SizesAfter DEF cb

LEMMA NextSizes == IInv /\ Sizes /\ Quiet /\ [Next]_vars => Sizes' /\ Quiet'
<1> SUFFICES ASSUME IInv, Sizes, Quiet, [Next]_vars PROVE Sizes' /\ Quiet'
  OBVIOUS
<1>1. ASSUME NEW p \in Pretokens, Hit(p) PROVE Sizes' /\ Quiet'
  <2>1. cache' = cache /\ budget' = budget /\ cfg' = cfg /\ out'.wiped = FALSE
    BY <1>1 DEF Hit, Emit
  <2> QED
    BY <2>1 DEF Sizes, Quiet
<1>2. ASSUME NEW p \in Pretokens, MissShort(p) PROVE Sizes' /\ Quiet'
  BY <1>2, MissShortSizes
<1>3. ASSUME NEW p \in Pretokens, MissLong(p) PROVE Sizes' /\ Quiet'
  BY <1>3, MissLongSizes
<1>4. ASSUME NEW hint \in {MinSlots, 4 * MinSlots}, Fork(hint) PROVE Sizes' /\ Quiet'
  BY <1>4, ForkSizes
<1>5. CASE UNCHANGED vars
  <2>1. cache' = cache /\ budget' = budget /\ cfg' = cfg /\ out' = out
    BY <1>5 DEF vars
  <2> QED
    BY <2>1 DEF Sizes, Quiet, SharesSpent
<1> QED
  BY <1>1, <1>2, <1>3, <1>4, <1>5, MutatorSizes DEF Next

LEMMA SizesInvariant == Spec => []Sizes /\ []Quiet
BY InitSizes, NextSizes, Invariant, PTL DEF Spec

-----------------------------------------------------------------------------
(* "Cache contents never affect encode output": through wipes, reseeds, forks and
   every mutator of src/src/bpe/tiktoken.rs, each entry stands for what its pretoken
   encodes to, and the arena it points into still holds it. *)
THEOREM CachesCoherent == Spec => []Coherent
<1>1. IInv => Coherent
  BY DEF IInv, Good, Holds, StandsFor, Coherent
<1> QED
  BY <1>1, Invariant, PTL

(* The vocabulary's short entries are always in the table, so a miss is never a
   pretoken whose entry an added token had overwritten. *)
THEOREM SeedAlwaysPresent == Spec => []SeedPresent
<1>1. IInv => SeedPresent
  BY DEF IInv, Good, SeedPresent
<1> QED
  BY <1>1, Invariant, PTL

(* An encode returns the tokens an empty cache would give, whatever was cached,
   wiped, reseeded or forked before (encode_pretoken and its misses). *)
THEOREM EmitsRight == Spec => EmitsExpected
<1>1. IInv /\ [Next]_vars =>
        [out'.pretoken \in Pretokens /\ out'.tokens = Expected(cfg, out'.pretoken)]_out
  <2> SUFFICES ASSUME IInv, Next, out' # out
               PROVE  out'.pretoken \in Pretokens /\ out'.tokens = Expected(cfg, out'.pretoken)
    BY DEF vars
  <2>1. PICK p \in Pretokens : Hit(p) \/ MissShort(p) \/ MissLong(p)
    BY DEF Next, SetMaxCacheBytes, SetIgnoreMerges, SetAddedTokens, AddSpecialToken, SetAdded,
           Mutated, Fork
  <2> QED
    BY <2>1, HitEmits, MissShortInv, MissLongInv
<1> QED
  BY <1>1, Invariant, PTL DEF Spec, EmitsExpected

(* What set_max_cache_bytes promises: at every step the table is within its ceiling, and
   the arena and the long map pass their shares by one encoding and by one entry at most
   (wipe_if_over_budget and the two misses that call it). *)
THEOREM StaysBounded == Spec => []Bounded
<1>1. Sizes => Bounded
  BY DEF Sizes, Within, Bounded, MaxWidth, MaxKeyLen
<1> QED
  BY <1>1, SizesInvariant, PTL

(* No "wipe per giant occurrence": when no key needs more than the floor of the long map's
   share, what a wipe and the insert after it leave never asks for another wipe, and the
   table always has room for the seed and one more entry. *)
THEOREM WipesDoNotThrash == KeysFit => (Spec => []NoThrash)
<1> SUFFICES ASSUME KeysFit PROVE Spec => []NoThrash
  OBVIOUS
<1>1. IInv /\ Sizes /\ Quiet => NoThrash
  <2> SUFFICES ASSUME IInv, Sizes, budget # Unbounded
               PROVE  (Cardinality(ShortVocab(cfg)) + 1) * 4 <= budget.slots * 3
    BY DEF NoThrash, Quiet
  <2>1. cfg \in Configs /\ Fits(budget, cfg)
    BY DEF IInv, Sizes
  <2>2. budget.slots \in Nat /\ (SeedCount(cfg) + 1) * 4 <= budget.slots * 3
    BY <2>1, PowerFacts DEF Fits
  <2> QED
    BY <2>1, <2>2, SeedCounts
<1> QED
  BY <1>1, Invariant, SizesInvariant, PTL

(* The tables and the configuration keep their types, and a table is never filled past
   three quarters of its slots. *)
THEOREM TypeCorrect == Spec => []TypeOK
<1>1. IInv /\ Sizes => TypeOK
  <2> SUFFICES ASSUME IInv, Sizes PROVE TypeOK
    OBVIOUS
  <2>1. cfg.added \subseteq Addable /\ {v[1] : v \in cfg.vocab} \subseteq Pretokens
    BY DEF IInv, Configs
  <2>2. DOMAIN cache.short \subseteq Short /\ DOMAIN cache.long \subseteq Long
    BY DEF IInv, Good, IsCache
  <2>3. Cardinality(DOMAIN cache.short) * 4 <= cache.cap * 3
    BY DEF Sizes, Sized
  <2>4. budget = Unbounded \/ budget.total \in Budgets
    BY DEF IInv, IsBudget
  <2> QED
    BY <2>1, <2>2, <2>3, <2>4 DEF IInv, TypeOK
<1> QED
  BY <1>1, Invariant, SizesInvariant, PTL
=============================================================================
