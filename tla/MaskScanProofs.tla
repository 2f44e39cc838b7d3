--------------------------- MODULE MaskScanProofs ---------------------------
(***************************************************************************)
(* The walker hands out exactly the tokens of the scalar walk, for every   *)
(* batch width, chunk and window, whatever texts the contract of TextMasks *)
(* holds of, and however next_span and fill calls are mixed.               *)
(***************************************************************************)
EXTENDS MaskScan, TLAPS, SequenceTheorems, WellFoundedInduction

(***************************************************************************)
(* Facts of the grid.                                                      *)
(***************************************************************************)
LEMMA FirstIsLeast ==
    ASSUME NEW S \in SUBSET Nat, S # {}
    PROVE  First(S) \in S /\ \A j \in S : First(S) <= j
<1>1. IsWellFoundedOn(OpToRel(<, Nat), Nat)
  BY NatLessThanWellFounded
<1>2. PICK k \in S : \A j \in S : ~(<<j, k>> \in OpToRel(<, Nat))
  BY <1>1, WFMin
<1>3. \A j \in S : ~(j < k)
  BY <1>2 DEF OpToRel
<1>4. \A j \in S : k <= j
  BY <1>3
<1>. QED
  BY <1>4 DEF First

LEMMA Multiple ==
    ASSUME NEW b \in Nat \ {0}, NEW q \in Nat
    PROVE  (q * b) % b = 0 /\ (q * b + b) % b = 0
OBVIOUS

LEMMA BaseFacts ==
    ASSUME NEW p \in Nat
    PROVE  /\ Base(p) \in Nat /\ Base(p) % W = 0
           /\ Base(p) <= p /\ p < Base(p) + W
<1>. DEFINE q == p \div W
<1>1. q \in Nat /\ p = (W * q) + (p % W) /\ p % W \in 0 .. W - 1
  BY Width
<1>2. W * q = q * W /\ W * q \in Nat /\ W \in Nat \ {0}
  BY <1>1, Width
<1>3. (q * W) % W = 0
  <2>. HIDE DEF q
  <2>. QED BY <1>1, <1>2, Multiple
<1>. QED
  BY <1>1, <1>2, <1>3, Width DEF Base

LEMMA NextBase ==
    ASSUME NEW s \in Nat, s % W = 0
    PROVE  (s + W) % W = 0
<1>. DEFINE q == s \div W
<1>1. q \in Nat /\ s = q * W
  BY Width
<1>2. (q * W + W) % W = 0
  <2>1. W \in Nat \ {0}
    BY Width
  <2>. HIDE DEF q
  <2>. QED BY <1>1, <2>1, Multiple
<1>. QED
  BY <1>1, <1>2

LEMMA BaseUnique ==
    ASSUME NEW s \in Nat, NEW p \in Nat, s % W = 0, s <= p, p < s + W
    PROVE  Base(p) = s
<1>. DEFINE q == s \div W
            r == p - s
<1>1. q \in Nat /\ s = q * W /\ r \in 0 .. W - 1 /\ p = q * W + r
  BY Width
<1>2. (q * W + r) \div W = q
  BY <1>1, Width
<1>. QED
  BY <1>1, <1>2, Width DEF Base

(***************************************************************************)
(* A text under the contract, seen from a start p: no start lies between p *)
(* and s; the walker may enter the batch at s with p pending; the starts   *)
(* of a batch that are trusted from p on.                                  *)
(***************************************************************************)
Clear(t, p, s) == \A q \in t.starts : q <= p \/ s <= q
Enterable(t, s, p) == (s \in Bases(t.len) => t.entry[s] <= p) /\ Clear(t, p, s)
Behind(t, s, p) == {b \in t.bad[s] : s + b >= p}
Clean(t, s, p) == \A b \in t.bad[s] : s + b < p
Live(t, s, p) ==
    {k \in Bits : s + k \in t.starts /\ s + k > p /\ \A b \in t.bad[s] : s + b >= p => k < b}

LEMMA TextFacts ==
    ASSUME NEW t, MaskContract(t)
    PROVE  /\ t.len \in Nat
           /\ \A q \in t.starts : q \in Nat /\ q <= t.len
           /\ 0 \in t.starts /\ t.len \in t.starts
           /\ \A s \in Bases(t.len) :
                /\ s \in Nat /\ s % W = 0 /\ s + W <= t.len
                /\ \A k \in t.usable[s] : k \in Bits /\ k \in Nat /\ k < W
                /\ \A b \in t.bad[s] : b \in Bits /\ b \in Nat /\ b < W
                /\ t.usable[s] \cap t.bad[s] = {}
                /\ t.entry[s] \in Nat
           /\ \A p \in t.starts : p < t.len =>
                /\ t.next[p] \in t.starts /\ p < t.next[p] /\ t.next[p] <= t.len
                /\ Clear(t, p, t.next[p])
BY Width, SMTT(30) DEF MaskContract, IsText, IsWalk, Bases, Clear, Bits

LEMMA NextUnique ==
    ASSUME NEW t, MaskContract(t), NEW p \in t.starts, NEW e \in t.starts, p < e, Clear(t, p, e)
    PROVE  p < t.len /\ e = t.next[p]
<1>1. p \in Nat /\ e \in Nat /\ p < t.len
  BY TextFacts
<1>2. t.next[p] \in t.starts /\ p < t.next[p] /\ Clear(t, p, t.next[p]) /\ t.next[p] \in Nat
  BY <1>1, TextFacts
<1>. QED
  BY <1>1, <1>2 DEF Clear

(* The lowest live bit is the end of the pending token. *)
LEMMA LiveFirst ==
    ASSUME NEW t, MaskContract(t), NEW s \in Bases(t.len), NEW p \in t.starts,
           Clear(t, p, s), Live(t, s, p) # {},
           NEW k, k = First(Live(t, s, p)), NEW e, e = s + k
    PROVE  /\ k \in Bits /\ e \in t.starts /\ p < e /\ p < t.len /\ e = t.next[p]
           /\ Clear(t, e, s)
           /\ Live(t, s, p) \ {k} = Live(t, s, e)
           /\ Clean(t, s, p) => Clean(t, s, e)
<1>. DEFINE L == Live(t, s, p)
<1>1. s \in Nat /\ p \in Nat /\ (\A q \in t.starts : q \in Nat) /\ (\A b \in t.bad[s] : b \in Nat) /\ (\A j \in Bits : j \in Nat)
  BY TextFacts, Width DEF Bits
<1>2. k \in L /\ \A j \in L : k <= j
  <2>1. L \in SUBSET Nat
    BY <1>1 DEF Live
  <2>2. L # {} /\ k = First(L)
    OBVIOUS
  <2>. HIDE DEF L
  <2>3. First(L) \in L /\ \A j \in L : First(L) <= j
    BY <2>1, <2>2, FirstIsLeast
  <2>. QED
    BY <2>2, <2>3
<1>3. k \in Bits /\ e \in t.starts /\ p < e /\ \A b \in t.bad[s] : s + b >= p => k < b
  BY <1>2 DEF Live
<1>4. Clear(t, p, e)
  <2>. SUFFICES ASSUME NEW q \in t.starts, p < q, q < e
                PROVE  FALSE
    BY <1>1, <1>3 DEF Clear
  <2>1. q \in Nat /\ s <= q
    BY <1>1 DEF Clear
  <2>. DEFINE j == q - s
  <2>2. j \in Bits /\ s + j = q /\ j < k
    BY <1>1, <1>3, <2>1, Width DEF Bits
  <2>3. j \in Nat /\ k \in Nat
    BY <1>1, <1>3, <2>2
  <2>. HIDE DEF j
  <2>4. \A b \in t.bad[s] : s + b >= p => j < b
    BY <1>1, <1>3, <2>2, <2>3
  <2>5. j \in L
    BY <2>2, <2>4 DEF Live
  <2>. QED
    BY <1>2, <2>2, <2>3, <2>5
<1>5. p < t.len /\ e = t.next[p]
  BY <1>3, <1>4, NextUnique
<1>6. Clear(t, e, s)
  BY <1>1, <1>3 DEF Clear
<1>7. L \ {k} = Live(t, s, e)
  <2>1. e \in Nat /\ k \in Nat /\ \A b \in t.bad[s] : s + b >= e => s + b >= p
    BY <1>1, <1>3
  <2>2. \A j \in Bits : s + j > e <=> k < j
    BY <1>1, <1>3
  <2>3. \A j \in Live(t, s, e) : j \in L /\ j # k
    BY <1>1, <1>3, <2>1, <2>2 DEF Live
  <2>4. ASSUME NEW j \in L, j # k  PROVE j \in Live(t, s, e)
    <3>1. j \in Bits /\ s + j \in t.starts /\ \A b \in t.bad[s] : s + b >= p => j < b
      BY DEF Live
    <3>2. j \in Nat /\ k < j
      BY <1>1, <1>2, <2>1, <2>4, <3>1
    <3>. QED
      BY <2>1, <2>2, <3>1, <3>2 DEF Live
  <2>. HIDE DEF L
  <2>. QED
    BY <2>3, <2>4
<1>8. Clean(t, s, p) => Clean(t, s, e)
  BY <1>1, <1>3 DEF Clean
<1>. QED
  BY <1>3, <1>5, <1>6, <1>7, <1>8

(* What the code loads is live. *)
LEMMA LoadIsLive ==
    ASSUME NEW t, MaskContract(t), NEW s \in Bases(t.len), NEW p \in t.starts,
           t.entry[s] <= p, p < s + W, NEW nb, nb = FirstOr(Behind(t, s, p), W)
    PROVE  {k \in t.usable[s] : s + k > p /\ k < nb} = Live(t, s, p)
<1>. DEFINE B == Behind(t, s, p)
<1>1. s \in Nat /\ p \in Nat /\ (\A k \in t.usable[s] : k \in Bits) /\ (\A b \in t.bad[s] : b \in Nat)
      /\ (\A k \in Bits : k \in Nat) /\ (\A k \in Bits : k < W)
  BY TextFacts, Width DEF Bits
<1>2. \A k \in Bits : k < nb <=> \A b \in B : k < b
  <2>1. CASE B = {}
    BY <1>1, <2>1 DEF FirstOr
  <2>2. CASE B # {}
    <3>1. B \in SUBSET Nat
      BY <1>1 DEF Behind
    <3>2. nb = First(B)
      BY <2>2 DEF FirstOr
    <3>3. nb \in B /\ (\A b \in B : nb <= b) /\ \A b \in B : b \in Nat
      <4>. HIDE DEF B
      <4>. QED BY <2>2, <3>1, <3>2, FirstIsLeast
    <3>. HIDE DEF B
    <3>. QED
      BY <1>1, <3>3
  <2>. QED
    BY <2>1, <2>2
<1>3. Trusted(t, s, p)
  BY DEF MaskContract
<1>4. \A k \in Bits : s + k > p /\ k < nb => (k \in t.usable[s] <=> s + k \in t.starts)
  BY <1>1, <1>2, <1>3 DEF Trusted, Behind
<1>5. \A k \in Bits : (\A b \in B : k < b) <=> \A b \in t.bad[s] : s + b >= p => k < b
  BY DEF Behind
<1>. QED BY <1>1, <1>2, <1>4, <1>5 DEF Live

LEMMA EnterBehind ==
    ASSUME NEW t, MaskContract(t), NEW s \in Nat, NEW p \in t.starts, s <= p
    PROVE  Enterable(t, s, p)
<1>1. p \in Nat /\ (\A q \in t.starts : q \in Nat)
  BY TextFacts
<1>2. Clear(t, p, s)
  BY <1>1 DEF Clear
<1>3. s \in Bases(t.len) => t.entry[s] <= p
  BY DEF MaskContract, IsEntry
<1>. QED
  BY <1>2, <1>3 DEF Enterable

LEMMA EnterLater ==
    ASSUME NEW t, MaskContract(t), NEW s \in Nat, NEW p \in t.starts, NEW e \in t.starts,
           Enterable(t, s, p), p <= e
    PROVE  Enterable(t, s, e)
<1>1. p \in Nat /\ e \in Nat /\ (\A q \in t.starts : q \in Nat)
  BY TextFacts
<1>2. s \in Bases(t.len) => t.entry[s] \in Nat
  BY TextFacts
<1>. QED
  BY <1>1, <1>2 DEF Enterable, Clear

(* A clean batch with no live bit left leads into the next one. *)
LEMMA EnterNext ==
    ASSUME NEW t, MaskContract(t), NEW s \in Bases(t.len), NEW p \in t.starts,
           Enterable(t, s, p), Clean(t, s, p), Live(t, s, p) = {}
    PROVE  Enterable(t, s + W, p)
<1>1. s \in Nat /\ p \in Nat /\ (\A q \in t.starts : q \in Nat) /\ (\A b \in t.bad[s] : b \in Nat)
      /\ s % W = 0 /\ W \in Nat /\ W > 0 /\ (\A k \in Bits : k \in Nat) /\ t.entry[s] \in Nat
  BY TextFacts, Width DEF Bits
<1>2. CASE s + W <= p
  <2>1. s + W \in Nat
    BY <1>1
  <2>. QED
    BY <1>2, <2>1, EnterBehind
<1>3. CASE p < s + W
  <2>1. Clear(t, p, s + W)
    <3>. SUFFICES ASSUME NEW q \in t.starts, p < q, q < s + W
                  PROVE  FALSE
      BY <1>1 DEF Clear
    <3>1. q \in Nat /\ s <= q
      BY <1>1 DEF Enterable, Clear
    <3>. DEFINE k == q - s
    <3>2. k \in Bits /\ s + k = q
      BY <1>1, <3>1 DEF Bits
    <3>3. \A b \in t.bad[s] : ~(s + b >= p)
      BY <1>1 DEF Clean
    <3>4. k \in Live(t, s, p)
      BY <3>2, <3>3 DEF Live
    <3>. QED
      BY <3>4
  <2>2. ASSUME s + W \in Bases(t.len)  PROVE t.entry[s + W] <= p
    <3>1. s + W > 0 /\ (s + W) - W = s
      BY <1>1
    <3>2. t.entry[s] < s + W
      BY <1>1, <1>3 DEF Enterable
    <3>3. ~ \E k \in t.bad[s] : s + k >= p
      BY <1>1 DEF Clean
    <3>4. ~Late(t, s + W, p)
      BY <1>1, <3>1, <3>2, <3>3 DEF Late
    <3>. QED
      BY <1>3, <2>1, <2>2, <3>1, <3>4 DEF MaskContract, IsEntry, Clear
  <2>. QED
    BY <2>1, <2>2 DEF Enterable
<1>. QED
  BY <1>1, <1>2, <1>3

(***************************************************************************)
(* The spans handed out, and the boundaries harvested from f on, are each  *)
(* the scalar walk from where they begin.                                  *)
(***************************************************************************)
EndOf(sp) == IF sp = <<>> THEN 0 ELSE sp[Len(sp)][2]
Tokens(t, sp) ==
    \A i \in 1 .. Len(sp) : /\ sp[i][1] = IF i = 1 THEN 0 ELSE sp[i - 1][2]
                           /\ sp[i][2] = t.next[sp[i][1]]
BufEnd(f, bf) == IF bf = <<>> THEN f ELSE f + bf[Len(bf)]
StartOf(f, bf, i) == f + IF i = 1 THEN 0 ELSE bf[i - 1]
Chained(t, f, bf) ==
    /\ bf \in Seq(Nat)
    /\ \A i \in 1 .. Len(bf) :
          /\ StartOf(f, bf, i) \in t.starts /\ StartOf(f, bf, i) < t.len
          /\ f + bf[i] = t.next[StartOf(f, bf, i)]

(***************************************************************************)
(* The boundaries harvested and the spans handed out.                      *)
(***************************************************************************)
LEMMA ChainEnd ==
    ASSUME NEW t, MaskContract(t), NEW f \in t.starts, NEW bf, Chained(t, f, bf)
    PROVE  /\ BufEnd(f, bf) \in t.starts /\ f <= BufEnd(f, bf)
           /\ \A i \in 1 .. Len(bf) : f + bf[i] \in t.starts
<1>1. f \in Nat /\ bf \in Seq(Nat)
  BY TextFacts DEF Chained
<1>2. \A i \in 1 .. Len(bf) : f + bf[i] \in t.starts /\ bf[i] \in Nat
  BY <1>1, TextFacts DEF Chained
<1>3. CASE bf = <<>>
  BY <1>1, <1>2, <1>3 DEF BufEnd
<1>4. CASE bf # <<>>
  <2>1. Len(bf) \in 1 .. Len(bf)
    BY <1>1, <1>4
  <2>. QED BY <1>1, <1>2, <1>4, <2>1 DEF BufEnd
<1>. QED BY <1>3, <1>4

LEMMA ChainPush ==
    ASSUME NEW t, MaskContract(t), NEW f \in t.starts, NEW bf, Chained(t, f, bf),
           NEW p, p = BufEnd(f, bf), p < t.len, NEW d, d = t.next[p] - f
    PROVE  Chained(t, f, Append(bf, d)) /\ BufEnd(f, Append(bf, d)) = t.next[p]
<1>. DEFINE b2 == Append(bf, d)
<1>1. f \in Nat /\ bf \in Seq(Nat) /\ p \in t.starts /\ p \in Nat /\ f <= p
  BY TextFacts, ChainEnd DEF Chained
<1>2. t.next[p] \in Nat /\ p < t.next[p]
  BY <1>1, TextFacts
<1>3. d \in Nat /\ f + d = t.next[p]
  BY <1>1, <1>2
<1>4. /\ b2 \in Seq(Nat) /\ Len(b2) = Len(bf) + 1 /\ Len(bf) \in Nat
      /\ b2[Len(bf) + 1] = d /\ \A i \in 1 .. Len(bf) : b2[i] = bf[i]
  BY <1>1, <1>3
<1>. HIDE DEF b2
<1>5. \A i \in 1 .. Len(bf) : StartOf(f, b2, i) = StartOf(f, bf, i)
  BY <1>4, SMTT(30) DEF StartOf
<1>6. StartOf(f, b2, Len(bf) + 1) = p
  <2>1. CASE bf = <<>>
    BY <1>1, <1>4, <2>1 DEF StartOf, BufEnd
  <2>2. CASE bf # <<>>
    <3>1. Len(bf) \in 1 .. Len(bf) /\ Len(bf) + 1 # 1 /\ (Len(bf) + 1) - 1 = Len(bf)
      BY <1>1, <2>2
    <3>. QED BY <1>4, <2>2, <3>1 DEF StartOf, BufEnd
  <2>. QED BY <2>1, <2>2
<1>7. \A i \in 1 .. Len(b2) : i \in 1 .. Len(bf) \/ i = Len(bf) + 1
  BY <1>4
<1>8. Chained(t, f, b2)
  <2>. SUFFICES ASSUME NEW i \in 1 .. Len(b2)
                PROVE  /\ StartOf(f, b2, i) \in t.starts /\ StartOf(f, b2, i) < t.len
                       /\ f + b2[i] = t.next[StartOf(f, b2, i)]
    BY <1>4 DEF Chained
  <2>1. CASE i \in 1 .. Len(bf)
    BY <1>4, <1>5, <2>1 DEF Chained
  <2>2. CASE i = Len(bf) + 1
    BY <1>1, <1>3, <1>4, <1>6, <2>2
  <2>. QED BY <1>7, <2>1, <2>2
<1>9. b2 # <<>> /\ BufEnd(f, b2) = f + d
  <2>1. b2 # <<>>
    BY <1>4
  <2>. QED BY <1>4, <2>1 DEF BufEnd
<1>. QED BY <1>3, <1>8, <1>9 DEF b2

LEMMA AppendSpan ==
    ASSUME NEW t, MaskContract(t), NEW sp \in Seq(Nat \X Nat), Tokens(t, sp),
           NEW p \in t.starts, p = EndOf(sp), p < t.len, NEW e, e = t.next[p]
    PROVE  /\ Append(sp, <<p, e>>) \in Seq(Nat \X Nat) /\ Tokens(t, Append(sp, <<p, e>>))
           /\ EndOf(Append(sp, <<p, e>>)) = e
           /\ e \in t.starts /\ p < e
<1>. DEFINE s2 == Append(sp, <<p, e>>)
<1>1. p \in Nat /\ e \in Nat /\ e \in t.starts /\ p < e
  BY TextFacts
<1>2. /\ s2 \in Seq(Nat \X Nat) /\ Len(s2) = Len(sp) + 1 /\ Len(sp) \in Nat
      /\ s2[Len(sp) + 1] = <<p, e>> /\ \A i \in 1 .. Len(sp) : s2[i] = sp[i]
  BY <1>1
<1>. HIDE DEF s2
<1>3. Tokens(t, s2)
  <2>. SUFFICES ASSUME NEW i \in 1 .. Len(s2)
                PROVE  /\ s2[i][1] = IF i = 1 THEN 0 ELSE s2[i - 1][2]
                       /\ s2[i][2] = t.next[s2[i][1]]
    BY DEF Tokens
  <2>1. CASE i \in 1 .. Len(sp)
    <3>1. i # 1 => i - 1 \in 1 .. Len(sp)
      BY <2>1, <1>2
    <3>. QED BY <1>2, <2>1, <3>1 DEF Tokens
  <2>2. CASE i = Len(sp) + 1
    <3>1. s2[i][1] = p /\ s2[i][2] = e
      BY <1>2, <2>2
    <3>2. CASE sp = <<>>
      BY <1>2, <2>2, <3>1, <3>2 DEF EndOf
    <3>3. CASE sp # <<>>
      <4>1. Len(sp) \in 1 .. Len(sp) /\ i # 1 /\ i - 1 = Len(sp)
        BY <1>2, <2>2, <3>3, SMTT(30)
      <4>. QED BY <1>2, <3>1, <3>3, <4>1 DEF EndOf
    <3>. QED BY <3>2, <3>3
  <2>. QED BY <1>2, <2>1, <2>2
<1>4. EndOf(s2) = e
  <2>1. s2 # <<>>
    BY <1>2
  <2>. QED BY <1>2, <2>1 DEF EndOf
<1>. QED BY <1>1, <1>2, <1>3, <1>4 DEF s2

Joined(sp, f, bf, m, s2) ==
    /\ Len(s2) = Len(sp) + m
    /\ \A i \in 1 .. Len(sp) : s2[i] = sp[i]
    /\ \A i \in 1 .. m : s2[Len(sp) + i][1] = StartOf(f, bf, i) /\ s2[Len(sp) + i][2] = f + bf[i]

LEMMA JoinTokens ==
    ASSUME NEW t, MaskContract(t), NEW sp \in Seq(Nat \X Nat), Tokens(t, sp),
           NEW f \in t.starts, f = EndOf(sp), NEW bf, Chained(t, f, bf),
           NEW m \in 1 .. Len(bf), NEW s2, Joined(sp, f, bf, m, s2)
    PROVE  Tokens(t, s2) /\ EndOf(s2) = f + bf[m]
<1>1. f \in Nat /\ bf \in Seq(Nat) /\ Len(bf) \in Nat /\ m \in Nat /\ m >= 1
  BY TextFacts DEF Chained
<1>2. \A i \in 1 .. m : /\ StartOf(f, bf, i) \in Nat /\ f + bf[i] \in Nat /\ f + bf[i] \in t.starts
                        /\ f + bf[i] = t.next[StartOf(f, bf, i)]
                        /\ i \in 1 .. Len(bf)
  <2>1. \A i \in 1 .. m : i \in 1 .. Len(bf)
    BY <1>1
  <2>2. \A i \in 1 .. m : /\ StartOf(f, bf, i) \in t.starts /\ f + bf[i] = t.next[StartOf(f, bf, i)]
    BY <2>1 DEF Chained
  <2>3. \A i \in 1 .. m : f + bf[i] \in t.starts
    BY <2>1, ChainEnd
  <2>. QED BY <2>1, <2>2, <2>3, TextFacts
<1>5. /\ Len(s2) = Len(sp) + m /\ Len(sp) \in Nat
      /\ \A i \in 1 .. Len(sp) : s2[i] = sp[i]
      /\ \A i \in 1 .. m : s2[Len(sp) + i][1] = StartOf(f, bf, i) /\ s2[Len(sp) + i][2] = f + bf[i]
  BY DEF Joined
<1>6. Tokens(t, s2)
  <2>. SUFFICES ASSUME NEW i \in 1 .. Len(s2)
                PROVE  /\ s2[i][1] = IF i = 1 THEN 0 ELSE s2[i - 1][2]
                       /\ s2[i][2] = t.next[s2[i][1]]
    BY DEF Tokens
  <2>1. CASE i \in 1 .. Len(sp)
    <3>1. i # 1 => i - 1 \in 1 .. Len(sp)
      BY <2>1, <1>5
    <3>. QED BY <1>5, <2>1, <3>1 DEF Tokens
  <2>2. CASE i \notin 1 .. Len(sp)
    <3>. DEFINE j == i - Len(sp)
    <3>1. j \in 1 .. m /\ i = Len(sp) + j
      BY <1>1, <1>5, <2>2
    <3>. HIDE DEF j
    <3>2. s2[i][1] = StartOf(f, bf, j) /\ s2[i][2] = f + bf[j]
      BY <1>5, <3>1
    <3>3. s2[i][2] = t.next[s2[i][1]]
      BY <1>2, <3>1, <3>2
    <3>4. CASE j = 1 /\ sp = <<>>
      <4>1. i = 1
        BY <3>1, <3>4
      <4>. QED BY <1>1, <3>2, <3>3, <3>4, <4>1 DEF StartOf, EndOf
    <3>5. CASE j = 1 /\ sp # <<>>
      <4>1. i # 1 /\ i - 1 = Len(sp) /\ Len(sp) \in 1 .. Len(sp)
        BY <1>5, <3>1, <3>5
      <4>2. s2[i - 1][2] = f
        BY <1>5, <3>5, <4>1 DEF EndOf
      <4>3. StartOf(f, bf, j) = f
        BY <1>1, <3>5 DEF StartOf
      <4>. QED BY <3>2, <3>3, <4>1, <4>2, <4>3
    <3>6. CASE j # 1
      <4>1. i # 1 /\ j - 1 \in 1 .. m /\ i - 1 = Len(sp) + (j - 1)
        BY <1>1, <1>5, <3>1, <3>6
      <4>2. s2[i - 1][2] = f + bf[j - 1]
        BY <1>5, <4>1
      <4>. QED BY <3>2, <3>3, <3>6, <4>1, <4>2 DEF StartOf
    <3>. QED BY <3>4, <3>5, <3>6
  <2>. QED BY <2>1, <2>2
<1>7. EndOf(s2) = f + bf[m]
  <2>1. Len(s2) # 0 /\ m \in 1 .. m
    BY <1>1, <1>5
  <2>2. s2 # <<>>
    BY <2>1, EmptySeq
  <2>. QED BY <1>5, <2>1, <2>2 DEF EndOf
<1>. QED BY <1>6, <1>7

Spans(f, bf, m) == [i \in 1 .. m |-> <<StartOf(f, bf, i), f + bf[i]>>]

LEMMA AppendSpans ==
    ASSUME NEW t, MaskContract(t), NEW sp \in Seq(Nat \X Nat), Tokens(t, sp),
           NEW f \in t.starts, f = EndOf(sp), NEW bf, Chained(t, f, bf),
           NEW m \in 1 .. Len(bf), NEW a, a = Spans(f, bf, m)
    PROVE  /\ sp \o a \in Seq(Nat \X Nat) /\ Tokens(t, sp \o a) /\ EndOf(sp \o a) = f + bf[m]
           /\ f + bf[m] \in t.starts
<1>1. f \in Nat /\ bf \in Seq(Nat) /\ Len(bf) \in Nat /\ m \in Nat /\ m >= 1
  BY TextFacts DEF Chained
<1>2. \A i \in 1 .. m : /\ StartOf(f, bf, i) \in Nat /\ f + bf[i] \in Nat /\ f + bf[i] \in t.starts
                        /\ f + bf[i] = t.next[StartOf(f, bf, i)]
                        /\ i \in 1 .. Len(bf)
  <2>1. \A i \in 1 .. m : i \in 1 .. Len(bf)
    BY <1>1
  <2>2. \A i \in 1 .. m : /\ StartOf(f, bf, i) \in t.starts /\ f + bf[i] = t.next[StartOf(f, bf, i)]
    BY <2>1 DEF Chained
  <2>3. \A i \in 1 .. m : f + bf[i] \in t.starts
    BY <2>1, ChainEnd
  <2>. QED BY <2>1, <2>2, <2>3, TextFacts
<1>3. a \in Seq(Nat \X Nat) /\ Len(a) = m
  BY <1>1, <1>2 DEF Spans
<1>4. \A i \in 1 .. m : a[i][1] = StartOf(f, bf, i) /\ a[i][2] = f + bf[i]
  BY <1>1 DEF Spans
<1>5. /\ sp \o a \in Seq(Nat \X Nat) /\ Len(sp \o a) = Len(sp) + Len(a)
      /\ \A i \in 1 .. Len(sp) + Len(a) : (sp \o a)[i] =
              IF i <= Len(sp) THEN sp[i] ELSE a[i - Len(sp)]
  BY <1>3, ConcatProperties, ZenonT(60)
<1>7. Len(sp) \in Nat /\ (\A i \in 1 .. Len(sp) : i \in 1 .. Len(sp) + m /\ i <= Len(sp))
  BY <1>1
<1>8. \A i \in 1 .. m : Len(sp) + i \in 1 .. Len(sp) + m /\ ~(Len(sp) + i <= Len(sp))
                        /\ (Len(sp) + i) - Len(sp) = i
  BY <1>1, <1>7
<1>. DEFINE new == sp \o a
<1>9. /\ new \in Seq(Nat \X Nat) /\ Len(new) = Len(sp) + m
      /\ \A i \in 1 .. Len(sp) : new[i] = sp[i]
  BY <1>3, <1>5, <1>7
<1>10. \A i \in 1 .. m : new[Len(sp) + i] = a[i]
  BY <1>3, <1>5, <1>8
<1>11. \A i \in 1 .. m : new[Len(sp) + i][1] = StartOf(f, bf, i) /\ new[Len(sp) + i][2] = f + bf[i]
  BY <1>4, <1>10
<1>12. Tokens(t, new) /\ EndOf(new) = f + bf[m]
  <2>1. Joined(sp, f, bf, m, new)
    <3>. HIDE DEF new
    <3>. QED BY <1>9, <1>11 DEF Joined
  <2>. HIDE DEF new
  <2>. QED BY <2>1, JoinTokens
<1>13. f + bf[m] \in t.starts
  BY ChainEnd
<1>. QED BY <1>9, <1>12, <1>13

(***************************************************************************)
(* The invariant.                                                          *)
(***************************************************************************)
PullModes == {"idle", "next"}
WindowModes == {"harvest", "segment", "flatten", "emit"}
FillModes == {"refill"} \cup WindowModes

Grid ==
    /\ text \in Texts /\ pos \in text.starts
    /\ scan \in Nat /\ scan % W = 0
    /\ mode \in PullModes \cup FillModes

Handed ==
    /\ spans \in Seq(Nat \X Nat) /\ Tokens(text, spans)
    /\ EndOf(spans) = IF mode \in PullModes THEN pos ELSE fill_base

(* Between batches; in the tail; in a batch whose bad bytes, if any, are   *)
(* bounded by scalar_until.                                                *)
Fresh == rem = {} /\ batch_bad = {} /\ scan <= pos /\ scalar_until <= pos
AtTail == rem = {} /\ batch_bad = {} /\ scalar_until = Never
Loaded ==
    /\ mask_base \in Bases(len) /\ scan = mask_base + W
    /\ Enterable(text, mask_base, pos)
    /\ batch_usable = text.usable[mask_base]
    /\ \/ /\ batch_bad = {} /\ scalar_until <= pos
          /\ rem = Live(text, mask_base, pos) /\ Clean(text, mask_base, pos)
       \/ /\ batch_bad # {} /\ batch_bad = text.bad[mask_base]
          /\ rem = {} \/ rem = Live(text, mask_base, pos)
          /\ mask_base <= scalar_until /\ scalar_until <= mask_base + W
PreRight == pre.base = Never \/ (pre.base \in Bases(len) /\ pre = MasksAt(pre.base))
Pulling ==
    /\ scalar_until \in Nat /\ PreRight
    /\ Fresh \/ AtTail \/ Loaded
    /\ mode = "next" => pos < len

(* A fill between windows, in a window, and where in it.                   *)
Refilling == mode = "refill" => n >= Chunk \/ Enterable(text, scan, fill_base)
InWindow ==
    mode \in WindowModes =>
        /\ n < Chunk /\ fill_base < len
        /\ Chained(text, fill_base, buf) /\ Enterable(text, scan, LastEnd)
Resumed ==
    mode \in {"harvest", "segment", "flatten"} =>
        resume \in Nat /\ resume <= LastEnd /\ overflow_end = None
Poised ==
    mode \in {"harvest", "segment"} /\ scan + W <= len =>
        /\ scan <= resume => resume = LastEnd /\ LastEnd < scan + W
        /\ resume < scan => LastEnd < scan
InBatch ==
    mode \in {"segment", "flatten"} => scan \in Bases(len) /\ scan - fill_base <= RelLimit
Flattening ==
    mode = "flatten" =>
        \/ /\ until = None /\ LastEnd < scan + W
           /\ bits = Live(text, scan, LastEnd) /\ Clean(text, scan, LastEnd)
        \/ /\ until \in Nat \ {None} /\ scan <= until /\ until <= scan + W
           /\ bits = {} \/ bits = Live(text, scan, LastEnd)
Emitting ==
    mode = "emit" => \/ overflow_end = None
                     \/ LastEnd < len /\ overflow_end = text.next[LastEnd]
Filling ==
    /\ fill_base \in text.starts /\ n \in Nat
    /\ Refilling /\ InWindow /\ Resumed /\ Poised /\ InBatch /\ Flattening /\ Emitting

IInv ==
    /\ Grid /\ Handed
    /\ mode \in PullModes => Pulling
    /\ mode \in FillModes => Filling

(* What the theorem asks of the texts: the schemes' contract. *)
TextsTrusted == \A t \in Texts : MaskContract(t)

(***************************************************************************)
(* What loading a batch yields: the live bits, and a scalar path aimed     *)
(* into the batch when a bad byte is left in it.                           *)
(***************************************************************************)
Aim(t, s, nb) == s + FirstOr({k \in t.usable[s] : k >= nb}, W)

LEMMA AimFacts ==
    ASSUME NEW t, MaskContract(t), NEW s \in Bases(t.len), NEW p \in t.starts,
           NEW nb, nb = FirstOr(Behind(t, s, p), W)
    PROVE  /\ Behind(t, s, p) = {} => Clean(t, s, p)
           /\ Behind(t, s, p) # {} =>
                /\ t.bad[s] # {}
                /\ Aim(t, s, nb) \in Nat /\ Aim(t, s, nb) > 0
                /\ s <= Aim(t, s, nb) /\ Aim(t, s, nb) <= s + W
<1>1. s \in Nat /\ p \in Nat /\ (\A k \in t.usable[s] : k \in Nat /\ k < W)
      /\ (\A b \in t.bad[s] : b \in Nat) /\ t.usable[s] \cap t.bad[s] = {} /\ W \in Nat /\ W > 0
  BY TextFacts, Width
<1>2. Behind(t, s, p) = {} => Clean(t, s, p)
  BY <1>1 DEF Behind, Clean
<1>3. ASSUME Behind(t, s, p) # {}
      PROVE  /\ t.bad[s] # {}
             /\ Aim(t, s, nb) \in Nat /\ Aim(t, s, nb) > 0
             /\ s <= Aim(t, s, nb) /\ Aim(t, s, nb) <= s + W
  <2>1. Behind(t, s, p) \in SUBSET Nat /\ nb = First(Behind(t, s, p))
    BY <1>1, <1>3 DEF Behind, FirstOr
  <2>2. nb \in Behind(t, s, p)
    BY <1>3, <2>1, FirstIsLeast
  <2>3. nb \in t.bad[s] /\ nb \in Nat
    BY <1>1, <2>2 DEF Behind
  <2>. DEFINE U == {k \in t.usable[s] : k >= nb}
              f == FirstOr(U, W)
  <2>4. f \in Nat /\ f > 0 /\ f <= W
    <3>1. CASE U = {}
      BY <1>1, <3>1 DEF FirstOr
    <3>2. CASE U # {}
      <4>1. U \in SUBSET Nat /\ (\A k \in U : k \in t.usable[s] /\ k >= nb) /\ f = First(U)
        BY <1>1, <3>2 DEF FirstOr
      <4>2. f \in U
        <5>. HIDE DEF U, f
        <5>. QED BY <3>2, <4>1, FirstIsLeast
      <4>3. f \in t.usable[s] /\ f >= nb
        BY <4>1, <4>2
      <4>. HIDE DEF U, f
      <4>4. f # nb
        BY <1>1, <2>3, <4>3
      <4>. QED BY <1>1, <2>3, <4>3, <4>4
    <3>. QED BY <3>1, <3>2
  <2>5. Aim(t, s, nb) = s + f
    BY DEF Aim
  <2>. HIDE DEF U, f
  <2>. QED BY <1>1, <2>3, <2>4, <2>5
<1>. QED BY <1>2, <1>3

LEMMA LoadFacts ==
    ASSUME NEW t, MaskContract(t), NEW s \in Bases(t.len), NEW p \in t.starts,
           t.entry[s] <= p, p < s + W, NEW from, from = IF p > s THEN p - s ELSE 0,
           NEW seg, seg = {k \in t.bad[s] : k >= from}, NEW nb, nb = FirstOr(seg, W)
    PROVE  /\ {k \in t.usable[s] : from <= k /\ k < nb /\ s + k # p} = Live(t, s, p)
           /\ seg = {} => Clean(t, s, p)
           /\ seg # {} =>
                /\ t.bad[s] # {}
                /\ Aim(t, s, nb) \in Nat /\ s <= Aim(t, s, nb) /\ Aim(t, s, nb) <= s + W
<1>1. s \in Nat /\ p \in Nat /\ (\A k \in t.usable[s] : k \in Nat) /\ \A b \in t.bad[s] : b \in Nat
  BY TextFacts
<1>2. \A k \in Nat : (k >= from <=> s + k >= p) /\ (from <= k /\ s + k # p => s + k > p)
  BY <1>1
<1>3. \A k \in Nat : s + k > p => from <= k /\ s + k # p
  BY <1>1
<1>4. seg = Behind(t, s, p)
  BY <1>1, <1>2 DEF Behind
<1>5. {k \in t.usable[s] : from <= k /\ k < nb /\ s + k # p} = {k \in t.usable[s] : s + k > p /\ k < nb}
  BY <1>1, <1>2, <1>3
<1>7. {k \in t.usable[s] : s + k > p /\ k < nb} = Live(t, s, p)
  BY <1>4, LoadIsLive
<1>. QED BY <1>4, <1>5, <1>7, AimFacts

(***************************************************************************)
(* Every step of next_span keeps the invariant.                            *)
(***************************************************************************)
LEMMA StateFacts ==
    ASSUME TextsTrusted, IInv
    PROVE  /\ MaskContract(text) /\ len = text.len /\ len \in Nat
           /\ pos \in Nat /\ pos <= len /\ scan \in Nat /\ W \in Nat /\ W > 0
           /\ mode \in FillModes => fill_base \in Nat /\ fill_base <= len
BY TextFacts, Width DEF TextsTrusted, IInv, Grid, Filling, len

LEMMA NextSpanKeeps == ASSUME IInv, NextSpan PROVE IInv'
BY DEF NextSpan, IInv, Grid, Handed, Pulling, Fresh, AtTail, Loaded, PreRight, MasksAt, Never, len,
       PullModes, FillModes, WindowModes, nextVars, fillVars

(* A token of next_span goes out. *)
LEMMA ReturnKeeps ==
    ASSUME TextsTrusted, IInv, mode = "next", NEW e, e = text.next[pos], Return(e), UNCHANGED text
    PROVE  /\ e \in text.starts /\ pos < e /\ pos < len /\ pos' = e /\ mode' = "idle"
           /\ Handed'
<1>1. MaskContract(text) /\ pos < text.len /\ pos \in text.starts /\ len = text.len
  BY StateFacts DEF IInv, Pulling, Grid, PullModes
<1>2. spans \in Seq(Nat \X Nat) /\ Tokens(text, spans) /\ EndOf(spans) = pos
  BY DEF IInv, Handed, PullModes
<1>3. pos' = e /\ spans' = Append(spans, <<pos, e>>) /\ mode' = "idle" /\ text' = text
  BY DEF Return
<1>4. /\ spans' \in Seq(Nat \X Nat) /\ Tokens(text, spans') /\ EndOf(spans') = e
      /\ e \in text.starts /\ pos < e
  BY <1>1, <1>2, <1>3, AppendSpan
<1>. QED BY <1>1, <1>3, <1>4 DEF Handed, PullModes

LEMMA PopKeeps == ASSUME TextsTrusted, IInv, Pop PROVE IInv'
<1>. DEFINE k == First(rem)
            e == mask_base + k
<1>1. MaskContract(text) /\ len = text.len /\ pos \in Nat /\ pos \in text.starts /\ mode = "next" /\ rem # {}
  BY StateFacts DEF Pop, IInv, Grid
<1>2. Loaded /\ PreRight /\ scalar_until \in Nat /\ rem = Live(text, mask_base, pos)
  BY <1>1 DEF IInv, Pulling, PullModes, Fresh, AtTail, Loaded
<1>3. mask_base \in Bases(text.len) /\ Enterable(text, mask_base, pos) /\ Clear(text, pos, mask_base)
      /\ mask_base \in Nat
  BY <1>1, <1>2, TextFacts DEF Loaded, Enterable
<1>4. /\ k \in Bits /\ e \in text.starts /\ e = text.next[pos] /\ pos < e
      /\ Live(text, mask_base, pos) \ {k} = Live(text, mask_base, e)
      /\ Clean(text, mask_base, pos) => Clean(text, mask_base, e)
  <2>1. k = First(Live(text, mask_base, pos)) /\ Live(text, mask_base, pos) # {} /\ e = mask_base + k
    BY <1>1, <1>2
  <2>. HIDE DEF k, e
  <2>. QED BY <1>1, <1>3, <2>1, LiveFirst
<1>5. /\ Return(e) /\ rem' = rem \ {k}
      /\ UNCHANGED <<text, scan, mask_base, batch_usable, batch_bad, scalar_until, pre, fillVars>>
  BY DEF Pop
<1>. HIDE DEF k, e
<1>6. pos' = e /\ mode' = "idle" /\ Handed'
  BY <1>1, <1>4, <1>5, ReturnKeeps
<1>7. Enterable(text, mask_base, e)
  BY <1>1, <1>3, <1>4, TextFacts, EnterLater
<1>8. e \in Nat
  BY <1>1, <1>4, TextFacts
<1>9. Loaded'
  BY <1>1, <1>2, <1>4, <1>5, <1>6, <1>7, <1>8 DEF Loaded, len
<1>10. Grid' /\ Pulling' /\ mode' \in PullModes /\ mode' \notin FillModes
  BY <1>1, <1>2, <1>4, <1>5, <1>6, <1>9
     DEF IInv, Grid, Pulling, PreRight, MasksAt, Never, len, PullModes, FillModes, WindowModes
<1>. QED BY <1>6, <1>10 DEF IInv

LEMMA ScalarKeeps == ASSUME TextsTrusted, IInv, Scalar PROVE IInv'
<1>. DEFINE e == text.next[pos]
<1>1. /\ MaskContract(text) /\ len = text.len /\ pos \in Nat /\ pos \in text.starts
      /\ mode = "next" /\ rem = {} /\ pos < scalar_until
  BY StateFacts DEF Scalar, IInv, Grid
<1>2. Pulling
  BY <1>1 DEF IInv, PullModes
<1>3. Return(e) /\ UNCHANGED <<text, scan, nextVars, fillVars>>
  BY DEF Scalar
<1>4. e \in text.starts /\ pos < e /\ pos' = e /\ mode' = "idle" /\ Handed'
  <2>1. e = text.next[pos]
    OBVIOUS
  <2>. HIDE DEF e
  <2>. QED BY <1>1, <1>3, <2>1, ReturnKeeps
<1>. HIDE DEF e
<1>5. AtTail \/ (Loaded /\ batch_bad # {})
  BY <1>1, <1>2 DEF Pulling, Fresh, Loaded
<1>6. Loaded => Loaded' \/ batch_bad = {}
  <2>. SUFFICES ASSUME Loaded, batch_bad # {} PROVE Loaded'
    OBVIOUS
  <2>1. mask_base \in Nat /\ Enterable(text, mask_base, pos)
    BY <1>1, TextFacts DEF Loaded
  <2>2. Enterable(text, mask_base, e)
    BY <1>1, <1>4, <2>1, TextFacts, EnterLater
  <2>. QED BY <1>1, <1>3, <1>4, <2>2 DEF Loaded, nextVars, len
<1>7. AtTail => AtTail'
  BY <1>3 DEF AtTail, nextVars, Never, len
<1>8. Grid' /\ Pulling' /\ mode' \in PullModes /\ mode' \notin FillModes
  BY <1>1, <1>2, <1>3, <1>4, <1>5, <1>6, <1>7
     DEF IInv, Grid, Pulling, PreRight, MasksAt, Never, len, PullModes, FillModes, WindowModes, nextVars
<1>. QED BY <1>4, <1>8 DEF IInv

(* What the batch at s holds for the pending token is loaded. *)
LEMMA LoadKeeps ==
    ASSUME TextsTrusted, IInv, Spent, NEW s \in Bases(text.len), Enterable(text, s, pos), pos < s + W,
           NEW from, from = IF pos > s THEN pos - s ELSE 0,
           LoadSegment(s, text.usable[s], text.bad[s], from),
           mask_base' = s, scan' = s + W, batch_usable' = text.usable[s], PreRight',
           UNCHANGED <<text, pos, mode, spans, fillVars>>
    PROVE  IInv'
<1>. DEFINE seg == {k \in text.bad[s] : k >= from}
            nb == FirstOr(seg, W)
<1>1. /\ MaskContract(text) /\ len = text.len /\ pos \in Nat /\ pos \in text.starts
      /\ mode = "next" /\ pos >= scalar_until /\ scalar_until \in Nat /\ pos < len
  BY StateFacts DEF Spent, IInv, Grid, Pulling, PullModes
<1>2. s \in Nat /\ s % W = 0 /\ text.entry[s] <= pos /\ (s + W) % W = 0 /\ s + W \in Nat
  <2>1. s \in Nat /\ s % W = 0 /\ text.entry[s] <= pos
    BY <1>1, TextFacts DEF Enterable
  <2>2. (s + W) % W = 0
    BY <2>1, NextBase
  <2>. QED BY <2>1, <2>2, Width
<1>3. /\ rem' = {k \in text.usable[s] : from <= k /\ k < nb /\ s + k # pos}
      /\ batch_bad' = IF seg = {} THEN {} ELSE text.bad[s]
      /\ scalar_until' = IF seg = {} THEN scalar_until ELSE Aim(text, s, nb)
  BY DEF LoadSegment, Aim
<1>4. /\ {k \in text.usable[s] : from <= k /\ k < nb /\ s + k # pos} = Live(text, s, pos)
      /\ seg = {} => Clean(text, s, pos)
      /\ seg # {} =>
           /\ text.bad[s] # {}
           /\ Aim(text, s, nb) \in Nat /\ s <= Aim(text, s, nb) /\ Aim(text, s, nb) <= s + W
  <2>1. seg = {k \in text.bad[s] : k >= from} /\ nb = FirstOr(seg, W)
    OBVIOUS
  <2>. HIDE DEF seg, nb
  <2>. QED BY <1>1, <1>2, <2>1, LoadFacts
<1>. HIDE DEF seg, nb
<1>5. rem' = Live(text, s, pos) /\ text' = text /\ pos' = pos /\ mode' = mode /\ spans' = spans
  BY <1>3, <1>4
<1>6. Loaded'
  <2>1. CASE seg = {}
    BY <1>1, <1>3, <1>4, <1>5, <2>1 DEF Loaded, len
  <2>2. CASE seg # {}
    BY <1>1, <1>3, <1>4, <1>5, <2>2 DEF Loaded, len
  <2>. QED BY <2>1, <2>2
<1>7. scalar_until' \in Nat
  BY <1>1, <1>3, <1>4
<1>8. Grid' /\ Handed' /\ Pulling'
  BY <1>1, <1>2, <1>5, <1>6, <1>7 DEF IInv, Grid, Handed, Pulling, PullModes, FillModes, WindowModes, len
<1>. QED BY <1>1, <1>5, <1>8 DEF IInv, FillModes, WindowModes

LEMMA NextSegmentKeeps == ASSUME TextsTrusted, IInv, NextSegment PROVE IInv'
<1>. DEFINE s == mask_base
            from == pos - mask_base
<1>1. /\ MaskContract(text) /\ len = text.len /\ pos \in Nat /\ Spent /\ MoreSegments
      /\ mode = "next" /\ pos >= scalar_until
  BY StateFacts DEF NextSegment, Spent
<1>2. Pulling /\ batch_bad # {} /\ pos < mask_base + W
  BY <1>1 DEF IInv, PullModes, MoreSegments
<1>3. Loaded /\ scalar_until \in Nat
  BY <1>2 DEF Pulling, Fresh, AtTail
<1>4. /\ s \in Bases(text.len) /\ Enterable(text, s, pos) /\ s \in Nat /\ s <= pos
      /\ batch_usable = text.usable[s] /\ batch_bad = text.bad[s] /\ scan = s + W
  BY <1>1, <1>2, <1>3, TextFacts DEF Loaded
<1>5. from = IF pos > s THEN pos - s ELSE 0
  BY <1>1, <1>4
<1>6. PreRight'
  BY <1>2 DEF NextSegment, Pulling, PreRight, MasksAt, Never, len
<1>7. /\ LoadSegment(s, text.usable[s], text.bad[s], from)
      /\ mask_base' = s /\ scan' = s + W /\ batch_usable' = text.usable[s]
      /\ UNCHANGED <<text, pos, mode, spans, fillVars>>
  BY <1>4 DEF NextSegment
<1>. QED BY <1>1, <1>2, <1>4, <1>5, <1>6, <1>7, LoadKeeps

LEMMA ForwardFacts ==
    ASSUME TextsTrusted, IInv, NEW p \in Nat, NEW s, s = Forward(scan, p)
    PROVE  s \in Nat /\ s % W = 0 /\ p < s + W /\ (s <= p \/ s = scan)
<1>1. scan \in Nat /\ scan % W = 0 /\ Base(p) \in Nat /\ Base(p) % W = 0 /\ Base(p) <= p /\ p < Base(p) + W
  BY BaseFacts DEF IInv, Grid
<1>2. CASE scan <= p
  BY <1>1, <1>2 DEF Forward
<1>3. CASE ~(scan <= p)
  BY <1>1, <1>3, Width DEF Forward
<1>. QED BY <1>2, <1>3

LEMMA RewindFacts ==
    ASSUME TextsTrusted, IInv, NEW p \in Nat, NEW s, s = Rewind(scan, p)
    PROVE  s \in Nat /\ s % W = 0 /\ s <= p
<1>1. scan \in Nat /\ scan % W = 0 /\ Base(p) \in Nat /\ Base(p) % W = 0 /\ Base(p) <= p
  BY BaseFacts DEF IInv, Grid
<1>. QED BY <1>1 DEF Rewind

LEMMA RefillKeeps == ASSUME TextsTrusted, IInv, Refill PROVE IInv'
<1>. DEFINE s == Forward(scan, pos)
            m == IF pre.base = s THEN pre ELSE MasksAt(s)
            from == IF pos > s THEN pos - s ELSE 0
<1>1. /\ MaskContract(text) /\ len = text.len /\ len \in Nat /\ pos \in Nat /\ pos \in text.starts
      /\ Spent /\ ~MoreSegments /\ mode = "next" /\ rem = {} /\ pos >= scalar_until /\ pos <= len
  BY StateFacts DEF Refill, Spent, IInv, Grid
<1>2. Pulling
  BY <1>1 DEF IInv, PullModes
<1>3. s \in Nat /\ s % W = 0 /\ pos < s + W /\ (s <= pos \/ s = scan)
  <2>1. s = Forward(scan, pos)
    OBVIOUS
  <2>. HIDE DEF s
  <2>. QED BY <1>1, <2>1, ForwardFacts
<1>4. /\ s + W <= len /\ mask_base' = s /\ scan' = s + W /\ batch_usable' = m.usable
      /\ pre' = IF s + W + W <= len THEN MasksAt(s + W) ELSE NoMasksAt
      /\ LoadSegment(s, m.usable, m.bad, from)
      /\ UNCHANGED <<text, pos, mode, spans, fillVars>>
  BY DEF Refill
<1>5. from = IF pos > s THEN pos - s ELSE 0
  OBVIOUS
<1>6. m = IF pre.base = s THEN pre ELSE MasksAt(s)
  OBVIOUS
<1>. HIDE DEF s, m, from
<1>7. s \in Bases(text.len) /\ s <= len
  BY <1>1, <1>3, <1>4, Width DEF Bases
<1>8. Enterable(text, s, pos)
  <2>1. CASE s <= pos
    BY <1>1, <1>3, <2>1, EnterBehind
  <2>2. CASE pos < s
    <3>1. s = scan
      BY <1>1, <1>3, <2>2
    <3>2. Loaded
      BY <1>1, <1>2, <1>3, <2>2, <3>1 DEF Pulling, Fresh, AtTail, Never
    <3>3. mask_base \in Bases(text.len) /\ Enterable(text, mask_base, pos) /\ s = mask_base + W
      BY <1>1, <3>1, <3>2 DEF Loaded
    <3>4. Live(text, mask_base, pos) = {} /\ Clean(text, mask_base, pos)
      BY <1>1, <2>2, <3>2, <3>3 DEF Loaded, MoreSegments
    <3>. QED BY <1>1, <3>3, <3>4, EnterNext
  <2>. QED BY <1>1, <1>3, <2>1, <2>2
<1>9. m.usable = text.usable[s] /\ m.bad = text.bad[s]
  <2>1. CASE pre.base = s
    <3>1. pre = MasksAt(s)
      BY <1>1, <1>2, <1>7, <2>1 DEF Pulling, PreRight, Never, len
    <3>. QED BY <1>6, <2>1, <3>1 DEF MasksAt
  <2>2. CASE pre.base # s
    BY <1>6, <2>2 DEF MasksAt
  <2>. QED BY <2>1, <2>2
<1>10. PreRight'
  <2>1. (s + W) % W = 0
    BY <1>3, NextBase
  <2>2. CASE s + W + W <= len
    <3>1. s + W \in Bases(text.len)
      BY <1>1, <1>3, <2>1, <2>2, Width DEF Bases
    <3>. QED BY <1>4, <2>2, <3>1 DEF PreRight, MasksAt, len
  <2>3. CASE ~(s + W + W <= len)
    BY <1>4, <2>3 DEF PreRight, NoMasksAt, Never, len
  <2>. QED BY <2>2, <2>3
<1>. QED BY <1>1, <1>3, <1>4, <1>5, <1>7, <1>8, <1>9, <1>10, LoadKeeps

LEMMA RefillTailKeeps == ASSUME TextsTrusted, IInv, RefillTail PROVE IInv'
<1>. DEFINE s == Forward(scan, pos)
<1>1. /\ len = text.len /\ len \in Nat /\ pos \in Nat /\ mode = "next" /\ rem = {}
      /\ scan' = s /\ batch_bad' = {} /\ scalar_until' = Never
      /\ UNCHANGED <<text, pos, mask_base, rem, batch_usable, pre, mode, spans, fillVars>>
  BY StateFacts DEF RefillTail, Spent
<1>2. s \in Nat /\ s % W = 0
  <2>1. s = Forward(scan, pos)
    OBVIOUS
  <2>. HIDE DEF s
  <2>. QED BY <1>1, <2>1, ForwardFacts
<1>. HIDE DEF s
<1>3. Pulling /\ Grid /\ Handed
  BY <1>1 DEF IInv, PullModes
<1>4. AtTail'
  BY <1>1 DEF AtTail, Never, len
<1>5. Pulling'
  BY <1>1, <1>3, <1>4 DEF Pulling, PreRight, MasksAt, Never, len
<1>6. Grid' /\ Handed'
  BY <1>1, <1>2, <1>3 DEF Grid, Handed, PullModes
<1>. QED BY <1>1, <1>5, <1>6 DEF IInv, FillModes, WindowModes

(***************************************************************************)
(* Every step of a fill keeps the invariant.                               *)
(***************************************************************************)
LEMMA FillKeeps == ASSUME TextsTrusted, IInv, Fill PROVE IInv'
<1>. DEFINE s == Rewind(scan, pos)
<1>1. /\ MaskContract(text) /\ pos \in Nat /\ pos \in text.starts /\ mode = "idle" /\ Grid /\ Handed
      /\ mode' = "refill" /\ n' = 0 /\ fill_base' = pos /\ scan' = s
      /\ text' = text /\ spans' = spans /\ pos' = pos
  BY StateFacts DEF Fill, IInv, Grid
<1>2. s \in Nat /\ s % W = 0 /\ s <= pos
  <2>1. s = Rewind(scan, pos)
    OBVIOUS
  <2>. HIDE DEF s
  <2>. QED BY <1>1, <2>1, RewindFacts
<1>. HIDE DEF s
<1>3. Enterable(text, s, pos)
  BY <1>1, <1>2, EnterBehind
<1>4. Grid' /\ Handed'
  BY <1>1, <1>2 DEF Grid, Handed, PullModes, FillModes
<1>5. Filling'
  BY <1>1, <1>2, <1>3 DEF Filling, Refilling, InWindow, Resumed, Poised, InBatch, Flattening, Emitting,
                          WindowModes
<1>. QED BY <1>1, <1>4, <1>5 DEF IInv, PullModes

(* What holds between the steps of a fill. *)
LEMMA FillFacts ==
    ASSUME TextsTrusted, IInv, mode \in FillModes
    PROVE  /\ MaskContract(text) /\ len = text.len /\ len \in Nat /\ W \in Nat /\ W > 0
           /\ Grid /\ Filling /\ scan \in Nat /\ n \in Nat
           /\ fill_base \in text.starts /\ fill_base \in Nat /\ fill_base <= len
           /\ spans \in Seq(Nat \X Nat) /\ Tokens(text, spans) /\ EndOf(spans) = fill_base
           /\ LastEnd = BufEnd(fill_base, buf)
<1>1. mode \notin PullModes
  BY DEF FillModes, PullModes, WindowModes
<1>2. LastEnd = BufEnd(fill_base, buf)
  BY DEF LastEnd, BufEnd
<1>3. Grid /\ Filling /\ Handed
  BY DEF IInv
<1>. QED BY <1>1, <1>2, <1>3, StateFacts DEF Grid, Filling, Handed

LEMMA WindowFacts ==
    ASSUME TextsTrusted, IInv, mode \in WindowModes
    PROVE  /\ mode \in FillModes /\ n < Chunk /\ fill_base < len /\ Chained(text, fill_base, buf)
           /\ LastEnd \in text.starts /\ LastEnd \in Nat /\ fill_base <= LastEnd /\ LastEnd <= len
           /\ Enterable(text, scan, LastEnd)
<1>1. mode \in FillModes
  BY DEF FillModes
<1>2. InWindow
  BY <1>1, FillFacts DEF Filling
<1>3. LastEnd \in text.starts /\ fill_base <= LastEnd
  BY <1>1, <1>2, FillFacts, ChainEnd DEF InWindow
<1>. QED BY <1>1, <1>2, <1>3, FillFacts, TextFacts DEF InWindow

(* A step within the fill that hands out nothing. *)
LEMMA WithinFill ==
    ASSUME TextsTrusted, IInv, mode \in FillModes, mode' \in FillModes,
           UNCHANGED <<text, pos, spans, n, fill_base>>, scan' \in Nat, scan' % W = 0,
           Refilling', InWindow', Resumed', Poised', InBatch', Flattening', Emitting'
    PROVE  IInv'
<1>1. mode' \notin PullModes /\ mode \notin PullModes
  BY DEF FillModes, PullModes, WindowModes
<1>2. Grid'
  BY FillFacts DEF Grid
<1>3. Handed'
  BY <1>1, FillFacts DEF IInv, Handed
<1>4. Filling'
  BY FillFacts DEF Filling
<1>. QED BY <1>1, <1>2, <1>3, <1>4 DEF IInv

LEMMA WindowKeeps == ASSUME TextsTrusted, IInv, Window PROVE IInv'
<1>. DEFINE s == Forward(scan, fill_base)
<1>1. /\ mode = "refill" /\ mode \in FillModes /\ n < Chunk /\ fill_base < len
      /\ mode' = "harvest" /\ mode' \in FillModes /\ scan' = s
      /\ buf' = <<>> /\ resume' = fill_base /\ overflow_end' = None
      /\ UNCHANGED <<text, pos, spans, n, fill_base>>
  BY DEF Window, FillModes, WindowModes
<1>2. s \in Nat /\ s % W = 0 /\ fill_base < s + W /\ (s <= fill_base \/ s = scan)
  <2>1. s = Forward(scan, fill_base)
    OBVIOUS
  <2>. HIDE DEF s
  <2>. QED BY <1>1, <2>1, FillFacts, ForwardFacts
<1>. HIDE DEF s
<1>3. Enterable(text, scan, fill_base) /\ MaskContract(text) /\ fill_base \in text.starts /\ fill_base \in Nat
      /\ n \in Nat
  BY <1>1, FillFacts, WindowShape DEF Filling, Refilling
<1>4. Enterable(text, s, fill_base)
  BY <1>2, <1>3, EnterBehind
<1>5. LastEnd' = fill_base
  BY <1>1 DEF LastEnd
<1>6. Chained(text, fill_base, buf)'
  BY <1>1 DEF Chained
<1>7. InWindow'
  BY <1>1, <1>4, <1>5, <1>6 DEF InWindow, len
<1>8. Resumed' /\ Poised'
  BY <1>1, <1>2, <1>3, <1>5 DEF Resumed, Poised
<1>9. Refilling' /\ InBatch' /\ Flattening' /\ Emitting'
  BY <1>1 DEF Refilling, InBatch, Flattening, Emitting
<1>. QED BY <1>1, <1>2, <1>7, <1>8, <1>9, WithinFill

(* A boundary harvested: the end of the token after the last one. *)
LEMMA PushFacts ==
    ASSUME TextsTrusted, IInv, mode \in WindowModes, LastEnd < len,
           NEW e, e = text.next[LastEnd], e - fill_base <= RelMax, Push(e),
           UNCHANGED <<text, fill_base>>
    PROVE  /\ e \in text.starts /\ e \in Nat /\ LastEnd < e /\ e <= len /\ LastEnd' = e
           /\ Chained(text, fill_base, buf)' /\ Enterable(text, scan, e)
<1>1. /\ MaskContract(text) /\ len = text.len /\ scan \in Nat /\ fill_base \in text.starts /\ fill_base \in Nat
      /\ Chained(text, fill_base, buf) /\ LastEnd = BufEnd(fill_base, buf)
      /\ LastEnd \in text.starts /\ LastEnd \in Nat /\ fill_base <= LastEnd /\ Enterable(text, scan, LastEnd)
  BY FillFacts, WindowFacts
<1>2. e \in text.starts /\ e \in Nat /\ LastEnd < e /\ e <= len
  BY <1>1, TextFacts
<1>3. Enterable(text, scan, e)
  BY <1>1, <1>2, EnterLater
<1>. DEFINE d == e - fill_base
<1>4. d \in 0 .. RelMax /\ RelMax \in Nat
  BY <1>1, <1>2, WindowShape
<1>5. Offset(e) = d
  <2>1. d % (RelMax + 1) = d
    <3>. HIDE DEF d
    <3>. QED BY <1>4
  <2>. QED BY <2>1 DEF Offset
<1>6. buf' = Append(buf, d)
  BY <1>5 DEF Push
<1>7. Chained(text, fill_base, buf') /\ BufEnd(fill_base, buf') = e
  <2>1. d = text.next[LastEnd] - fill_base
    OBVIOUS
  <2>. HIDE DEF d
  <2>. QED BY <1>1, <1>6, <2>1, ChainPush
<1>8. LastEnd' = e /\ Chained(text, fill_base, buf)'
  BY <1>7 DEF LastEnd, BufEnd
<1>. QED BY <1>2, <1>3, <1>8

LEMMA PushKeeps ==
    ASSUME TextsTrusted, IInv, mode \in {"harvest", "flatten"}, LastEnd < len,
           NEW e, e = text.next[LastEnd], e - fill_base <= RelMax, Push(e),
           UNCHANGED <<text, pos, scan, mode, spans, n, fill_base, resume, overflow_end>>,
           Poised', Flattening'
    PROVE  IInv'
<1>1. mode \in WindowModes /\ mode \in FillModes
  BY DEF WindowModes, FillModes
<1>2. /\ e \in Nat /\ LastEnd < e /\ LastEnd' = e /\ LastEnd \in Nat
      /\ Chained(text, fill_base, buf)' /\ Enterable(text, scan, e)
  BY <1>1, PushFacts, WindowFacts
<1>3. InWindow' /\ Refilling' /\ Emitting'
  BY <1>1, <1>2, WindowFacts DEF InWindow, Refilling, Emitting, len
<1>4. Resumed /\ InBatch /\ scan \in Nat /\ scan % W = 0
  BY <1>1, FillFacts DEF Filling, Grid
<1>5. Resumed'
  BY <1>1, <1>2, <1>4 DEF Resumed
<1>6. InBatch'
  BY <1>4 DEF InBatch, len
<1>. QED BY <1>1, <1>3, <1>4, <1>5, <1>6, WithinFill

LEMMA HarvestTailKeeps == ASSUME TextsTrusted, IInv, HarvestTail PROVE IInv'
<1>. DEFINE e == text.next[LastEnd]
<1>1. /\ mode = "harvest" /\ mode \in WindowModes /\ mode \in FillModes
      /\ scan - fill_base <= RelLimit /\ scan + W > len /\ LastEnd < len /\ Push(e)
      /\ UNCHANGED <<text, pos, scan, mode, spans, n, fill_base, resume, overflow_end>>
  BY DEF HarvestTail, Open, WindowModes, FillModes
<1>2. /\ MaskContract(text) /\ len = text.len /\ len \in Nat /\ scan \in Nat /\ fill_base \in Nat
      /\ LastEnd \in text.starts /\ LastEnd \in Nat
  BY <1>1, FillFacts, WindowFacts
<1>3. e \in Nat /\ e <= len
  BY <1>1, <1>2, TextFacts
<1>4. e - fill_base <= RelMax
  BY <1>1, <1>2, <1>3, WindowShape, Width
<1>5. Poised' /\ Flattening'
  BY <1>1, <1>2, Width DEF Poised, Flattening, len
<1>6. e = text.next[LastEnd]
  OBVIOUS
<1>. HIDE DEF e
<1>. QED BY <1>1, <1>4, <1>5, <1>6, PushKeeps

LEMMA HarvestEndKeeps == ASSUME TextsTrusted, IInv, HarvestEnd PROVE IInv'
<1>1. /\ mode = "harvest" /\ mode \in WindowModes /\ mode \in FillModes
      /\ mode' = "emit" /\ mode' \in FillModes
      /\ UNCHANGED <<text, pos, scan, spans, n, fill_base, buf, resume, overflow_end>>
  BY DEF HarvestEnd, WindowModes, FillModes, fillVars
<1>2. InWindow /\ Resumed /\ scan \in Nat /\ scan % W = 0
  BY <1>1, FillFacts DEF Filling, Grid
<1>3. InWindow'
  BY <1>1, <1>2 DEF InWindow, LastEnd, len
<1>4. Refilling' /\ Resumed' /\ Poised' /\ InBatch' /\ Flattening'
  BY <1>1 DEF Refilling, Resumed, Poised, InBatch, Flattening
<1>5. Emitting'
  BY <1>1, <1>2 DEF Emitting, Resumed
<1>. QED BY <1>1, <1>2, <1>3, <1>4, <1>5, WithinFill

LEMMA SegmentKeeps == ASSUME TextsTrusted, IInv, Segment PROVE IInv'
<1>. DEFINE s == scan
            p == LastEnd
            at == IF resume >= s THEN resume - s ELSE -1
            seg_bad == {k \in text.bad[s] : k >= at}
            fb == FirstOr(seg_bad, W)
<1>1. /\ mode \in {"harvest", "segment"} /\ mode \in WindowModes /\ mode \in FillModes
      /\ mode' = "flatten" /\ mode' \in FillModes
      /\ bits' = {k \in text.usable[s] : at < k /\ k < fb}
      /\ until' = IF seg_bad = {} THEN None ELSE Aim(text, s, fb)
      /\ UNCHANGED <<text, pos, scan, spans, n, fill_base, buf, resume, overflow_end>>
  BY DEF Segment, Open, WindowModes, FillModes, nextVars, Aim
<1>2. /\ MaskContract(text) /\ len = text.len /\ len \in Nat /\ s \in Nat /\ s % W = 0 /\ W \in Nat
      /\ p \in text.starts /\ p \in Nat /\ Enterable(text, s, p) /\ fill_base \in Nat
      /\ InWindow /\ Resumed /\ Poised /\ InBatch
  BY <1>1, FillFacts, WindowFacts, Width DEF Filling, Grid
<1>3. s + W <= len /\ s - fill_base <= RelLimit
  BY <1>1, <1>2 DEF Segment, Open, InBatch, Bases
<1>4. s \in Bases(text.len) /\ text.entry[s] <= p
  BY <1>2, <1>3 DEF Bases, Enterable
<1>5. /\ resume \in Nat
      /\ s <= resume => resume = p /\ p < s + W
      /\ resume < s => p < s
  BY <1>1, <1>2, <1>3 DEF Poised, Resumed
<1>6. p < s + W
  BY <1>2, <1>5, Width
<1>7. (\A k \in text.usable[s] : k \in Nat) /\ \A b \in text.bad[s] : b \in Nat
  BY <1>2, <1>4, TextFacts
<1>8. at = IF resume >= s THEN resume - s ELSE -1
  OBVIOUS
<1>9. seg_bad = {k \in text.bad[s] : k >= at} /\ fb = FirstOr(seg_bad, W)
  OBVIOUS
<1>. HIDE DEF s, p, at, seg_bad, fb
<1>10. \A k \in Nat : (k >= at <=> s + k >= p) /\ (at < k <=> s + k > p)
  BY <1>2, <1>5, <1>8
<1>11. seg_bad = Behind(text, s, p)
  BY <1>7, <1>9, <1>10 DEF Behind
<1>12. {k \in text.usable[s] : at < k /\ k < fb} = {k \in text.usable[s] : s + k > p /\ k < fb}
  BY <1>7, <1>10
<1>13. {k \in text.usable[s] : s + k > p /\ k < fb} = Live(text, s, p)
  <2>1. fb = FirstOr(Behind(text, s, p), W)
    BY <1>9, <1>11
  <2>. QED BY <1>2, <1>4, <1>6, <2>1, LoadIsLive
<1>14. bits' = Live(text, s, p)
  BY <1>1, <1>12, <1>13
<1>15. /\ Behind(text, s, p) = {} => Clean(text, s, p)
       /\ Behind(text, s, p) # {} =>
            /\ Aim(text, s, fb) \in Nat /\ Aim(text, s, fb) > 0
            /\ s <= Aim(text, s, fb) /\ Aim(text, s, fb) <= s + W
  BY <1>2, <1>4, <1>9, <1>11, AimFacts
<1>16. LastEnd' = p /\ scan' = s /\ text' = text
  BY <1>1 DEF LastEnd, p, s
<1>17. Flattening'
  <2>1. CASE seg_bad = {}
    BY <1>1, <1>6, <1>11, <1>14, <1>15, <1>16, <2>1 DEF Flattening
  <2>2. CASE seg_bad # {}
    BY <1>1, <1>11, <1>14, <1>15, <1>16, <2>2 DEF Flattening, None
  <2>. QED BY <2>1, <2>2
<1>18. InWindow'
  <2>1. Chained(text, fill_base, buf)' /\ n' < Chunk /\ (fill_base < len)'
    BY <1>1, WindowFacts DEF len
  <2>. QED BY <1>2, <1>16, <2>1 DEF InWindow
<1>19. Resumed'
  BY <1>1, <1>2, <1>16 DEF Resumed, p
<1>20. InBatch'
  BY <1>1, <1>3, <1>4, <1>16 DEF InBatch, len
<1>21. Refilling' /\ Poised' /\ Emitting'
  BY <1>1 DEF Refilling, Poised, Emitting
<1>22. scan' \in Nat /\ scan' % W = 0
  BY <1>2, <1>16
<1>. QED BY <1>1, <1>17, <1>18, <1>19, <1>20, <1>21, <1>22, WithinFill

(* In the middle of a batch. *)
LEMMA FlattenFacts ==
    ASSUME TextsTrusted, IInv, mode = "flatten"
    PROVE  /\ mode \in WindowModes /\ mode \in FillModes
           /\ MaskContract(text) /\ len = text.len /\ len \in Nat /\ W \in Nat /\ W > 0
           /\ scan \in Nat /\ scan % W = 0 /\ scan \in Bases(text.len) /\ scan + W <= len
           /\ fill_base \in Nat /\ scan - fill_base <= RelLimit
           /\ LastEnd \in text.starts /\ LastEnd \in Nat /\ LastEnd <= len
           /\ Enterable(text, scan, LastEnd) /\ Clear(text, LastEnd, scan)
           /\ Flattening /\ InWindow /\ Resumed
<1>1. mode \in WindowModes /\ mode \in FillModes
  BY DEF WindowModes, FillModes
<1>2. Filling /\ Grid /\ MaskContract(text) /\ len = text.len
  BY <1>1, FillFacts
<1>3. scan \in Bases(text.len) /\ scan - fill_base <= RelLimit
  BY <1>2 DEF Filling, InBatch, len
<1>4. scan + W <= len
  BY <1>2, <1>3, TextFacts
<1>. QED BY <1>1, <1>2, <1>3, <1>4, FillFacts, WindowFacts DEF Filling, Grid, Enterable

LEMMA FlattenKeeps == ASSUME TextsTrusted, IInv, Flatten PROVE IInv'
<1>. DEFINE k == First(bits)
            e == scan + k
<1>1. /\ mode = "flatten" /\ bits # {} /\ Push(e) /\ bits' = bits \ {k}
      /\ UNCHANGED <<text, pos, scan, mode, spans, n, fill_base, resume, until, overflow_end>>
  BY DEF Flatten
<1>2. bits = Live(text, scan, LastEnd)
  BY <1>1, FlattenFacts DEF Flattening
<1>3. /\ k \in Bits /\ e = text.next[LastEnd] /\ LastEnd < len
      /\ Live(text, scan, LastEnd) \ {k} = Live(text, scan, e)
      /\ Clean(text, scan, LastEnd) => Clean(text, scan, e)
  <2>1. k = First(Live(text, scan, LastEnd)) /\ Live(text, scan, LastEnd) # {} /\ e = scan + k
    BY <1>1, <1>2
  <2>2. /\ MaskContract(text) /\ len = text.len /\ scan \in Bases(text.len)
        /\ LastEnd \in text.starts /\ Clear(text, LastEnd, scan)
    BY <1>1, FlattenFacts
  <2>. DEFINE p == LastEnd
  <2>. HIDE DEF k, e, p
  <2>3. /\ k \in Bits /\ e = text.next[p] /\ p < text.len
        /\ Live(text, scan, p) \ {k} = Live(text, scan, e)
        /\ Clean(text, scan, p) => Clean(text, scan, e)
    <3>1. /\ p \in text.starts /\ Clear(text, p, scan) /\ k = First(Live(text, scan, p))
          /\ Live(text, scan, p) # {}
      BY <2>1, <2>2 DEF p
    <3>. QED BY <2>1, <2>2, <3>1, LiveFirst
  <2>. QED BY <2>2, <2>3 DEF p
<1>4. e = scan + k
  OBVIOUS
<1>. HIDE DEF k, e
<1>5. k \in Nat /\ k < W
  BY <1>3, Width DEF Bits
<1>6. e - fill_base <= RelMax
  BY <1>1, <1>4, <1>5, FlattenFacts, WindowShape
<1>7. LastEnd' = e
  BY <1>1, <1>3, <1>6, FlattenFacts, PushFacts
<1>8. bits' = Live(text, scan, e)
  BY <1>1, <1>2, <1>3
<1>9. e < scan + W
  BY <1>1, <1>4, <1>5, FlattenFacts
<1>10. Flattening'
  BY <1>1, <1>3, <1>7, <1>8, <1>9, FlattenFacts DEF Flattening
<1>11. Poised'
  BY <1>1 DEF Poised
<1>. QED BY <1>1, <1>3, <1>6, <1>10, <1>11, PushKeeps

LEMMA BatchDoneKeeps == ASSUME TextsTrusted, IInv, BatchDone PROVE IInv'
<1>1. /\ mode = "flatten" /\ bits = {} /\ until = None
      /\ scan' = scan + W /\ mode' = "harvest" /\ mode' \in FillModes
      /\ UNCHANGED <<text, pos, spans, fillVars>>
  BY DEF BatchDone, FillModes, WindowModes
<1>2. LastEnd < scan + W /\ Live(text, scan, LastEnd) = {} /\ Clean(text, scan, LastEnd)
  BY <1>1, FlattenFacts DEF Flattening
<1>3. Enterable(text, scan + W, LastEnd)
  BY <1>1, <1>2, FlattenFacts, EnterNext
<1>4. scan' \in Nat /\ scan' % W = 0
  BY <1>1, FlattenFacts, NextBase
<1>5. LastEnd' = LastEnd /\ text' = text
  BY <1>1 DEF LastEnd, fillVars
<1>6. InWindow'
  <2>1. Chained(text, fill_base, buf)' /\ n' < Chunk /\ (fill_base < len)'
    BY <1>1, FlattenFacts, WindowFacts DEF len, fillVars
  <2>. QED BY <1>1, <1>3, <1>5, <2>1 DEF InWindow
<1>7. Resumed'
  BY <1>1, <1>5, FlattenFacts DEF Resumed, fillVars
<1>8. Poised'
  <2>1. resume \in Nat /\ resume <= LastEnd /\ resume' = resume
    BY <1>1, FlattenFacts DEF Resumed, fillVars
  <2>. QED BY <1>1, <1>2, <1>4, <1>5, <2>1, FlattenFacts DEF Poised
<1>9. Refilling' /\ InBatch' /\ Flattening' /\ Emitting'
  BY <1>1 DEF Refilling, InBatch, Flattening, Emitting
<1>10. UNCHANGED <<text, pos, spans, n, fill_base>>
  BY <1>1 DEF fillVars
<1>. QED BY <1>1, <1>4, <1>6, <1>7, <1>8, <1>9, <1>10, FlattenFacts, WithinFill

(* In a bad zone the scalar path ends within the batch. *)
LEMMA ZoneFacts ==
    ASSUME TextsTrusted, IInv, InZone
    PROVE  /\ mode = "flatten" /\ bits = {} /\ until \in Nat \ {None}
           /\ scan <= until /\ until <= scan + W
           /\ LastEnd < until => LastEnd < len
<1>1. mode = "flatten" /\ bits = {} /\ until # None
  BY DEF InZone
<1>2. until \in Nat \ {None} /\ scan <= until /\ until <= scan + W
  BY <1>1, FlattenFacts DEF Flattening
<1>. QED BY <1>1, <1>2, FlattenFacts

LEMMA ZoneKeeps == ASSUME TextsTrusted, IInv, Zone PROVE IInv'
<1>. DEFINE e == text.next[LastEnd]
<1>1. /\ InZone /\ LastEnd < until /\ e - fill_base <= RelMax /\ Push(e)
      /\ UNCHANGED <<text, pos, scan, mode, spans, n, fill_base, resume, bits, until, overflow_end>>
  BY DEF Zone
<1>2. mode = "flatten" /\ LastEnd < len
  BY <1>1, ZoneFacts
<1>3. Flattening'
  BY <1>1, ZoneFacts DEF Flattening, None
<1>4. Poised'
  BY <1>1, <1>2 DEF Poised
<1>5. e = text.next[LastEnd]
  OBVIOUS
<1>. HIDE DEF e
<1>. QED BY <1>1, <1>2, <1>3, <1>4, <1>5, PushKeeps

LEMMA ZoneOverflowKeeps == ASSUME TextsTrusted, IInv, ZoneOverflow PROVE IInv'
<1>1. /\ InZone /\ LastEnd < until
      /\ overflow_end' = text.next[LastEnd] /\ mode' = "emit" /\ mode' \in FillModes
      /\ UNCHANGED <<text, pos, scan, spans, n, fill_base, buf, resume>>
  BY DEF ZoneOverflow, FillModes, WindowModes
<1>2. mode = "flatten" /\ LastEnd < len
  BY <1>1, ZoneFacts
<1>3. LastEnd' = LastEnd
  BY <1>1 DEF LastEnd
<1>4. InWindow'
  <2>1. Chained(text, fill_base, buf)' /\ n' < Chunk /\ (fill_base < len)'
    BY <1>1, <1>2, FlattenFacts, WindowFacts DEF len
  <2>. QED BY <1>1, <1>2, <1>3, <2>1, FlattenFacts DEF InWindow
<1>5. Emitting'
  BY <1>1, <1>2, <1>3 DEF Emitting, len
<1>6. Refilling' /\ Resumed' /\ Poised' /\ InBatch' /\ Flattening'
  BY <1>1 DEF Refilling, Resumed, Poised, InBatch, Flattening
<1>7. scan' \in Nat /\ scan' % W = 0 /\ mode \in FillModes
  BY <1>1, <1>2, FlattenFacts
<1>. QED BY <1>1, <1>4, <1>5, <1>6, <1>7, WithinFill

LEMMA ZoneEndKeeps == ASSUME TextsTrusted, IInv, ZoneEnd PROVE IInv'
<1>. DEFINE s == Base(LastEnd)
<1>1. /\ InZone /\ LastEnd >= until /\ resume' = LastEnd /\ scan' = s
      /\ mode' = IF LastEnd >= scan + W THEN "harvest" ELSE "segment"
      /\ UNCHANGED <<text, pos, spans, n, fill_base, buf, overflow_end>>
  BY DEF ZoneEnd
<1>2. mode = "flatten" /\ until \in Nat /\ scan <= until
  BY <1>1, ZoneFacts
<1>3. s \in Nat /\ s % W = 0 /\ s <= LastEnd /\ LastEnd < s + W
  BY <1>2, FlattenFacts, BaseFacts
<1>4. LastEnd < scan + W => s = scan
  BY <1>1, <1>2, FlattenFacts, BaseUnique
<1>. HIDE DEF s
<1>5. LastEnd' = LastEnd /\ mode' \in {"harvest", "segment"} /\ mode' \in FillModes
  BY <1>1 DEF LastEnd, FillModes, WindowModes
<1>6. Enterable(text, s, LastEnd)
  BY <1>2, <1>3, FlattenFacts, EnterBehind
<1>7. InWindow'
  <2>1. Chained(text, fill_base, buf)' /\ n' < Chunk /\ (fill_base < len)'
    BY <1>1, <1>2, FlattenFacts, WindowFacts DEF len
  <2>. QED BY <1>1, <1>5, <1>6, <2>1 DEF InWindow
<1>8. Resumed'
  BY <1>1, <1>2, <1>5, FlattenFacts DEF Resumed
<1>9. Poised'
  BY <1>1, <1>2, <1>3, <1>5, FlattenFacts DEF Poised
<1>10. InBatch'
  BY <1>1, <1>2, <1>4, FlattenFacts DEF InBatch, len
<1>11. Refilling' /\ Flattening' /\ Emitting'
  BY <1>5 DEF Refilling, Flattening, Emitting
<1>12. mode \in FillModes
  BY <1>2, FlattenFacts
<1>. QED BY <1>1, <1>3, <1>5, <1>7, <1>8, <1>9, <1>10, <1>11, <1>12, WithinFill

(* Spans handed out end where the next window begins. *)
LEMMA EmitWithin ==
    ASSUME TextsTrusted, IInv, mode = "emit", mode' = "refill", UNCHANGED <<text, pos, scan>>,
           n' \in Nat, fill_base' \in text.starts,
           spans' \in Seq(Nat \X Nat), Tokens(text, spans'), EndOf(spans') = fill_base',
           n' >= Chunk \/ Enterable(text, scan, fill_base')
    PROVE  IInv'
<1>1. mode \in FillModes /\ mode' \in FillModes /\ mode' \notin PullModes /\ mode' \notin WindowModes
  BY DEF FillModes, PullModes, WindowModes
<1>2. Grid'
  BY <1>1, FillFacts DEF Grid
<1>3. Handed'
  BY <1>1 DEF Handed
<1>4. Filling'
  BY <1>1 DEF Filling, Refilling, InWindow, Resumed, Poised, InBatch, Flattening, Emitting
<1>. QED BY <1>1, <1>2, <1>3, <1>4 DEF IInv

LEMMA EmitLongKeeps == ASSUME TextsTrusted, IInv, EmitLong PROVE IInv'
<1>. DEFINE e == IF overflow_end # None THEN overflow_end ELSE text.next[fill_base]
<1>1. /\ mode = "emit" /\ mode \in WindowModes /\ mode \in FillModes /\ buf = <<>>
      /\ spans' = Append(spans, <<fill_base, e>>)
      /\ n' = n + 1 /\ fill_base' = e /\ mode' = "refill" /\ UNCHANGED <<text, pos, scan>>
  BY DEF EmitLong, WindowModes, FillModes
<1>2. /\ MaskContract(text) /\ len = text.len /\ n \in Nat /\ scan \in Nat
      /\ fill_base \in text.starts /\ fill_base < text.len
      /\ spans \in Seq(Nat \X Nat) /\ Tokens(text, spans) /\ EndOf(spans) = fill_base
      /\ Enterable(text, scan, fill_base) /\ Emitting /\ LastEnd = fill_base
  BY <1>1, FillFacts, WindowFacts DEF Filling, LastEnd
<1>3. e = text.next[fill_base]
  BY <1>1, <1>2 DEF Emitting
<1>. HIDE DEF e
<1>4. /\ Append(spans, <<fill_base, e>>) \in Seq(Nat \X Nat)
      /\ Tokens(text, Append(spans, <<fill_base, e>>))
      /\ EndOf(Append(spans, <<fill_base, e>>)) = e
      /\ e \in text.starts /\ fill_base < e
  <2>. DEFINE sp == spans
  <2>. HIDE DEF sp
  <2>1. /\ Append(sp, <<fill_base, e>>) \in Seq(Nat \X Nat) /\ Tokens(text, Append(sp, <<fill_base, e>>))
        /\ EndOf(Append(sp, <<fill_base, e>>)) = e /\ e \in text.starts /\ fill_base < e
    <3>1. sp \in Seq(Nat \X Nat) /\ Tokens(text, sp) /\ fill_base = EndOf(sp)
      BY <1>2 DEF sp
    <3>. QED BY <1>2, <1>3, <3>1, AppendSpan
  <2>. QED BY <2>1 DEF sp
<1>5. Enterable(text, scan, e)
  <2>1. fill_base \in Nat /\ e \in Nat
    BY <1>2, <1>4, TextFacts
  <2>. QED BY <1>2, <1>4, <2>1, EnterLater
<1>6. n' \in Nat
  BY <1>1, <1>2
<1>. QED BY <1>1, <1>4, <1>5, <1>6, EmitWithin

LEMMA EmitKeeps == ASSUME TextsTrusted, IInv, Emit PROVE IInv'
<1>. DEFINE m == IF Len(buf) <= needed THEN Len(buf) ELSE needed
<1>1. /\ mode = "emit" /\ mode \in WindowModes /\ mode \in FillModes /\ buf # <<>>
      /\ spans' = spans \o Spans(fill_base, buf, m)
      /\ n' = n + m /\ fill_base' = fill_base + buf[m] /\ mode' = "refill"
      /\ UNCHANGED <<text, pos, scan>>
  BY DEF Emit, WindowModes, FillModes, Spans, StartOf
<1>2. /\ MaskContract(text) /\ n \in Nat /\ n < Chunk /\ fill_base \in text.starts
      /\ spans \in Seq(Nat \X Nat) /\ Tokens(text, spans) /\ fill_base = EndOf(spans)
      /\ Chained(text, fill_base, buf) /\ Enterable(text, scan, LastEnd)
  BY <1>1, FillFacts, WindowFacts
<1>3. buf \in Seq(Nat) /\ Len(buf) \in Nat /\ Len(buf) >= 1
  BY <1>1, <1>2 DEF Chained
<1>4. needed = Chunk - n /\ Chunk \in Nat
  BY WindowShape DEF needed
<1>5. m \in 1 .. Len(buf) /\ (m = Len(buf) \/ n + m = Chunk)
  BY <1>2, <1>3, <1>4
<1>. HIDE DEF m
<1>6. /\ spans' \in Seq(Nat \X Nat) /\ Tokens(text, spans') /\ EndOf(spans') = fill_base + buf[m]
      /\ fill_base + buf[m] \in text.starts
  BY <1>1, <1>2, <1>5, AppendSpans
<1>7. m = Len(buf) => fill_base + buf[m] = LastEnd
  BY <1>1 DEF LastEnd
<1>8. n' >= Chunk \/ Enterable(text, scan, fill_base')
  BY <1>1, <1>2, <1>4, <1>5, <1>7
<1>9. n' \in Nat
  BY <1>1, <1>2, <1>3, <1>5
<1>. QED BY <1>1, <1>6, <1>8, <1>9, EmitWithin

LEMMA FillReturnKeeps == ASSUME TextsTrusted, IInv, FillReturn PROVE IInv'
<1>. DEFINE s == Rewind(scan, fill_base)
<1>1. /\ mode = "refill" /\ mode \in FillModes /\ mode' = "idle" /\ pos' = fill_base /\ scan' = s
      /\ rem' = {} /\ batch_bad' = {} /\ scalar_until' = fill_base /\ pre' = NoMasksAt
      /\ text' = text /\ spans' = spans
  BY DEF FillReturn, FillModes
<1>2. /\ Grid /\ MaskContract(text) /\ len = text.len /\ len \in Nat
      /\ fill_base \in text.starts /\ fill_base \in Nat
      /\ spans \in Seq(Nat \X Nat) /\ Tokens(text, spans) /\ EndOf(spans) = fill_base
  BY <1>1, FillFacts
<1>3. s \in Nat /\ s % W = 0 /\ s <= fill_base
  <2>1. s = Rewind(scan, fill_base)
    OBVIOUS
  <2>. HIDE DEF s
  <2>. QED BY <1>2, <2>1, RewindFacts
<1>. HIDE DEF s
<1>4. Grid' /\ Handed'
  BY <1>1, <1>2, <1>3 DEF Grid, Handed, PullModes
<1>5. Fresh'
  BY <1>1, <1>2, <1>3 DEF Fresh
<1>6. PreRight'
  BY <1>1 DEF PreRight, NoMasksAt, Never, len
<1>7. Pulling'
  BY <1>1, <1>2, <1>5, <1>6 DEF Pulling
<1>. QED BY <1>1, <1>4, <1>7 DEF IInv, FillModes, WindowModes

LEMMA StutterKeeps == ASSUME IInv, UNCHANGED vars PROVE IInv'
<1>. USE DEF vars, nextVars, fillVars, len
<1>1. Grid' /\ Handed' <=> Grid /\ Handed
  BY DEF Grid, Handed
<1>2. LastEnd' = LastEnd
  BY DEF LastEnd
<1>3. Pulling' <=> Pulling
  BY DEF Pulling, Fresh, AtTail, Loaded, PreRight, MasksAt, Never
<1>4. (Refilling /\ InWindow)' <=> Refilling /\ InWindow
  BY <1>2 DEF Refilling, InWindow
<1>5. (Resumed /\ Poised)' <=> Resumed /\ Poised
  BY <1>2 DEF Resumed, Poised
<1>6. (InBatch /\ Flattening)' <=> InBatch /\ Flattening
  BY <1>2 DEF InBatch, Flattening
<1>7. Emitting' <=> Emitting
  BY <1>2 DEF Emitting
<1>8. Filling' <=> Filling
  BY <1>4, <1>5, <1>6, <1>7 DEF Filling
<1>. QED BY <1>1, <1>3, <1>8 DEF IInv

LEMMA InitHolds == ASSUME TextsTrusted, Init PROVE IInv
<1>1. /\ MaskContract(text) /\ text \in Texts /\ pos = 0 /\ scan = 0 /\ rem = {} /\ batch_bad = {}
      /\ scalar_until = 0 /\ pre = NoMasksAt /\ mode = "idle" /\ spans = <<>>
  BY DEF Init, Start, TextsTrusted
<1>2. 0 \in text.starts /\ 0 % W = 0
  BY <1>1, TextFacts, Width
<1>3. spans \in Seq(Nat \X Nat) /\ Tokens(text, spans) /\ EndOf(spans) = 0
  BY <1>1 DEF Tokens, EndOf
<1>4. Fresh /\ PreRight
  BY <1>1 DEF Fresh, PreRight, NoMasksAt
<1>. QED BY <1>1, <1>2, <1>3, <1>4
         DEF IInv, Grid, Handed, Pulling, PullModes, FillModes, WindowModes

LEMMA StepKeeps == ASSUME TextsTrusted, IInv, [Next]_vars PROVE IInv'
<1>1. CASE UNCHANGED vars
  BY <1>1, StutterKeeps
<1>2. CASE Next
  BY <1>1, <1>2, NextSpanKeeps, PopKeeps, ScalarKeeps, NextSegmentKeeps, RefillKeeps, RefillTailKeeps,
     FillKeeps, WindowKeeps, HarvestTailKeeps, HarvestEndKeeps, SegmentKeeps, FlattenKeeps,
     BatchDoneKeeps, ZoneKeeps, ZoneOverflowKeeps, ZoneEndKeeps, EmitLongKeeps, EmitKeeps,
     FillReturnKeeps DEF Next
<1>. QED BY <1>1, <1>2

(* Whatever mix of next_span and fill_spans_two_phase calls a caller makes *)
(* on a text whose masks keep the schemes' contract, the spans handed out  *)
(* are the tokens of the scalar walk, none lost, split or joined.          *)
THEOREM SpansCorrect == ASSUME TextsTrusted PROVE Spec => []SpansAreTokens
<1>1. Init => IInv
  BY InitHolds
<1>2. IInv /\ [Next]_vars => IInv'
  BY StepKeeps
<1>3. IInv => SpansAreTokens
  BY DEF IInv, Handed, Tokens, SpansAreTokens
<1>. QED BY <1>1, <1>2, <1>3, PTL DEF Spec

(***************************************************************************)
(* The boundary buffer.  A fill enters a batch with room in the chunk and  *)
(* harvests each position of the batch at most once, and one end beyond.   *)
(***************************************************************************)
DepthOf(s, p) == IF p < s THEN 0 ELSE IF p < s + W THEN p - s + 1 ELSE W + 1
Depth == DepthOf(scan, LastEnd)
Room ==
    /\ buf \in Seq(Nat) /\ n \in Nat
    /\ Len(buf) <= Chunk + W /\ n <= Chunk
    /\ mode \in {"segment", "flatten"} => Len(buf) < needed + Depth

LEMMA DepthGrows ==
    ASSUME NEW s \in Nat, NEW p \in Nat, NEW e \in Nat, p < e, p < s + W, p < s => s <= e
    PROVE  /\ DepthOf(s, p) \in Nat /\ DepthOf(s, p) <= W
           /\ DepthOf(s, e) \in Nat /\ DepthOf(s, p) < DepthOf(s, e)
BY Width DEF DepthOf

LEMMA RoomFacts ==
    ASSUME Room
    PROVE  /\ Len(buf) \in Nat /\ n \in Nat /\ Chunk \in Nat /\ W \in Nat /\ W > 0
           /\ needed = Chunk - n /\ needed \in Nat
BY Width, WindowShape DEF Room, needed

(* A push from inside the batch. *)
LEMMA RoomPush ==
    ASSUME TextsTrusted, IInv, Room, mode = "flatten", LastEnd < scan + W,
           NEW e, e = text.next[LastEnd], e - fill_base <= RelMax, Push(e),
           UNCHANGED <<text, scan, n, fill_base>>
    PROVE  Room'
<1>1. /\ MaskContract(text) /\ mode \in WindowModes /\ scan \in Nat /\ fill_base \in Nat
      /\ LastEnd \in text.starts /\ LastEnd \in Nat /\ Clear(text, LastEnd, scan) /\ scan + W <= len
      /\ len = text.len /\ len \in Nat /\ W \in Nat /\ W > 0
  BY FlattenFacts
<1>2. e \in text.starts /\ e \in Nat /\ LastEnd < e /\ LastEnd' = e /\ buf' \in Seq(Nat)
  <2>1. LastEnd < len
    BY <1>1
  <2>2. /\ e \in text.starts /\ e \in Nat /\ LastEnd < e /\ LastEnd' = e
        /\ Chained(text, fill_base, buf)'
    BY <1>1, <2>1, PushFacts
  <2>. QED BY <2>2 DEF Chained
<1>3. LastEnd < scan => e >= scan
  BY <1>1, <1>2 DEF Clear
<1>4. Len(buf') = Len(buf) + 1
  BY <1>2 DEF Push, Room
<1>5. Len(buf) < needed + Depth
  BY DEF Room
<1>6. Depth \in Nat /\ Depth <= W /\ Depth' \in Nat /\ Depth < Depth'
  <2>1. /\ DepthOf(scan, LastEnd) \in Nat /\ DepthOf(scan, LastEnd) <= W
        /\ DepthOf(scan, e) \in Nat /\ DepthOf(scan, LastEnd) < DepthOf(scan, e)
    BY <1>1, <1>2, <1>3, DepthGrows
  <2>2. Depth' = DepthOf(scan, e)
    BY <1>2 DEF Depth
  <2>. QED BY <2>1, <2>2 DEF Depth
<1>7. needed' = needed /\ n' = n
  BY DEF needed
<1>8. Len(buf') < needed' + Depth' /\ Len(buf') <= Chunk + W
  BY <1>4, <1>5, <1>6, <1>7, RoomFacts
<1>. QED BY <1>2, <1>7, <1>8 DEF Room

LEMMA RoomKeeps == ASSUME TextsTrusted, IInv, Room, [Next]_vars PROVE Room'
<1>. DEFINE Same == UNCHANGED <<buf, n>>
<1>1. ASSUME Same, mode' \notin {"segment", "flatten"}  PROVE Room'
  BY <1>1 DEF Room
<1>2. CASE UNCHANGED vars
  <2>1. UNCHANGED <<mode, scan, n, fill_base, buf>>
    BY <1>2 DEF vars, fillVars
  <2>2. needed' = needed /\ Depth' = Depth
    BY <2>1 DEF needed, Depth, LastEnd
  <2>. QED BY <2>1, <2>2 DEF Room
<1>3. CASE NextSpan \/ Pop \/ Scalar \/ NextSegment \/ Refill \/ RefillTail \/ FillReturn
  <2>1. Same
    BY <1>3 DEF NextSpan, Pop, Scalar, NextSegment, Refill, RefillTail, FillReturn, fillVars
  <2>2. mode' \notin {"segment", "flatten"}
    BY <1>3 DEF NextSpan, Pop, Scalar, NextSegment, Refill, RefillTail, FillReturn, Return, Spent
  <2>. QED BY <1>1, <2>1, <2>2
<1>4. CASE Fill
  BY <1>4, RoomFacts DEF Fill, Room
<1>5. CASE Window
  <2>1. mode' = "harvest" /\ n' = n /\ buf' = <<>>
    BY <1>5 DEF Window
  <2>2. <<>> \in Seq(Nat) /\ Len(<<>>) = 0
    OBVIOUS
  <2>3. n \in Nat /\ n <= Chunk /\ 0 <= Chunk + W
    BY RoomFacts DEF Room
  <2>. QED BY <2>1, <2>2, <2>3 DEF Room
<1>6. CASE HarvestTail
  <2>1. /\ mode = "harvest" /\ mode' = mode /\ n' = n /\ Len(buf) < needed
        /\ buf' = Append(buf, Offset(text.next[LastEnd]))
    BY <1>6 DEF HarvestTail, Open, Push
  <2>2. buf' \in Seq(Nat)
    <3>1. IInv' /\ mode' \in WindowModes
      BY <1>6, <2>1, HarvestTailKeeps DEF WindowModes
    <3>. QED BY <3>1 DEF IInv, Filling, InWindow, Chained, FillModes
  <2>3. Len(buf') = Len(buf) + 1
    BY <2>1, <2>2 DEF Room
  <2>. QED BY <2>1, <2>2, <2>3, RoomFacts DEF Room
<1>7. CASE HarvestEnd \/ ZoneOverflow \/ BatchDone
  <2>1. Same
    BY <1>7 DEF HarvestEnd, ZoneOverflow, BatchDone, fillVars
  <2>2. mode' \notin {"segment", "flatten"}
    BY <1>7 DEF HarvestEnd, ZoneOverflow, BatchDone
  <2>. QED BY <1>1, <2>1, <2>2
<1>8. CASE Segment
  <2>1. /\ mode \in {"harvest", "segment"} /\ mode \in WindowModes
        /\ mode = "harvest" => Len(buf) < needed
        /\ UNCHANGED <<text, scan, n, fill_base, buf>>
    BY <1>8 DEF Segment, Open, WindowModes
  <2>2. Depth \in Nat
    BY <2>1, WindowFacts, FillFacts DEF Depth, DepthOf
  <2>3. Len(buf) < needed + Depth
    BY <2>1, <2>2, RoomFacts DEF Room
  <2>4. needed' = needed /\ Depth' = Depth
    BY <2>1 DEF needed, Depth, LastEnd
  <2>. QED BY <2>1, <2>3, <2>4 DEF Room
<1>9. CASE Flatten
  <2>. DEFINE e == scan + First(bits)
  <2>1. /\ mode = "flatten" /\ bits # {} /\ Push(e) /\ UNCHANGED <<text, scan, n, fill_base>>
    BY <1>9 DEF Flatten
  <2>2. /\ e = text.next[LastEnd] /\ LastEnd < e /\ First(bits) \in Bits
    <3>1. /\ MaskContract(text) /\ scan \in Bases(text.len)
          /\ LastEnd \in text.starts /\ Clear(text, LastEnd, scan) /\ bits = Live(text, scan, LastEnd)
      BY <2>1, FlattenFacts DEF Flattening
    <3>. DEFINE p == LastEnd
                k == First(bits)
    <3>2. /\ p \in text.starts /\ Clear(text, p, scan) /\ k = First(Live(text, scan, p))
          /\ Live(text, scan, p) # {} /\ e = scan + k
      BY <2>1, <3>1
    <3>. HIDE DEF p, k, e
    <3>3. e = text.next[p] /\ p < e /\ k \in Bits
      BY <3>1, <3>2, LiveFirst
    <3>. QED BY <3>3 DEF p, k
  <2>3. e - fill_base <= RelMax /\ LastEnd < scan + W
    BY <2>1, <2>2, FlattenFacts, WindowShape DEF Bits
  <2>. HIDE DEF e
  <2>. QED BY <2>1, <2>2, <2>3, RoomPush
<1>10. CASE Zone
  <2>. DEFINE e == text.next[LastEnd]
  <2>1. /\ InZone /\ LastEnd < until /\ e - fill_base <= RelMax /\ Push(e)
        /\ UNCHANGED <<text, scan, n, fill_base>>
    BY <1>10 DEF Zone
  <2>2. mode = "flatten" /\ LastEnd < scan + W
    BY <2>1, ZoneFacts, FlattenFacts
  <2>3. e = text.next[LastEnd]
    OBVIOUS
  <2>. HIDE DEF e
  <2>. QED BY <2>1, <2>2, <2>3, RoomPush
<1>11. CASE ZoneEnd
  <2>1. /\ InZone /\ LastEnd >= until /\ scan' = Base(LastEnd) /\ UNCHANGED <<text, n, fill_base, buf>>
        /\ mode' = IF LastEnd >= scan + W THEN "harvest" ELSE "segment"
    BY <1>11 DEF ZoneEnd
  <2>2. mode = "flatten" /\ until \in Nat /\ scan <= until
    BY <2>1, ZoneFacts
  <2>3. CASE LastEnd >= scan + W
    BY <1>1, <2>1, <2>3
  <2>4. CASE LastEnd < scan + W
    <3>1. scan' = scan /\ mode' = "segment"
      BY <2>1, <2>2, <2>4, FlattenFacts, BaseUnique
    <3>2. needed' = needed /\ Depth' = Depth
      BY <2>1, <3>1 DEF needed, Depth, LastEnd
    <3>. QED BY <2>1, <2>2, <3>1, <3>2 DEF Room
  <2>. QED BY <2>2, <2>3, <2>4, FlattenFacts
<1>12. CASE EmitLong
  <2>1. mode = "emit" /\ mode' = "refill" /\ n' = n + 1 /\ buf' = buf /\ mode \in WindowModes
    BY <1>12 DEF EmitLong, WindowModes
  <2>. QED BY <2>1, WindowFacts, RoomFacts DEF Room
<1>13. CASE Emit
  <2>. DEFINE m == IF Len(buf) <= needed THEN Len(buf) ELSE needed
  <2>1. mode' = "refill" /\ n' = n + m /\ buf' = buf
    BY <1>13 DEF Emit
  <2>2. m \in Nat /\ m <= needed
    BY RoomFacts
  <2>. HIDE DEF m
  <2>. QED BY <2>1, <2>2, RoomFacts DEF Room
<1>. QED BY <1>2, <1>3, <1>4, <1>5, <1>6, <1>7, <1>8, <1>9, <1>10, <1>11, <1>12, <1>13 DEF Next

(* No fill writes past BOUND_BUF, however the boundaries, the bad zones    *)
(* and the overruns fall, and none returns more than a chunk of spans.     *)
THEOREM BufferSafe == ASSUME TextsTrusted PROVE Spec => []BufferBounded
<1>1. Init => IInv /\ Room
  <2>1. ASSUME Init PROVE Room
    BY <2>1, Width, WindowShape DEF Init, Start, Room
  <2>. QED BY <2>1, InitHolds
<1>2. IInv /\ Room /\ [Next]_vars => (IInv /\ Room)'
  BY StepKeeps, RoomKeeps
<1>3. IInv /\ Room => BufferBounded
  BY DEF Room, BufferBounded
<1>. QED BY <1>1, <1>2, <1>3, PTL DEF Spec
=============================================================================
