--------------------------- MODULE DocSplitProofs ---------------------------
(***************************************************************************)
(* Theorems about DocSplit, for every file, every separator, every way of  *)
(* cutting and every block size: the pieces tile the file, the stream ends *)
(* its documents at separators, and the documents of the pieces are those  *)
(* of the whole file.                                                      *)
(***************************************************************************)
EXTENDS DocSplit, TLAPS, SequenceTheorems, WellFoundedInduction

(* The pieces regs tile the bytes before upto, but for separators between them. *)
FromIn(regs, upto, r) == IF r > Len(regs) THEN upto ELSE regs[r][1]
Tiles(regs, upto) ==
    /\ FromIn(regs, upto, 1) = 0
    /\ \A r \in 1..Len(regs) :
          /\ FromIn(regs, upto, r) <= regs[r][2] /\ regs[r][2] <= FromIn(regs, upto, r + 1)
          /\ Slice(input.bytes, regs[r][2], FromIn(regs, upto, r + 1)) \in {<<>>, input.sep}

(* The last boundary of a window is the end of the first separator from where it was
   looked for, so that the next one cannot lie before it. *)
Target(i) == i * (Size \div input.size)
WindowAt ==
    input.cut = "windows" =>
        \/ start = Size
        \/ probes = 1 /\ start = 0
        \/ /\ probes > 1 /\ Boundaries(Target(probes - 1)) # {}
           /\ start = Find(input.bytes, input.sep, Target(probes - 1), Size) + Len(input.sep)

Cutting ==
    /\ ~planned => Tiles(regions, start)
    /\ planned => Tiles(regions, Size)
    /\ input.cut = "regions" => probes = 1
    /\ probes > input.size => start = Size
    /\ WindowAt

(* What the stream has returned, and where it stands: the last document ended before
   lo, with a separator between, and unless lo is behind a separator, none is in
   what buf holds. *)
StreamTypeOK ==
    /\ hi \in 0..Size /\ lo \in 0..hi /\ reading \in BOOLEAN /\ ended \in BOOLEAN
    /\ streamed \in Seq((0..Size) \X (0..Size))
Streaming ==
    /\ EndsAtSeparator
    /\ reading => ~ended /\ Len(input.sep) > 0
    /\ Len(input.sep) > 0 =>
          /\ ~ended /\ Len(streamed) > 0 => streamed[Len(streamed)][2] + Len(input.sep) <= lo
          /\ reading => Stream!BehindSep(lo) \/ Hits(input.bytes, input.sep, lo, hi) = {}

-----------------------------------------------------------------------------
(* The least element of a set of numbers. *)
LEMMA LeastElement ==
    ASSUME NEW S \in SUBSET Nat, S # {}
    PROVE  \E n \in S : \A m \in S : n <= m
<1>1. IsWellFoundedOn(OpToRel(<, Nat), Nat)
  BY NatLessThanWellFounded
<1>2. PICK n \in S : \A m \in S : ~ (<<m, n>> \in OpToRel(<, Nat))
  BY <1>1, WFMin
<1>3. \A m \in S : ~ (m < n)
  BY <1>2 DEF OpToRel
<1> QED
  BY <1>3

(* Finder::find: an occurrence, and none before it. *)
LEMMA FindFacts ==
    ASSUME NEW s, NEW needle, NEW a \in Nat, NEW b \in Nat, Len(needle) \in Nat,
           Hits(s, needle, a, b) # {}
    PROVE  LET hit == Find(s, needle, a, b)
           IN  /\ hit \in a..(b - Len(needle)) /\ hit \in Hits(s, needle, a, b)
               /\ Slice(s, hit, hit + Len(needle)) = needle
               /\ \A h \in Hits(s, needle, a, b) : hit <= h
<1> DEFINE H == Hits(s, needle, a, b)
<1>1. H \in SUBSET Nat /\ H \subseteq a..(b - Len(needle))
  BY DEF Hits
<1>2. \E x \in H : \A y \in H : x <= y
  BY <1>1, LeastElement
<1>3. Find(s, needle, a, b) \in H /\ \A h \in H : Find(s, needle, a, b) <= h
  <2>1. Find(s, needle, a, b) = CHOOSE x \in H : \A y \in H : x <= y
    BY DEF Find, Min
  <2> QED
    BY <1>2, <2>1
<1> QED
  BY <1>1, <1>3 DEF Hits

(* An input has bytes to count, and a separator of a byte or more unless it is whole. *)
LEMMA InputFacts ==
    ASSUME IsInput(input)
    PROVE  /\ Size \in Nat /\ Len(input.sep) \in Nat /\ input.size \in Nat \ {0}
           /\ input.bytes \in Seq(Bytes) /\ input.sep \in Seq(Bytes)
           /\ ~Whole => Len(input.sep) > 0
           /\ input.format = "jsonl" => input.sep = <<Newline>> /\ Len(input.sep) = 1
           /\ Size \div input.size \in Nat
<1>1. input.bytes \in Seq(Bytes) /\ input.sep \in Seq(Bytes) /\ input.size \in Nat \ {0}
  BY DEF IsInput
<1>2. Size \in Nat /\ Len(input.sep) \in Nat
  BY <1>1 DEF Size
<1>3. ~Whole => Len(input.sep) > 0
  BY <1>1, <1>2, EmptySeq DEF Whole
<1>4. Size \div input.size \in Nat
  BY <1>1, <1>2
<1> QED
  BY <1>1, <1>2, <1>3, <1>4 DEF IsInput

(* A slice of the file is a string of bytes. *)
LEMMA SliceType ==
    ASSUME IsInput(input), NEW a \in 0..Size, NEW b \in 0..Size
    PROVE  Slice(input.bytes, a, b) \in Seq(Bytes)
<1>1. input.bytes \in Seq(Bytes) /\ Len(input.bytes) \in Nat
  BY InputFacts
<1>2. \A i \in (a + 1)..b : i \in 1..Len(input.bytes)
  BY <1>1 DEF Size
<1> QED
  BY <1>1, <1>2, SubSeqProperties DEF Slice, Size

(* One more piece, and what the cut leaves out behind it. *)
LEMMA PushTiles ==
    ASSUME IsInput(input), regions \in Seq((0..Size) \X (0..Size)),
           NEW s \in 0..Size, Tiles(regions, s),
           NEW e \in s..Size, NEW t \in e..Size,
           Slice(input.bytes, e, t) \in {<<>>, input.sep}
    PROVE  Tiles(Append(regions, <<s, e>>), t)
<1> DEFINE regs == Append(regions, <<s, e>>)
           L == Len(regions)
<1>0. Size \in Nat
  BY InputFacts
<1>1. L \in Nat /\ Len(regs) = L + 1 /\ regs[L + 1] = <<s, e>>
      /\ \A r \in 1..L : regs[r] = regions[r] /\ regions[r] \in (0..Size) \X (0..Size)
  BY <1>0
<1> HIDE DEF regs, L
<1>2. \A r \in 1..(L + 1) : FromIn(regs, t, r) = FromIn(regions, s, r)
  <2> TAKE r \in 1..(L + 1)
  <2>1. r \in Nat /\ ~(r > L + 1) /\ (r > L \/ r \in 1..L)
    BY <1>1
  <2>2. CASE r > L
    <3>1. r = L + 1
      BY <1>1, <2>1, <2>2
    <3> QED
      BY ONLY <1>1, <2>1, <2>2, <3>1 DEF FromIn, L
  <2>3. CASE r \in 1..L
    <3>1. ~(r > L)
      BY <1>1, <2>3
    <3> QED
      BY ONLY <1>1, <2>1, <2>3, <3>1 DEF FromIn, L
  <2> QED
    BY <2>1, <2>2, <2>3
<1>3. FromIn(regs, t, L + 2) = t /\ FromIn(regs, t, L + 1) = s
  BY <1>1 DEF FromIn
<1>4. FromIn(regs, t, 1) = 0
  BY <1>1, <1>2 DEF Tiles
<1>5. ASSUME NEW r \in 1..L
      PROVE  /\ FromIn(regs, t, r) <= regs[r][2] /\ regs[r][2] <= FromIn(regs, t, r + 1)
             /\ Slice(input.bytes, regs[r][2], FromIn(regs, t, r + 1)) \in {<<>>, input.sep}
  <2>1. r \in 1..(L + 1) /\ r + 1 \in 1..(L + 1) /\ regs[r] = regions[r]
    BY <1>1
  <2>2. FromIn(regs, t, r) = FromIn(regions, s, r) /\ FromIn(regs, t, r + 1) = FromIn(regions, s, r + 1)
    BY <1>2, <2>1
  <2> QED
    BY <2>1, <2>2 DEF Tiles, L
<1>6. /\ FromIn(regs, t, L + 1) <= regs[L + 1][2] /\ regs[L + 1][2] <= FromIn(regs, t, L + 2)
      /\ Slice(input.bytes, regs[L + 1][2], FromIn(regs, t, L + 2)) \in {<<>>, input.sep}
  BY <1>0, <1>1, <1>3
<1>7. \A r \in 1..(L + 1) : r \in 1..L \/ (r = L + 1 /\ r + 1 = L + 2)
  BY <1>1
<1>8. Tiles(regs, t)
  <2>1. \A r \in 1..(L + 1) :
           /\ FromIn(regs, t, r) <= regs[r][2] /\ regs[r][2] <= FromIn(regs, t, r + 1)
           /\ Slice(input.bytes, regs[r][2], FromIn(regs, t, r + 1)) \in {<<>>, input.sep}
    BY <1>5, <1>6, <1>7
  <2> QED
    BY <1>1, <1>4, <2>1 DEF Tiles
<1> QED
  BY <1>8 DEF regs

(* Two cuts at one place leave nothing out. *)
LEMMA EmptySlice ==
    ASSUME IsInput(input), NEW a \in 0..Size PROVE Slice(input.bytes, a, a) = <<>>
<1>1. Size \in Nat /\ a + 1 > a
  BY InputFacts
<1> QED
  BY <1>1 DEF Slice

-----------------------------------------------------------------------------
(* Cutting. *)
Inv == TypeOK /\ Cutting

LEMMA CutRegionKeeps == ASSUME Inv, CutRegion, streaming' = streaming PROVE Inv'
<1> DEFINE probe == start + input.size
           sepLen == Len(input.sep)
<1>1. /\ TypeOK /\ Cutting /\ IsInput(input)
      /\ Size \in Nat /\ sepLen \in Nat \ {0} /\ input.size \in Nat \ {0}
      /\ start \in 0..Size /\ Tiles(regions, start) /\ ~planned /\ input.cut = "regions"
  BY InputFacts DEF Inv, TypeOK, CutRegion, Cutting
<1>2. /\ UNCHANGED <<input, probes, planned, pos, finished, docs>> /\ Size' = Size
  BY DEF CutRegion, Size
<1>3. \E e \in 0..Size, t \in 0..Size :
         /\ start <= e /\ e <= t
         /\ regions' = Append(regions, <<start, e>>) /\ start' = t
         /\ Slice(input.bytes, e, t) \in {<<>>, input.sep}
  <2>1. CASE probe < Size /\ Boundaries(probe) # {}
    <3> DEFINE hit == Find(input.bytes, input.sep, probe, Size)
    <3>0. probe \in Nat /\ start <= probe
      BY <1>1
    <3>1. /\ hit \in probe..(Size - sepLen)
          /\ Slice(input.bytes, hit, hit + sepLen) = input.sep
      <4> HIDE DEF probe
      <4> QED
        BY <1>1, <2>1, <3>0, FindFacts DEF Boundaries
    <3> HIDE DEF hit
    <3>2. /\ hit \in 0..Size /\ start <= hit
          /\ hit + sepLen \in 0..Size /\ hit <= hit + sepLen
      BY <1>1, <3>0, <3>1
    <3>3. start' = hit + sepLen
      BY <2>1 DEF CutRegion, hit
    <3>4. CASE input.format = "jsonl"
      <4>1. regions' = Append(regions, <<start, hit + sepLen>>)
        BY <2>1, <3>4 DEF CutRegion, Push, hit
      <4>2. hit + sepLen \in 0..Size /\ start <= hit + sepLen
        BY <1>1, <3>2
      <4>3. Slice(input.bytes, hit + sepLen, hit + sepLen) = <<>>
        BY <1>1, <4>2, EmptySlice
      <4> QED
        BY <3>3, <4>1, <4>2, <4>3
    <3>5. CASE input.format # "jsonl"
      <4>1. regions' = Append(regions, <<start, hit>>)
        BY <2>1, <3>5 DEF CutRegion, Push, hit
      <4> QED
        BY <3>1, <3>2, <3>3, <4>1
    <3> QED
      BY <3>4, <3>5
  <2>2. CASE ~(probe < Size /\ Boundaries(probe) # {})
    <3>1. regions' = Append(regions, <<start, Size>>) /\ start' = Size
      BY <2>2 DEF CutRegion, Push
    <3>2. Slice(input.bytes, Size, Size) = <<>> /\ Size \in 0..Size /\ start <= Size
      BY <1>1, EmptySlice
    <3> QED
      BY <3>1, <3>2
  <2> QED
    BY <2>1, <2>2
<1>4. PICK e \in 0..Size, t \in 0..Size :
         /\ start <= e /\ e <= t
         /\ regions' = Append(regions, <<start, e>>) /\ start' = t
         /\ Slice(input.bytes, e, t) \in {<<>>, input.sep}
  BY <1>3
<1>5. /\ e \in 0..Size /\ t \in 0..Size /\ regions \in Seq((0..Size) \X (0..Size))
      /\ regions' \in Seq((0..Size) \X (0..Size)) /\ e \in start..Size /\ t \in e..Size
  BY <1>1, <1>4, SMTT(30) DEF TypeOK
<1>6. Tiles(regions', start')
  BY <1>1, <1>4, <1>5, PushTiles
<1>7. Tiles(regions, start)'
  BY <1>2, <1>6 DEF Tiles, FromIn
<1>8. TypeOK'
  BY <1>1, <1>2, <1>4, <1>5 DEF TypeOK
<1>9. Cutting'
  BY <1>1, <1>2, <1>7 DEF Cutting, WindowAt
<1> QED
  BY <1>8, <1>9 DEF Inv

LEMMA CutWindowKeeps ==
    ASSUME Inv, CutWindow, streaming' = streaming PROVE Inv' /\ start' \in start..Size
<1> DEFINE sepLen == Len(input.sep)
           chunk == Size \div input.size
           end == IF probes >= input.size \/ Boundaries(Target(probes)) = {} THEN Size
                  ELSE Find(input.bytes, input.sep, Target(probes), Size) + sepLen
<1>1. /\ TypeOK /\ Cutting /\ WindowAt /\ IsInput(input)
      /\ Size \in Nat /\ sepLen \in Nat \ {0} /\ input.size \in Nat \ {0} /\ chunk \in Nat
      /\ start \in 0..Size /\ start < Size /\ Tiles(regions, start) /\ ~planned
      /\ input.cut = "windows" /\ probes \in 1..(input.size + 1)
  BY InputFacts DEF Inv, TypeOK, CutWindow, Cutting
<1>2. UNCHANGED <<input, planned, pos, finished, docs>> /\ Size' = Size /\ probes' = probes + 1
  BY DEF CutWindow, Size
<1>3. probes <= input.size
  BY <1>1 DEF Cutting
<1>4. /\ regions' = IF end = start THEN regions ELSE Append(regions, <<start, end>>)
      /\ start' = end
  BY DEF CutWindow, Push, Target
(* A boundary looked for further on is not found before the last one. *)
<1>5. /\ end \in 0..Size /\ start <= end
      /\ end = Size \/ (/\ Boundaries(Target(probes)) # {}
                        /\ end = Find(input.bytes, input.sep, Target(probes), Size) + sepLen)
  <2>1. CASE probes >= input.size \/ Boundaries(Target(probes)) = {}
    BY <1>1, <2>1
  <2>2. CASE ~(probes >= input.size \/ Boundaries(Target(probes)) = {})
    <3> DEFINE a == Target(probes)
               b == Target(probes - 1)
               hit == Find(input.bytes, input.sep, a, Size)
    <3>1. a \in Nat /\ b \in Nat /\ b <= a
      <4>1. a = probes * chunk /\ b = (probes - 1) * chunk
        BY DEF Target
      <4>2. a = b + chunk
        BY <1>1, <4>1
      <4>3. b \in Nat
        BY <1>1, <4>1, SMTT(30)
      <4> QED
        BY <1>1, <4>2, <4>3
    <3> HIDE DEF a, b
    <3>2. /\ hit \in a..(Size - sepLen) /\ hit \in Hits(input.bytes, input.sep, a, Size)
      BY <1>1, <2>2, <3>1, FindFacts DEF Boundaries, a
    <3>3. hit \in Hits(input.bytes, input.sep, b, Size)
      BY <1>1, <3>1, <3>2 DEF Hits
    <3>4. start <= hit + sepLen
      <4>1. CASE probes = 1 /\ start = 0
        BY <1>1, <3>1, <3>2, <4>1
      <4>2. CASE start = Find(input.bytes, input.sep, b, Size) + sepLen
        <5>1. /\ Find(input.bytes, input.sep, b, Size) <= hit
              /\ Find(input.bytes, input.sep, b, Size) \in b..(Size - sepLen)
          BY <1>1, <3>1, <3>3, FindFacts
        <5> HIDE DEF hit
        <5> QED
          BY <1>1, <3>1, <3>2, <4>2, <5>1
      <4> QED
        BY <1>1, <4>1, <4>2 DEF WindowAt, b
    <3>5. end = hit + sepLen
      BY <2>2 DEF a
    <3> HIDE DEF hit, end
    <3>6. hit + sepLen \in 0..Size
      BY <1>1, <3>1, <3>2
    <3> QED
      BY <2>2, <3>4, <3>5, <3>6 DEF hit, a
  <2> QED
    BY <2>1, <2>2
<1>7. WindowAt' /\ (probes' > input'.size => start' = Size')
  <2>1. probes' - 1 = probes /\ probes' > 1 /\ (probes' > input.size => probes >= input.size)
    BY <1>1, <1>2
  <2>2. Target(probes - 1)' = Target(probes)
    BY <1>2, <2>1 DEF Target
  <2>3. (start' = end /\ end = Size) \/ (/\ Boundaries(Target(probes)) # {}
           /\ start' = Find(input.bytes, input.sep, Target(probes), Size) + sepLen)
    BY <1>4, <1>5
  <2>4. Boundaries(Target(probes - 1))' = Boundaries(Target(probes))
    BY <1>2, <2>2 DEF Boundaries
  <2>5. probes' > input.size => start' = Size
    BY <1>1, <1>4, <2>1
  <2> HIDE DEF end
  <2>6. start' = Size \/ (/\ Boundaries(Target(probes - 1))' # {}
           /\ start' = Find(input.bytes, input.sep, Target(probes - 1)', Size) + sepLen)
    BY <1>4, <2>2, <2>3, <2>4
  <2> QED
    BY <1>2, <2>1, <2>5, <2>6 DEF WindowAt
<1> HIDE DEF end
<1>8. regions' \in Seq((0..Size) \X (0..Size)) /\ Tiles(regions', start')
  <2>1. CASE end = start
    BY <1>1, <1>4, <2>1 DEF TypeOK
  <2>2. CASE end # start
    <3>1. /\ end \in start..Size /\ end \in end..Size /\ start \in 0..Size
          /\ regions \in Seq((0..Size) \X (0..Size)) /\ Slice(input.bytes, end, end) = <<>>
      BY <1>1, <1>5, EmptySlice DEF TypeOK
    <3>2. Tiles(Append(regions, <<start, end>>), end)
      BY <1>1, <3>1, PushTiles
    <3> QED
      BY <1>4, <1>5, <2>2, <3>1, <3>2
  <2> QED
    BY <2>1, <2>2
<1>9. Tiles(regions, start)'
  BY <1>2, <1>8 DEF Tiles, FromIn
<1>10. TypeOK'
  <2>1. start' \in 0..Size /\ probes' \in 1..(input.size + 1)
    BY <1>1, <1>2, <1>3, <1>4, <1>5
  <2> QED
    BY <1>1, <1>2, <1>8, <2>1 DEF TypeOK
<1>11. Cutting'
  BY <1>1, <1>2, <1>7, <1>9 DEF Cutting
<1>12. start' \in start..Size
  BY <1>1, <1>4, <1>5
<1> QED
  BY <1>10, <1>11, <1>12 DEF Inv

LEMMA FirstAlone ==
    ASSUME NEW S, NEW s \in Seq(S), Len(s) = 1
    PROVE  <<s[1]>> \in Seq(S) /\ Len(<<s[1]>>) = 1
<1>1. s[1] \in S
  BY ElementOfSeq, SMTT(30)
<1> QED
  BY <1>1

LEMMA PlanKeeps == ASSUME Inv, Plan, streaming' = streaming PROVE Inv'
<1> DEFINE Place == (0..Size) \X (0..Size)
<1>1. /\ TypeOK /\ Cutting /\ IsInput(input) /\ Size \in Nat /\ ~planned /\ planned'
      /\ start \in 0..Size /\ regions \in Seq(Place)
      /\ pos \in Seq(0..(Size + 1)) /\ Len(pos) = 1 /\ docs \in Seq(Seq(Seq(Bytes))) /\ Len(docs) = 1
  BY InputFacts DEF Inv, TypeOK, Plan
<1>2. UNCHANGED <<input, start, probes, finished>> /\ Size' = Size
  BY DEF Plan, Size
<1>3. regions' \in Seq(Place) /\ Tiles(regions', Size) /\ Len(regions') \in Nat
  <2>1. CASE Whole \/ regions = <<>>
    <3> DEFINE one == <<<<0, Size>>>>
    <3>1. regions' = one
      BY <2>1 DEF Plan
    <3>2. one \in Seq(Place) /\ Len(one) = 1 /\ one[1] = <<0, Size>>
      BY <1>1
    <3> HIDE DEF one
    <3>3. FromIn(one, Size, 1) = 0 /\ FromIn(one, Size, 2) = Size
      BY <3>2 DEF FromIn
    <3>4. \A r \in 1..Len(one) : r = 1 /\ r + 1 = 2
      BY <3>2
    <3>5. Slice(input.bytes, Size, Size) = <<>>
      BY <1>1, EmptySlice
    <3> QED
      BY <1>1, <3>1, <3>2, <3>3, <3>4, <3>5 DEF Tiles
  <2>2. CASE ~(Whole \/ regions = <<>>)
    <3>1. regions' = regions /\ start = Size
      BY <1>1, <2>2 DEF Plan
    <3> QED
      BY <1>1, <3>1 DEF Cutting
  <2> QED
    BY <2>1, <2>2
<1>4. Tiles(regions, Size)'
  BY <1>2, <1>3 DEF Tiles, FromIn
<1>5. DOMAIN regions' = 1..Len(regions') /\ \A r \in DOMAIN regions' : regions'[r][1] \in 0..(Size + 1)
  BY <1>1, <1>3
<1>6. pos' \in Seq(0..(Size + 1)) /\ Len(pos') = Len(regions') + 1
  <2> DEFINE starts == [r \in DOMAIN regions' |-> regions'[r][1]]
  <2>1. starts \in Seq(0..(Size + 1)) /\ Len(starts) = Len(regions')
    BY <1>3, <1>5
  <2>2. <<pos[1]>> \in Seq(0..(Size + 1)) /\ Len(<<pos[1]>>) = 1
    BY <1>1, FirstAlone
  <2>3. pos' = <<pos[1]>> \o starts
    BY DEF Plan
  <2> HIDE DEF starts
  <2> QED
    BY <1>3, <2>1, <2>2, <2>3, ConcatProperties
<1>7. docs' \in Seq(Seq(Seq(Bytes))) /\ Len(docs') = Len(regions') + 1
  <2> DEFINE none == [r \in DOMAIN regions' |-> <<>>]
  <2>1. none \in Seq(Seq(Seq(Bytes))) /\ Len(none) = Len(regions')
    BY <1>3, <1>5
  <2>2. <<docs[1]>> \in Seq(Seq(Seq(Bytes))) /\ Len(<<docs[1]>>) = 1
    BY <1>1, FirstAlone
  <2>3. docs' = <<docs[1]>> \o none
    BY DEF Plan
  <2> HIDE DEF none
  <2> QED
    BY <1>3, <2>1, <2>2, <2>3, ConcatProperties
<1>8. finished \subseteq 0..(Len(pos') - 1)
  <2>1. finished \subseteq {0}
    BY <1>1 DEF TypeOK
  <2> QED
    BY <1>3, <1>6, <2>1
<1>9. TypeOK'
  BY <1>1, <1>2, <1>3, <1>6, <1>7, <1>8 DEF TypeOK
<1>10. Cutting'
  BY <1>1, <1>2, <1>4 DEF Cutting, WindowAt, Boundaries, Target
<1> QED
  BY <1>9, <1>10 DEF Inv

-----------------------------------------------------------------------------
(* Reading. *)
LEMMA ReaderFacts ==
    ASSUME Inv, NEW r \in 0..Len(regions), Reading(r)
    PROVE  /\ r + 1 \in 1..Len(pos) /\ r + 1 \in 1..Len(docs) /\ r \in 0..(Len(pos) - 1)
           /\ At(pos, r) \in 0..(Size + 1)
           /\ RegionOf(r)[1] \in 0..Size /\ RegionOf(r)[2] \in 0..Size
<1>1. /\ regions \in Seq((0..Size) \X (0..Size)) /\ Len(regions) \in Nat
      /\ pos \in Seq(0..(Size + 1)) /\ Len(pos) = Len(docs)
      /\ Len(pos) = (IF planned THEN Len(regions) + 1 ELSE 1) /\ Size \in Nat
  BY InputFacts DEF Inv, TypeOK
<1>2. r + 1 \in 1..Len(pos)
  BY <1>1 DEF Reading
<1>3. RegionOf(r)[1] \in 0..Size /\ RegionOf(r)[2] \in 0..Size
  <2>1. CASE r = 0
    BY <1>1, <2>1 DEF RegionOf
  <2>2. CASE r # 0
    <3>1. r \in 1..Len(regions)
      BY <1>1, <2>2
    <3>2. regions[r] \in (0..Size) \X (0..Size)
      BY <1>1, <3>1
    <3> QED
      BY <2>2, <3>2 DEF RegionOf
  <2> QED
    BY <2>1, <2>2
<1> QED
  BY <1>1, <1>2, <1>3, SMTT(30) DEF At

LEMMA YieldType ==
    ASSUME Inv, NEW r, r + 1 \in 1..Len(docs), NEW a \in 0..Size, NEW b \in 0..Size, Yield(r, a, b)
    PROVE  docs' \in Seq(Seq(Seq(Bytes))) /\ Len(docs') = Len(docs)
<1>1. docs \in Seq(Seq(Seq(Bytes))) /\ Slice(input.bytes, a, b) \in Seq(Bytes)
  BY SliceType DEF Inv, TypeOK
<1>2. docs[r + 1] \in Seq(Seq(Bytes))
  BY <1>1
<1>3. Append(docs[r + 1], Slice(input.bytes, a, b)) \in Seq(Seq(Bytes))
  BY <1>1, <1>2
<1> QED
  BY <1>1, <1>3, ExceptSeq DEF Yield

LEMMA AdvanceType ==
    ASSUME Inv, NEW r, r + 1 \in 1..Len(pos), NEW p \in 0..(Size + 1), Advance(r, p)
    PROVE  pos' \in Seq(0..(Size + 1)) /\ Len(pos') = Len(pos)
BY ExceptSeq DEF Inv, TypeOK, Advance

(* Reading disturbs no piece. *)
LEMMA NextDocKeeps ==
    ASSUME Inv, NEW r \in 0..Len(regions), NextDoc(r), streaming' = streaming PROVE Inv'
<1>1. Reading(r) /\ UNCHANGED <<input, start, probes, regions, planned>> /\ Size' = Size
  BY DEF NextDoc, WholeDoc, TextDoc, JsonDoc, Size
<1>2. /\ r + 1 \in 1..Len(pos) /\ r + 1 \in 1..Len(docs) /\ r \in 0..(Len(pos) - 1)
      /\ At(pos, r) \in 0..(Size + 1)
      /\ RegionOf(r)[1] \in 0..Size /\ RegionOf(r)[2] \in 0..Size
  BY <1>1, ReaderFacts
<1>3. /\ TypeOK /\ Cutting /\ IsInput(input) /\ Size \in Nat /\ Len(input.sep) \in Nat
      /\ docs \in Seq(Seq(Seq(Bytes))) /\ pos \in Seq(0..(Size + 1))
  BY InputFacts DEF Inv, TypeOK
<1>4. /\ docs' \in Seq(Seq(Seq(Bytes))) /\ Len(docs') = Len(docs)
      /\ pos' \in Seq(0..(Size + 1)) /\ Len(pos') = Len(pos)
      /\ finished' \subseteq finished \cup {r}
  <2>1. CASE WholeDoc(r)
    BY <1>2, <1>3, <2>1, YieldType DEF WholeDoc, Finish
  <2>2. CASE TextDoc(r)
    <3> DEFINE from == At(pos, r)
               to == RegionOf(r)[2]
               hits == Hits(input.bytes, input.sep, from, to)
               end == IF hits = {} THEN to ELSE Find(input.bytes, input.sep, from, to)
    <3>1. end \in 0..Size /\ (hits # {} => end + Len(input.sep) \in 0..(Size + 1))
      <4>1. CASE hits = {}
        BY <1>2, <4>1
      <4>2. CASE hits # {}
        <5>1. from \in Nat /\ to \in Nat /\ Hits(input.bytes, input.sep, from, to) # {}
          BY <1>2, <1>3, <4>2
        <5>2. Find(input.bytes, input.sep, from, to) \in from..(to - Len(input.sep))
          BY <1>3, <5>1, FindFacts
        <5>3. end = Find(input.bytes, input.sep, from, to)
          BY <4>2
        <5> HIDE DEF from, to, end
        <5>4. from \in 0..(Size + 1) /\ to \in 0..Size
          BY <1>2 DEF from, to
        <5> QED
          BY <1>3, <5>2, <5>3, <5>4, SMTT(30)
      <4> QED
        BY <4>1, <4>2
    <3>2. /\ IF from < end THEN Yield(r, from, end) ELSE UNCHANGED docs
          /\ IF hits = {} THEN Finish(r) /\ UNCHANGED pos
                          ELSE Advance(r, end + Len(input.sep)) /\ UNCHANGED finished
      BY <2>2 DEF TextDoc
    <3>3. from \in 0..(Size + 1)
      BY <1>2
    <3> HIDE DEF from, to, hits, end
    <3>4. docs' \in Seq(Seq(Seq(Bytes))) /\ Len(docs') = Len(docs)
      <4>1. CASE from < end
        <5>1. from \in 0..Size
          BY <1>3, <3>1, <3>3, <4>1
        <5> QED
          BY <1>2, <3>1, <3>2, <4>1, <5>1, YieldType
      <4>2. CASE ~(from < end)
        BY <1>3, <3>2, <4>2
      <4> QED
        BY <4>1, <4>2
    <3>5. pos' \in Seq(0..(Size + 1)) /\ Len(pos') = Len(pos) /\ finished' \subseteq finished \cup {r}
      BY <1>2, <1>3, <3>1, <3>2, AdvanceType DEF Finish
    <3> QED
      BY <3>4, <3>5
  <2>3. CASE JsonDoc(r)
    <3> DEFINE to == RegionOf(r)[2]
               rest == {p \in At(pos, r)..(to - 1) : input.bytes[p + 1] # Newline}
               from == CHOOSE p \in rest : \A q \in rest : p <= q
               hits == Hits(input.bytes, <<Newline>>, from, to)
               end == IF hits = {} THEN to ELSE Find(input.bytes, <<Newline>>, from, to)
    <3>1. \/ Finish(r) /\ UNCHANGED <<pos, docs>>
          \/ rest # {} /\ Yield(r, from, end) /\ Advance(r, end + 1) /\ UNCHANGED finished
      BY <2>3 DEF JsonDoc
    <3>2. ASSUME rest # {} PROVE from \in 0..Size /\ end \in 0..Size
      <4>1. rest \in SUBSET Nat /\ rest \subseteq At(pos, r)..(to - 1)
        BY <1>2
      <4>2. from \in rest
        <5> HIDE DEF rest
        <5> QED
          BY <3>2, <4>1, LeastElement
      <4>3. from \in 0..Size
        <5> HIDE DEF rest, from
        <5> QED
          BY <1>2, <1>3, <4>1, <4>2, SMTT(30)
      <4>4. end \in 0..Size
        <5>1. CASE hits = {}
          BY <1>2, <5>1
        <5>2. CASE hits # {}
          <6>1. from \in Nat /\ to \in Nat /\ Hits(input.bytes, <<Newline>>, from, to) # {}
            <7>1. from \in Nat
              <8> HIDE DEF from
              <8> QED
                BY <1>3, <4>3
            <7>2. to \in Nat
              <8>1. to \in 0..Size
                BY <1>2
              <8> HIDE DEF to
              <8> QED
                BY <1>3, <8>1
            <7> QED
              BY <5>2, <7>1, <7>2
          <6>2. Len(<<Newline>>) = 1
            OBVIOUS
          <6> HIDE DEF from, to
          <6>3. Find(input.bytes, <<Newline>>, from, to) \in from..(to - 1)
            BY <6>1, <6>2, FindFacts
          <6>4. to \in 0..Size
            BY <1>2 DEF to
          <6>5. Find(input.bytes, <<Newline>>, from, to) \in 0..Size
            BY <1>3, <4>3, <6>3, <6>4
          <6> QED
            BY <5>2, <6>5
        <5> QED
          BY <5>1, <5>2
      <4> QED
        BY <4>3, <4>4
    <3> HIDE DEF to, rest, from, hits, end
    <3>3. CASE Finish(r) /\ UNCHANGED <<pos, docs>>
      BY <1>3, <3>3 DEF Finish
    <3>4. CASE rest # {} /\ Yield(r, from, end) /\ Advance(r, end + 1) /\ UNCHANGED finished
      <4>1. from \in 0..Size /\ end \in 0..Size /\ end + 1 \in 0..(Size + 1)
        BY <1>3, <3>2, <3>4
      <4> QED
        BY <1>2, <3>4, <4>1, YieldType, AdvanceType
    <3> QED
      BY <3>1, <3>3, <3>4
  <2> QED
    BY <2>1, <2>2, <2>3 DEF NextDoc
<1>5. Tiles(regions, start)' = Tiles(regions, start) /\ Tiles(regions, Size)' = Tiles(regions, Size)
  BY <1>1 DEF Tiles, FromIn
<1>6. TypeOK'
  BY <1>1, <1>2, <1>3, <1>4 DEF TypeOK
<1>7. Cutting'
  BY <1>1, <1>3, <1>5 DEF Cutting, WindowAt, Boundaries, Target
<1> QED
  BY <1>6, <1>7 DEF Inv

-----------------------------------------------------------------------------
(* Streaming. *)
StreamInv == IsInput(input) /\ StreamTypeOK /\ Streaming

(* What EndsAtSeparator asks of the d-th document of ds. *)
EndsRight(ds, d) ==
    LET from == ds[d][1]
        hits == Hits(input.bytes, input.sep, from, Size)
    IN  /\ d > 1 => ds[d - 1][2] + Len(input.sep) <= from
        /\ ds[d][2] \in hits \cup {Size}
        /\ Stream!BehindSep(from) \/ \A h \in hits : ds[d][2] <= h

(* The stream searches as the rest does. *)
LEMMA SameSearch ==
    /\ \A s, a, b : Stream!Slice(s, a, b) = Slice(s, a, b)
    /\ \A s, needle, a, b : Stream!Hits(s, needle, a, b) = Hits(s, needle, a, b)
    /\ \A s, needle, a, b : Stream!Find(s, needle, a, b) = Find(s, needle, a, b)
<1>1. \A s, a, b : Stream!Slice(s, a, b) = Slice(s, a, b)
  BY DEF Stream!Slice, Slice
<1>2. \A s, needle, a, b : Stream!Hits(s, needle, a, b) = Hits(s, needle, a, b)
  BY DEF Stream!Slice, Slice, Stream!Hits, Hits
<1>3. \A s, needle, a, b : Stream!Find(s, needle, a, b) = Find(s, needle, a, b)
  BY <1>2 DEF Stream!Find, Find, Stream!Min, Min
<1> QED
  BY <1>1, <1>2, <1>3

LEMMA EndsEach ==
    EndsAtSeparator <=> \A d \in DOMAIN streamed : Len(input.sep) > 0 => EndsRight(streamed, d)
BY SameSearch DEF EndsAtSeparator, Stream!EndsAtSeparator, EndsRight, Stream!SepLen, Stream!Size, Size

LEMMA EndsSame ==
    ASSUME input' = input, NEW ds
    PROVE  \A d : EndsRight(ds, d)' <=> EndsRight(ds', d)
BY DEF EndsRight, Stream!BehindSep, Stream!SepLen, Size

(* A document is returned that ends where it must. *)
LEMMA ReturnRight ==
    ASSUME StreamInv, ~ended, input' = input, NEW to \in lo..Size, Stream!Return(lo, to),
           Len(input.sep) > 0 =>
               /\ to \in Hits(input.bytes, input.sep, lo, Size) \cup {Size}
               /\ \/ Stream!BehindSep(lo)
                  \/ \A h \in Hits(input.bytes, input.sep, lo, Size) : to <= h
    PROVE  /\ streamed' \in Seq((0..Size) \X (0..Size)) /\ EndsAtSeparator'
           /\ streamed' # streamed => Len(streamed') > 0 /\ streamed'[Len(streamed')][2] = to
<1>1. /\ Size \in Nat /\ Len(input.sep) \in Nat /\ lo \in 0..Size /\ to \in 0..Size
      /\ streamed \in Seq((0..Size) \X (0..Size)) /\ Len(streamed) \in Nat
  BY InputFacts DEF StreamInv, StreamTypeOK
<1>2. \A d \in DOMAIN streamed : Len(input.sep) > 0 => EndsRight(streamed, d)
  BY EndsEach DEF StreamInv, Streaming
<1>3. EndsAtSeparator' <=>
         \A d \in DOMAIN streamed' : Len(input.sep) > 0 => EndsRight(streamed', d)
  <2>1. EndsAtSeparator' <=>
           (\A d \in DOMAIN streamed : Len(input.sep) > 0 => EndsRight(streamed, d))'
    BY EndsEach, PTL
  <2> QED
    BY <2>1, EndsSame
<1>4. CASE ~(lo < to)
  <2>1. streamed' = streamed
    BY <1>4 DEF Stream!Return
  <2> QED
    BY <1>1, <1>2, <1>3, <2>1
<1>5. CASE lo < to
  <2> DEFINE n == Len(streamed) + 1
  <2>1. streamed' = Append(streamed, <<lo, to>>)
    BY <1>5 DEF Stream!Return
  <2>2. /\ streamed' \in Seq((0..Size) \X (0..Size)) /\ Len(streamed') = n
        /\ DOMAIN streamed' = 1..n /\ DOMAIN streamed = 1..(n - 1) /\ n \in Nat
        /\ streamed'[n] = <<lo, to>>
        /\ \A d \in 1..(n - 1) : streamed'[d] = streamed[d]
    BY <1>1, <2>1
  <2>3. n > 1 => Len(streamed) > 0 /\ Len(streamed) = n - 1
    BY <1>1
  <2> HIDE DEF n
  <2>4. ASSUME NEW d \in 1..n, Len(input.sep) > 0 PROVE EndsRight(streamed', d)
    <3>1. CASE d \in 1..(n - 1)
      <4>1. d > 1 => d - 1 \in 1..(n - 1)
        BY <2>2, <3>1, SMTT(30)
      <4>2. streamed'[d] = streamed[d] /\ (d > 1 => streamed'[d - 1] = streamed[d - 1])
        BY <2>2, <3>1, <4>1
      <4>3. EndsRight(streamed, d)
        BY <1>2, <2>2, <2>4, <3>1
      <4> QED
        BY <4>2, <4>3 DEF EndsRight
    <3>2. CASE d = n
      <4>1. d > 1 => d - 1 \in 1..(n - 1)
        BY <2>2, <3>2
      <4>2. d > 1 => streamed'[d - 1] = streamed[Len(streamed)]
        BY <2>2, <2>3, <3>2, <4>1
      <4>3. d > 1 => streamed'[d - 1][2] + Len(input.sep) <= lo
        BY <2>3, <2>4, <3>2, <4>2 DEF StreamInv, Streaming
      <4> QED
        BY <2>2, <2>4, <3>2, <4>3 DEF EndsRight
    <3> QED
      BY <2>2, <3>1, <3>2
  <2> QED
    BY <1>1, <1>3, <2>2, <2>4
<1> QED
  BY <1>4, <1>5

LEMMA ReadBlockKeeps == ASSUME StreamInv, Stream!FillBuf PROVE StreamInv'
<1> DEFINE sepLen == Len(input.sep)
           since == IF hi - lo < sepLen - 1 THEN lo ELSE hi - (sepLen - 1)
<1>1. /\ Size \in Nat /\ sepLen \in Nat /\ lo \in 0..Size /\ hi \in 0..Size /\ lo <= hi
      /\ reading /\ ~ended /\ sepLen > 0 /\ input' = input /\ ended' = ended /\ IsInput(input')
      /\ since \in lo..Size
  <2>1. /\ Size \in Nat /\ sepLen \in Nat /\ hi \in 0..Size /\ lo \in 0..hi
        /\ reading /\ ~ended /\ sepLen > 0 /\ input' = input /\ ended' = ended /\ IsInput(input')
    BY InputFacts DEF StreamInv, StreamTypeOK, Streaming, Stream!FillBuf
  <2> HIDE DEF sepLen
  <2>2. since \in lo..Size
    BY <2>1
  <2> QED
    BY <2>1, <2>2
<1>2. PICK end \in (hi + 1)..Size :
         /\ hi' = end
         /\ IF Hits(input.bytes, input.sep, since, end) = {}
            THEN UNCHANGED <<lo, reading, streamed>>
            ELSE LET hit == Find(input.bytes, input.sep, since, end)
                 IN  /\ Stream!Return(lo, hit)
                     /\ lo' = hit + sepLen
                     /\ reading' = (lo = hit)
  BY SameSearch DEF Stream!FillBuf, Stream!Size, Size, Stream!SearchFrom, Stream!SepLen
<1>3. end \in 0..Size /\ hi < end
  BY <1>1, <1>2
(* An occurrence that the search steps over was held, whole, before the block came. *)
<1>4. ASSUME NEW h \in Hits(input.bytes, input.sep, lo, Size), h + sepLen <= end,
             sepLen > 0, ~Stream!BehindSep(lo)
      PROVE  h \in Hits(input.bytes, input.sep, since, end)
  <2>1. /\ h \in lo..(Size - sepLen) /\ Slice(input.bytes, h, h + sepLen) = input.sep
        /\ Hits(input.bytes, input.sep, lo, hi) = {}
    BY <1>1, <1>4 DEF Hits, StreamInv, Streaming
  <2>2. ~(h \in lo..(hi - sepLen))
    BY <2>1 DEF Hits
  <2>3. h \in since..(end - sepLen)
    BY <1>1, <1>3, <1>4, <2>1, <2>2
  <2> QED
    BY <2>1, <2>3 DEF Hits
<1>5. \A from, to : EndsAtSeparator /\ streamed' = streamed => EndsAtSeparator'
  BY <1>1 DEF EndsAtSeparator, Stream!EndsAtSeparator, Stream!SepLen, Stream!Size, Stream!BehindSep
<1>6. CASE Hits(input.bytes, input.sep, since, end) = {}
  <2>1. UNCHANGED <<lo, reading, streamed>>
    BY <1>2, <1>6
  <2>2. ASSUME sepLen > 0 PROVE Stream!BehindSep(lo) \/ Hits(input.bytes, input.sep, lo, end) = {}
    <3>1. SUFFICES ASSUME ~Stream!BehindSep(lo), NEW h \in Hits(input.bytes, input.sep, lo, end)
                   PROVE  FALSE
      OBVIOUS
    <3>2. h \in Hits(input.bytes, input.sep, lo, Size) /\ h + sepLen <= end
      BY <1>1, <1>3, <3>1 DEF Hits
    <3> QED
      BY <1>4, <1>6, <2>2, <3>1, <3>2
  <2>3. StreamTypeOK'
    BY <1>1, <1>2, <1>3, <2>1 DEF StreamInv, StreamTypeOK, Size
  <2>4. Streaming'
    BY <1>1, <1>2, <1>5, <2>1, <2>2
    DEF StreamInv, Streaming, Stream!BehindSep, Stream!SepLen
  <2> QED
    BY <1>1, <2>3, <2>4 DEF StreamInv
<1>7. CASE Hits(input.bytes, input.sep, since, end) # {}
  <2> DEFINE hit == Find(input.bytes, input.sep, since, end)
  <2>1. Stream!Return(lo, hit) /\ lo' = hit + sepLen /\ reading' = (lo = hit)
    BY <1>2, <1>7
  <2>2. /\ hit \in since..(end - sepLen) /\ Slice(input.bytes, hit, hit + sepLen) = input.sep
        /\ \A h \in Hits(input.bytes, input.sep, since, end) : hit <= h
    <3>1. since \in Nat /\ end \in Nat
      BY <1>1, <1>3
    <3> HIDE DEF since
    <3> QED
      BY <1>1, <1>7, <3>1, FindFacts
  <2> HIDE DEF hit
  <2>3. hit \in lo..Size /\ hit + sepLen \in 0..end /\ hit \in Nat /\ hit + sepLen \in 0..Size
    BY <1>1, <1>3, <2>2
  <2>4. ASSUME sepLen > 0
        PROVE  /\ hit \in Hits(input.bytes, input.sep, lo, Size)
               /\ Stream!BehindSep(lo) \/ \A h \in Hits(input.bytes, input.sep, lo, Size) : hit <= h
    <3>1. hit \in lo..(Size - sepLen)
      BY <1>1, <2>3
    <3>2. hit \in Hits(input.bytes, input.sep, lo, Size)
      BY <2>2, <3>1 DEF Hits
    <3>3. ASSUME ~Stream!BehindSep(lo), NEW h \in Hits(input.bytes, input.sep, lo, Size), h < hit
          PROVE  FALSE
      <4>1. h \in Nat /\ h + sepLen <= end
        BY <1>1, <1>3, <2>3, <3>3 DEF Hits
      <4>2. h \in Hits(input.bytes, input.sep, since, end)
        BY <1>4, <2>4, <3>3, <4>1
      <4> QED
        BY <2>2, <2>3, <3>3, <4>1, <4>2
    <3>4. \A h \in Hits(input.bytes, input.sep, lo, Size) : h \in Int
      BY <1>1 DEF Hits
    <3> QED
      BY <2>3, <3>2, <3>3, <3>4
  <2>5. /\ streamed' \in Seq((0..Size) \X (0..Size)) /\ EndsAtSeparator'
        /\ streamed' # streamed => Len(streamed') > 0 /\ streamed'[Len(streamed')][2] = hit
    BY <1>1, <2>1, <2>3, <2>4, ReturnRight
  <2>6. StreamTypeOK'
    BY <1>1, <1>2, <1>3, <2>1, <2>3, <2>5 DEF StreamInv, StreamTypeOK, Size
  <2>7. Stream!BehindSep(lo)'
    <3>1. lo' - sepLen = hit /\ lo' >= sepLen
      BY <1>1, <2>1, <2>3
    <3> QED
      BY <1>1, <2>1, <2>2, <3>1, SameSearch DEF Stream!BehindSep, Stream!SepLen
  <2>8. ASSUME sepLen > 0, Len(streamed') > 0 PROVE streamed'[Len(streamed')][2] + sepLen <= lo'
    <3>1. CASE streamed' # streamed
      BY <1>1, <2>1, <2>3, <2>5, <3>1
    <3>2. CASE streamed' = streamed
      <4>0. streamed \in Seq((0..Size) \X (0..Size)) /\ Streaming
        BY DEF StreamInv, StreamTypeOK
      <4>1. /\ streamed[Len(streamed)][2] + sepLen <= lo /\ Len(streamed) \in 1..Len(streamed)
            /\ streamed \in Seq((0..Size) \X (0..Size))
        BY <1>1, <2>8, <3>2, <4>0 DEF Streaming
      <4>2. streamed[Len(streamed)] \in (0..Size) \X (0..Size)
        BY <4>1, ElementOfSeq
      <4>3. streamed[Len(streamed)][2] \in Nat
        BY <1>1, <4>2
      <4> QED
        BY <1>1, <2>1, <2>3, <3>2, <4>1, <4>3, SMTT(30)
    <3> QED
      BY <3>1, <3>2
  <2>9. Streaming'
    BY <1>1, <2>5, <2>7, <2>8 DEF Streaming
  <2> QED
    BY <1>1, <2>6, <2>9 DEF StreamInv
<1> QED
  BY <1>6, <1>7

LEMMA StreamKeeps == ASSUME StreamInv, Stream!Step PROVE StreamInv'
<1>1. /\ Size \in Nat /\ Len(input.sep) \in Nat /\ lo \in 0..Size /\ hi \in 0..Size /\ lo <= hi
      /\ StreamTypeOK /\ Streaming /\ EndsAtSeparator /\ IsInput(input)
      /\ streamed \in Seq((0..Size) \X (0..Size))
  BY InputFacts DEF StreamInv, StreamTypeOK, Streaming
<1>2. input' = input /\ IsInput(input') /\ Size' = Size
  BY <1>1 DEF Stream!Step, Stream!NextWhole, Stream!Call, Stream!FillBuf, Stream!Eof,
     Stream!ReadError, Size
<1>3. streamed' = streamed => EndsAtSeparator'
  BY <1>1, <1>2 DEF EndsAtSeparator, Stream!EndsAtSeparator, Stream!SepLen, Stream!Size,
     Stream!BehindSep
<1>4. CASE Stream!NextWhole
  <2>1. /\ Len(input.sep) = 0 /\ ~ended /\ ended' = TRUE /\ UNCHANGED <<lo, hi, reading>>
        /\ Stream!Return(0, Size) \/ UNCHANGED streamed
    BY <1>4 DEF Stream!NextWhole, Stream!SepLen, Stream!Size, Size
  <2>2. streamed' \in Seq((0..Size) \X (0..Size))
    <3>1. <<0, Size>> \in (0..Size) \X (0..Size)
      BY <1>1
    <3>2. streamed' = streamed \/ streamed' = Append(streamed, <<0, Size>>)
      BY <2>1 DEF Stream!Return
    <3>3. CASE streamed' = streamed
      BY <1>1, <3>3
    <3>4. CASE streamed' = Append(streamed, <<0, Size>>)
      BY <1>1, <3>1, <3>4, AppendProperties
    <3> QED
      BY <3>2, <3>3, <3>4
  <2>3. EndsAtSeparator'
    BY <1>2, <2>1 DEF EndsAtSeparator, Stream!EndsAtSeparator, Stream!SepLen
  <2> QED
    BY <1>1, <1>2, <2>1, <2>2, <2>3 DEF StreamInv, StreamTypeOK, Streaming
<1>5. CASE Stream!Call
  <2>1. /\ ~ended /\ reading' = TRUE /\ lo' = hi /\ Len(input.sep) > 0
        /\ UNCHANGED <<hi, ended, streamed>>
    BY <1>5 DEF Stream!Call, Stream!SepLen
  <2>2. Hits(input.bytes, input.sep, hi, hi) = {}
    BY <1>1, <2>1 DEF Hits
  <2>3. Len(streamed) > 0 => streamed[Len(streamed)][2] + Len(input.sep) <= hi
    <3>1. SUFFICES ASSUME Len(streamed) > 0
                   PROVE  streamed[Len(streamed)][2] + Len(input.sep) <= hi
      OBVIOUS
    <3>2. /\ streamed[Len(streamed)][2] + Len(input.sep) <= lo
          /\ Len(streamed) \in 1..Len(streamed)
      BY <1>1, <2>1, <3>1 DEF Streaming
    <3>3. streamed[Len(streamed)] \in (0..Size) \X (0..Size)
      BY <1>1, <3>2, ElementOfSeq
    <3>4. streamed[Len(streamed)][2] \in Nat
      BY <1>1, <3>3
    <3> QED
      BY <1>1, <3>2, <3>4
  <2>4. StreamTypeOK'
    BY <1>1, <1>2, <2>1 DEF StreamTypeOK
  <2>5. Streaming'
    BY <1>1, <1>2, <1>3, <2>1, <2>2, <2>3 DEF Streaming
  <2> QED
    BY <1>2, <2>4, <2>5 DEF StreamInv
<1>6. CASE Stream!FillBuf
  BY <1>6, ReadBlockKeeps
<1>7. CASE Stream!Eof
  <2>1. /\ reading /\ hi = Size /\ Stream!Return(lo, hi) /\ lo' = hi
        /\ reading' = FALSE /\ ended' = TRUE /\ hi' = hi
    BY <1>7 DEF Stream!Eof, Stream!Size, Size
  <2>2. ~ended /\ (Stream!BehindSep(lo) \/ Hits(input.bytes, input.sep, lo, Size) = {})
    BY <1>1, <2>1 DEF Streaming
  <2>3. streamed' \in Seq((0..Size) \X (0..Size)) /\ EndsAtSeparator'
    BY <1>1, <1>2, <2>1, <2>2, ReturnRight
  <2> QED
    BY <1>1, <1>2, <2>1, <2>3 DEF StreamInv, StreamTypeOK, Streaming
<1>8. CASE Stream!ReadError
  <2>1. reading' = FALSE /\ ended' = TRUE /\ UNCHANGED <<lo, hi, streamed>>
    BY <1>8 DEF Stream!ReadError
  <2> QED
    BY <1>1, <1>2, <1>3, <2>1 DEF StreamInv, StreamTypeOK, Streaming
<1> QED
  BY <1>4, <1>5, <1>6, <1>7, <1>8 DEF Stream!Step

-----------------------------------------------------------------------------
IInv == Inv /\ StreamTypeOK /\ Streaming

LEMMA InitIInv == Init => IInv
<1> SUFFICES ASSUME Init PROVE IInv
  OBVIOUS
<1>1. IsInput(input) /\ streaming \in BOOLEAN
  BY InputsAssumption DEF Init
<1>2. /\ Size \in Nat /\ input.size \in Nat \ {0} /\ streamed = <<>> /\ regions = <<>>
      /\ start = 0 /\ probes = 1 /\ ~planned /\ ~reading /\ lo = 0 /\ hi = 0 /\ ~ended
  BY <1>1, InputFacts DEF Init
<1>3. TypeOK
  <2>1. <<0>> \in Seq(0..(Size + 1)) /\ Len(<<0>>) = 1
    BY <1>2
  <2>2. <<<<>>>> \in Seq(Seq(Seq(Bytes))) /\ Len(<<<<>>>>) = 1
    OBVIOUS
  <2>3. pos = <<0>> /\ docs = <<<<>>>> /\ finished = {} /\ planned = FALSE
    BY DEF Init
  <2>4. regions \in Seq((0..Size) \X (0..Size))
    BY <1>2
  <2>5. Len(pos) = 1 /\ Len(docs) = 1 /\ finished \subseteq 0..(Len(pos) - 1)
    BY <2>1, <2>2, <2>3
  <2>6. start \in 0..Size /\ probes \in 1..(input.size + 1)
    BY <1>2
  <2> QED
    BY <1>1, <2>1, <2>2, <2>3, <2>4, <2>5, <2>6 DEF TypeOK
<1>4. Cutting
  BY <1>2 DEF Cutting, WindowAt, Tiles, FromIn
<1>5. StreamTypeOK
  <2>1. lo \in 0..hi /\ hi \in 0..Size /\ reading = FALSE /\ ended = FALSE
    BY <1>2 DEF Init
  <2>2. streamed \in Seq((0..Size) \X (0..Size))
    BY <1>2
  <2> QED
    BY <2>1, <2>2 DEF StreamTypeOK
<1>6. Streaming
  BY <1>2 DEF Streaming, EndsAtSeparator, Stream!EndsAtSeparator
<1> QED
  BY <1>3, <1>4, <1>5, <1>6 DEF IInv, Inv

LEMMA NextIInv == IInv /\ [Next]_vars => IInv'
<1> SUFFICES ASSUME IInv, [Next]_vars PROVE IInv'
  OBVIOUS
<1>1. Inv /\ StreamInv
  BY DEF IInv, Inv, StreamInv, TypeOK
<1>2. ASSUME input' = input, UNCHANGED streamVars PROVE StreamTypeOK' /\ Streaming'
  BY <1>1, <1>2 DEF streamVars, StreamInv, StreamTypeOK, Streaming, Size, EndsAtSeparator,
     Stream!EndsAtSeparator, Stream!SepLen, Stream!Size, Stream!BehindSep
<1>3. ASSUME UNCHANGED <<input, splitVars, streaming>> PROVE Inv'
  BY <1>1, <1>3 DEF splitVars, Inv, TypeOK, Size, Cutting, Tiles, FromIn, WindowAt, Boundaries, Target
<1>4. CASE ~streaming /\ SplitStep /\ UNCHANGED <<streaming, streamVars>>
  <2>1. input' = input
    BY <1>4 DEF SplitStep, CutRegion, CutWindow, Plan, NextDoc, WholeDoc, TextDoc, JsonDoc
  <2>2. Inv'
    BY <1>1, <1>4, CutRegionKeeps, CutWindowKeeps, PlanKeeps, NextDocKeeps DEF SplitStep
  <2> QED
    BY <1>2, <1>4, <2>1, <2>2 DEF IInv
<1>5. CASE streaming /\ Stream!Step /\ UNCHANGED <<streaming, splitVars>>
  <2>1. StreamInv'
    BY <1>1, <1>5, StreamKeeps
  <2>2. input' = input
    BY <1>5 DEF Stream!Step, Stream!NextWhole, Stream!Call, Stream!FillBuf, Stream!Eof,
       Stream!ReadError
  <2> QED
    BY <1>3, <1>5, <2>1, <2>2 DEF IInv, StreamInv
<1>6. CASE UNCHANGED vars
  BY <1>2, <1>3, <1>6 DEF vars, IInv
<1> QED
  BY <1>4, <1>5, <1>6 DEF Next, Step, Finished

LEMMA Invariant == Spec => []IInv
BY InitIInv, NextIInv, PTL DEF Spec

(* The cutter, the iterators and the reader stay where the code may be: no cut and no
   iterator passes the end of the file, a reader at most by the newline it expects. *)
THEOREM TypeCorrect == Spec => []TypeOK
<1>1. IInv => TypeOK
  BY DEF IInv, Inv
<1> QED
  BY <1>1, Invariant, PTL

(* chunk_ranges, par_document_chunks and jsonl_chunk_boundaries: whatever the target
   size, the pieces tile the file in order, and only separators are left out between
   two of them. *)
THEOREM PiecesTile == Spec => []RegionsTile
<1>1. IInv => RegionsTile
  BY DEF IInv, Inv, Cutting, RegionsTile, Tiles, FromIn
<1> QED
  BY <1>1, Invariant, PTL

(* SeparatorReader: in blocks of any size, every document ends in front of a
   separator, the first one behind its start unless it starts behind one. *)
THEOREM StreamEndsRight == Spec => []EndsAtSeparator
<1>1. IInv => EndsAtSeparator
  BY DEF IInv, Streaming
<1> QED
  BY <1>1, Invariant, PTL

-----------------------------------------------------------------------------
(* One call of an iterator that stands at p, in a piece that ends at to: the documents
   it yields, whether it has then come to its end, and where it goes on. *)
EndFrom(i, p, to) ==
    IF Hits(i.bytes, i.sep, p, to) = {} THEN to
    ELSE Find(i.bytes, i.sep, p, to)
Rest(i, p, to) == {q \in p..(to - 1) : i.bytes[q + 1] # Newline}
LineStart(i, p, to) == CHOOSE q \in Rest(i, p, to) : \A m \in Rest(i, p, to) : q <= m
LineEnd(i, p, to) == EndFrom(i, LineStart(i, p, to), to)
NoLine(i, p, to) ==
    Rest(i, p, to) = {} \/ \E q \in LineStart(i, p, to)..(LineEnd(i, p, to) - 1) : i.bytes[q + 1] = Malformed

Emitted(i, p, to) ==
    IF i.sep = <<>> THEN <<Slice(i.bytes, p, to)>>
    ELSE IF i.format = "text"
    THEN IF p < EndFrom(i, p, to) THEN <<Slice(i.bytes, p, EndFrom(i, p, to))>> ELSE <<>>
    ELSE IF NoLine(i, p, to) THEN <<>> ELSE <<Slice(i.bytes, LineStart(i, p, to), LineEnd(i, p, to))>>
LastCall(i, p, to) ==
    IF i.sep = <<>> THEN TRUE
    ELSE IF i.format = "text" THEN Hits(i.bytes, i.sep, p, to) = {} ELSE NoLine(i, p, to)
Beyond(i, p, to) ==
    (IF i.format = "text" THEN EndFrom(i, p, to) ELSE LineEnd(i, p, to)) + Len(i.sep)

(* The documents from p on. *)
IsWalk(i, w, to, from) ==
    w = [p \in from..(Len(i.bytes) + 1) |->
            Emitted(i, p, to) \o IF LastCall(i, p, to) THEN <<>> ELSE w[Beyond(i, p, to)]]
Walk(i, to) ==
    LET w[p \in 0..(Len(i.bytes) + 1)] ==
            Emitted(i, p, to) \o IF LastCall(i, p, to) THEN <<>> ELSE w[Beyond(i, p, to)]
    IN  w

(* No separator begins before p and ends behind it. *)
Between(i, p) ==
    \A h \in Hits(i.bytes, i.sep, 0, Len(i.bytes)) : h >= p \/ h + Len(i.sep) <= p

(* A piece may end at e, before the next one at n: both at the end of the file, a text
   region in front of a separator, or behind one. *)
CutAt(i, e, n) ==
    \/ e = Len(i.bytes) /\ n = Len(i.bytes)
    \/ i.format = "text" /\ n = e + Len(i.sep) /\ e \in Hits(i.bytes, i.sep, 0, Len(i.bytes))
    \/ n = e /\ e - Len(i.sep) \in Hits(i.bytes, i.sep, 0, Len(i.bytes))
CutsAt(i, regs, upto) ==
    \A r \in 1..Len(regs) : CutAt(i, regs[r][2], FromIn(regs, upto, r + 1))
CutRight == IF planned THEN CutsAt(input, regions, Size) ELSE CutsAt(input, regions, start)

(* What each iterator has yielded, and what it has still to yield, are the documents of
   its piece. *)
Walked ==
    \A r \in 0..(Len(docs) - 1) :
        LET from == RegionOf(r)[1]
            walk == Walk(input, RegionOf(r)[2])
        IN  IF r \in finished THEN docs[r + 1] = walk[from]
            ELSE docs[r + 1] \o walk[At(pos, r)] = walk[from] /\ (Whole => At(pos, r) = from)

(* A file is cut or streamed; a whole one is one piece. *)
OneFile ==
    /\ ~streaming => input \in Inputs
    /\ planned => ~streaming /\ regions # <<>>
    /\ planned /\ Whole => regions = <<<<0, Size>>>>
-----------------------------------------------------------------------------
(* Where a walk goes. *)
LEMMA EndFacts ==
    ASSUME IsInput(input), NEW p \in Nat, NEW to \in 0..Size
    PROVE  /\ EndFrom(input, p, to) \in 0..Size /\ EndFrom(input, p, to) <= to
           /\ Hits(input.bytes, input.sep, p, to) # {} =>
                 /\ EndFrom(input, p, to) >= p /\ EndFrom(input, p, to) + Len(input.sep) <= to
                 /\ EndFrom(input, p, to) \in Hits(input.bytes, input.sep, p, to)
                 /\ \A h \in Hits(input.bytes, input.sep, p, to) : EndFrom(input, p, to) <= h
<1> DEFINE hits == Hits(input.bytes, input.sep, p, to)
           len == Len(input.sep)
<1>1. Size \in Nat /\ len \in Nat /\ to \in Nat /\ to <= Size
  BY InputFacts
<1>2. CASE hits = {}
  BY <1>1, <1>2 DEF EndFrom
<1>3. CASE hits # {}
  <2>1. /\ EndFrom(input, p, to) \in p..(to - len) /\ EndFrom(input, p, to) \in hits
        /\ \A h \in hits : EndFrom(input, p, to) <= h
    BY <1>1, <1>3, FindFacts DEF EndFrom
  <2> HIDE DEF hits
  <2> QED
    BY <1>1, <2>1 DEF hits
<1> QED
  BY <1>2, <1>3

LEMMA RestFacts ==
    ASSUME NEW p \in Nat, NEW to \in Nat, Rest(input, p, to) # {}
    PROVE  /\ LineStart(input, p, to) \in Rest(input, p, to) /\ LineStart(input, p, to) \in p..(to - 1)
           /\ \A m \in Rest(input, p, to) : LineStart(input, p, to) <= m
<1> DEFINE rest == Rest(input, p, to)
<1>1. rest \in SUBSET Nat /\ rest \subseteq p..(to - 1)
  BY DEF Rest
<1> HIDE DEF rest
<1>2. \E q \in rest : \A m \in rest : q <= m
  BY <1>1, LeastElement DEF rest
<1>3. LineStart(input, p, to) \in rest /\ \A m \in rest : LineStart(input, p, to) <= m
  BY <1>2 DEF LineStart, rest
<1> QED
  BY <1>1, <1>3 DEF rest

LEMMA CallFacts ==
    ASSUME IsInput(input), NEW p \in 0..(Size + 1), NEW to \in 0..Size, Whole => p <= Size
    PROVE  /\ Emitted(input, p, to) \in Seq(Seq(Bytes))
           /\ ~LastCall(input, p, to) => Beyond(input, p, to) \in Nat /\ Beyond(input, p, to) > p /\ Beyond(input, p, to) <= to + 1
<1>1. /\ Size \in Nat /\ Len(input.sep) \in Nat /\ to \in Nat /\ to <= Size /\ p \in Nat
      /\ ~Whole => Len(input.sep) > 0
      /\ input.format = "jsonl" => input.sep = <<Newline>> /\ Len(input.sep) = 1
      /\ input.format \in {"text", "jsonl"}
  BY InputFacts DEF IsInput, Formats
<1>2. \A d \in Seq(Bytes) : <<d>> \in Seq(Seq(Bytes))
  OBVIOUS
<1>3. <<>> \in Seq(Seq(Bytes))
  OBVIOUS
<1>4. CASE Whole
  <2>1. p \in 0..Size
    BY <1>1, <1>4
  <2>2. Slice(input.bytes, p, to) \in Seq(Bytes)
    BY <2>1, SliceType
  <2> QED
    BY <1>2, <1>4, <2>2 DEF Emitted, LastCall, Whole
<1>5. CASE ~Whole /\ input.format = "text"
  <2>1. EndFrom(input, p, to) \in 0..Size
    BY <1>1, EndFacts
  <2>2. ASSUME p < EndFrom(input, p, to) PROVE Slice(input.bytes, p, EndFrom(input, p, to)) \in Seq(Bytes)
    <3>1. p \in 0..Size
      BY <1>1, <2>1, <2>2
    <3> QED
      BY <2>1, <3>1, SliceType
  <2>3. Emitted(input, p, to) \in Seq(Seq(Bytes))
    BY <1>2, <1>3, <1>5, <2>2 DEF Emitted, Whole
  <2>4. ASSUME ~LastCall(input, p, to)
        PROVE  Beyond(input, p, to) \in Nat /\ Beyond(input, p, to) > p /\ Beyond(input, p, to) <= to + 1
    <3>1. Hits(input.bytes, input.sep, p, to) # {} /\ Beyond(input, p, to) = EndFrom(input, p, to) + Len(input.sep)
      BY <1>5, <2>4 DEF LastCall, Beyond, Whole
    <3>2. EndFrom(input, p, to) >= p /\ EndFrom(input, p, to) + Len(input.sep) <= to
      BY <1>1, <3>1, EndFacts
    <3> QED
      BY <1>1, <1>5, <2>1, <3>1, <3>2
  <2> QED
    BY <2>3, <2>4
<1>6. CASE ~Whole /\ input.format = "jsonl"
  <2>1. ASSUME ~NoLine(input, p, to)
        PROVE  /\ LineStart(input, p, to) \in 0..Size /\ LineEnd(input, p, to) \in 0..Size
               /\ LineStart(input, p, to) >= p /\ LineStart(input, p, to) < to
               /\ LineEnd(input, p, to) >= LineStart(input, p, to) /\ LineEnd(input, p, to) <= to
    <3>1. LineStart(input, p, to) \in p..(to - 1)
      BY <1>1, <2>1, RestFacts DEF NoLine
    <3>2. LineStart(input, p, to) \in Nat
      BY <1>1, <3>1
    <3>3. LineEnd(input, p, to) \in 0..Size /\ LineEnd(input, p, to) <= to
      BY <3>2, EndFacts DEF LineEnd
    <3>4. LineEnd(input, p, to) >= LineStart(input, p, to)
      <4>1. CASE Hits(input.bytes, input.sep, LineStart(input, p, to), to) = {}
        BY <1>1, <3>1, <4>1 DEF LineEnd, EndFrom
      <4>2. CASE Hits(input.bytes, input.sep, LineStart(input, p, to), to) # {}
        BY <3>2, <4>2, EndFacts DEF LineEnd
      <4> QED
        BY <4>1, <4>2
    <3> QED
      BY <1>1, <3>1, <3>3, <3>4
  <2>2. ASSUME ~NoLine(input, p, to)
        PROVE  <<Slice(input.bytes, LineStart(input, p, to), LineEnd(input, p, to))>> \in Seq(Seq(Bytes))
    BY <1>2, <2>1, <2>2, SliceType
  <2>3. Emitted(input, p, to) = (IF NoLine(input, p, to) THEN <<>> ELSE <<Slice(input.bytes, LineStart(input, p, to), LineEnd(input, p, to))>>)
        /\ LastCall(input, p, to) = NoLine(input, p, to) /\ Beyond(input, p, to) = LineEnd(input, p, to) + 1
    BY <1>1, <1>6 DEF Emitted, LastCall, Beyond, Whole
  <2> QED
    BY <1>1, <1>3, <2>1, <2>2, <2>3
<1> QED
  BY <1>1, <1>4, <1>5, <1>6

(* The walk is well defined: every call goes on further. *)
LEMMA WalkExists ==
    ASSUME IsInput(input), NEW to \in 0..Size
    PROVE  \E w : IsWalk(input, w, to, 0)
<1> DEFINE top == Size + 1
           bad == {k \in Nat : k <= top /\ ~ \E w : IsWalk(input, w, to, top - k)}
<1>0. Size \in Nat /\ top \in Nat
  BY InputFacts
<1>1. bad = {}
  <2> SUFFICES ASSUME bad # {} PROVE FALSE
    OBVIOUS
  <2>1. PICK k \in bad : \A m \in bad : k <= m
    BY LeastElement
  <2>2. k \in Nat /\ k <= top /\ ~ \E w : IsWalk(input, w, to, top - k)
    OBVIOUS
  <2> DEFINE from == top - k
  <2>3. from \in Nat /\ from <= top
    BY <1>0, <2>2
  <2>4. PICK h : k > 0 => IsWalk(input, h, to, from + 1)
    <3>1. CASE k = 0
      BY <3>1
    <3>2. CASE k # 0
      <4>1. k - 1 \in Nat /\ k - 1 <= top /\ k - 1 \notin bad
        <5> HIDE DEF bad, top
        <5> QED
          BY <1>0, <2>1, <2>2, <3>2
      <4>2. from + 1 = top - (k - 1)
        BY <1>0, <2>2
      <4> QED
        BY <4>1, <4>2
    <3> QED
      BY <3>1, <3>2
  <2> DEFINE Body(f, p) == Emitted(input, p, to) \o IF LastCall(input, p, to) THEN <<>> ELSE f[Beyond(input, p, to)]
             w == [p \in from..top |-> Body(h, p)]
  <2> HIDE DEF from
  <2>5. ASSUME NEW p \in from..top PROVE Body(w, p) = Body(h, p)
    <3>1. CASE LastCall(input, p, to)
      BY <3>1
    <3>2. CASE ~LastCall(input, p, to)
      <4> DEFINE q == Beyond(input, p, to)
      <4>1. p \in 0..(Size + 1) /\ ~Whole
        BY <1>0, <2>3, <3>2 DEF LastCall, Whole
      <4>2. q \in Nat /\ q > p /\ q <= to + 1
        BY <3>2, <4>1, CallFacts
      <4> HIDE DEF q
      <4>3. q \in (from + 1)..top /\ q \in from..top /\ k > 0
        BY <1>0, <2>2, <2>3, <4>2 DEF from
      <4>4. h[q] = Body(h, q)
        BY <2>4, <4>3 DEF IsWalk, Size
      <4>5. w[q] = Body(h, q)
        BY <4>3
      <4> QED
        BY <4>4, <4>5 DEF q
    <3> QED
      BY <3>1, <3>2
  <2>6. [p \in from..top |-> Body(w, p)] = [p \in from..top |-> Body(h, p)]
    <3> HIDE DEF Body, w
    <3> QED
      BY <2>5
  <2>7. IsWalk(input, w, to, from)
    <3>1. w = [p \in from..top |-> Body(w, p)]
      BY <2>6
    <3> HIDE DEF w
    <3> QED
      BY <3>1 DEF IsWalk, Size
  <2> QED
    BY <2>2, <2>7 DEF from
<1>2. top \in Nat /\ top <= top /\ top \notin bad
  BY <1>0, <1>1
<1>3. \E w : IsWalk(input, w, to, top - top)
  BY <1>2
<1>4. top - top = 0
  BY <1>0
<1> QED
  BY <1>3, <1>4

LEMMA WalkStep ==
    ASSUME IsInput(input), NEW to \in 0..Size, NEW p \in 0..(Size + 1)
    PROVE  Walk(input, to)[p] = Emitted(input, p, to) \o (IF LastCall(input, p, to) THEN <<>> ELSE Walk(input, to)[Beyond(input, p, to)])
<1>1. \E w : IsWalk(input, w, to, 0)
  BY WalkExists
<1>2. Walk(input, to) = CHOOSE w : IsWalk(input, w, to, 0)
  BY DEF Walk, IsWalk, Size
<1>3. IsWalk(input, Walk(input, to), to, 0)
  BY <1>1, <1>2
<1> HIDE DEF Walk, Size
<1> QED
  BY <1>3 DEF IsWalk, Size

(* A walk yields documents. *)
LEMMA WalkType ==
    ASSUME IsInput(input), NEW to \in 0..Size, NEW p \in 0..(Size + 1), Whole => p <= Size
    PROVE  Walk(input, to)[p] \in Seq(Seq(Bytes))
<1> DEFINE Right(q) == Walk(input, to)[q] \in Seq(Seq(Bytes))
           bad == {k \in Nat : \E q \in 0..(Size + 1) : k = Size + 1 - q /\ ~(Whole /\ q > Size) /\ ~Right(q)}
<1>0. Size \in Nat
  BY InputFacts
<1>1. bad = {}
  <2> SUFFICES ASSUME bad # {} PROVE FALSE
    OBVIOUS
  <2>1. PICK k \in bad : \A m \in bad : k <= m
    BY LeastElement
  <2>2. PICK q \in 0..(Size + 1) : k = Size + 1 - q /\ ~(Whole /\ q > Size) /\ ~Right(q)
    OBVIOUS
  <2>3. Whole => q <= Size
    BY <1>0, <2>2
  <2>4. /\ Emitted(input, q, to) \in Seq(Seq(Bytes))
        /\ ~LastCall(input, q, to) => Beyond(input, q, to) \in Nat /\ Beyond(input, q, to) > q /\ Beyond(input, q, to) <= to + 1
    BY <2>3, CallFacts
  <2>5. Walk(input, to)[q] = Emitted(input, q, to) \o (IF LastCall(input, q, to) THEN <<>> ELSE Walk(input, to)[Beyond(input, q, to)])
    BY WalkStep
  <2>6. CASE LastCall(input, q, to)
    BY <2>2, <2>4, <2>5, <2>6, ConcatProperties
  <2>7. CASE ~LastCall(input, q, to)
    <3> DEFINE n == Beyond(input, q, to)
    <3>1. n \in Nat /\ n > q /\ n <= to + 1 /\ ~Whole
      BY <2>4, <2>7 DEF LastCall, Whole
    <3> HIDE DEF n
    <3>2. n \in 0..(Size + 1) /\ Size + 1 - n \in Nat /\ Size + 1 - n < k
      BY <1>0, <2>2, <3>1
    <3>3. Size + 1 - n \notin bad
      <4> HIDE DEF bad
      <4> QED
        BY <1>0, <2>1, <2>2, <3>2
    <3>4. Right(n)
      BY <3>1, <3>2, <3>3
    <3> QED
      BY <2>2, <2>4, <2>5, <2>7, <3>4, ConcatProperties DEF n
  <2> QED
    BY <2>6, <2>7
<1>2. Size + 1 - p \in Nat /\ ~(Whole /\ p > Size)
  BY <1>0
<1>3. Size + 1 - p \notin bad
  BY <1>1
<1> QED
  BY <1>2, <1>3
-----------------------------------------------------------------------------
(* No separator overlaps another one, shifted by d bytes. *)
SepAlone(sep) ==
    \A d \in 1..(Len(sep) - 1) : \E j \in 1..(Len(sep) - d) : sep[d + j] # sep[j]

LEMMA HitBytes ==
    ASSUME IsInput(input), NEW h \in Hits(input.bytes, input.sep, 0, Size)
    PROVE  h \in 0..(Size - Len(input.sep)) /\ \A i \in 1..Len(input.sep) : input.bytes[h + i] = input.sep[i]
<1> DEFINE len == Len(input.sep)
<1>1. Size \in Nat /\ len \in Nat /\ input.bytes \in Seq(Bytes) /\ Len(input.bytes) = Size
  BY InputFacts DEF Size
<1>2. h \in 0..(Size - len) /\ SubSeq(input.bytes, h + 1, h + len) = input.sep
  BY DEF Hits, Slice
<1> HIDE DEF len
<1>3. h \in Nat /\ h + len <= Size
  BY <1>1, <1>2
<1>4. \A i \in (h + 1)..(h + len) : input.bytes[i] \in Bytes
  BY <1>1, <1>3
<1>5. \A i \in 1..((h + len) - (h + 1) + 1) :
         SubSeq(input.bytes, h + 1, h + len)[i] = input.bytes[h + 1 + i - 1]
  BY <1>1, <1>3, <1>4, SubSeqProperties
<1>6. ASSUME NEW i \in 1..len PROVE input.bytes[h + i] = input.sep[i]
  <2>1. i \in 1..((h + len) - (h + 1) + 1) /\ h + 1 + i - 1 = h + i
    BY <1>1, <1>3
  <2> QED
    BY <1>2, <1>5, <2>1
<1> QED
  BY <1>2, <1>6 DEF len

LEMMA Apart ==
    ASSUME IsInput(input), SepAlone(input.sep),
           NEW h \in Hits(input.bytes, input.sep, 0, Size),
           NEW g \in Hits(input.bytes, input.sep, 0, Size), h < g
    PROVE  h + Len(input.sep) <= g
<1> DEFINE len == Len(input.sep)
           d == g - h
<1>1. Size \in Nat /\ len \in Nat /\ h \in 0..(Size - len) /\ g \in 0..(Size - len)
  BY InputFacts, HitBytes
<1> SUFFICES ASSUME ~(h + len <= g) PROVE FALSE
  OBVIOUS
<1>2. d \in 1..(len - 1) /\ g = h + d
  BY <1>1
<1>3. PICK j \in 1..(len - d) : input.sep[d + j] # input.sep[j]
  BY <1>2 DEF SepAlone
<1>4. input.bytes[g + j] = input.sep[j] /\ input.bytes[h + (d + j)] = input.sep[d + j]
  <2>1. j \in 1..len /\ d + j \in 1..len
    BY <1>1, <1>2, <1>3
  <2> QED
    BY <2>1, HitBytes
<1>5. h + (d + j) = g + j
  BY <1>1, <1>2, <1>3
<1> QED
  BY <1>3, <1>4, <1>5

(* The separators of a piece are those of the file that lie in it. *)
LEMMA HitsWithin ==
    ASSUME IsInput(input), NEW p \in Nat, NEW to \in 0..Size
    PROVE  Hits(input.bytes, input.sep, p, to) =
               {h \in Hits(input.bytes, input.sep, 0, Size) : p <= h /\ h + Len(input.sep) <= to}
<1>1. Size \in Nat /\ Len(input.sep) \in Nat
  BY InputFacts
<1>2. \A h \in Int : h \in p..(to - Len(input.sep)) <=>
          h \in 0..(Size - Len(input.sep)) /\ p <= h /\ h + Len(input.sep) <= to
  BY <1>1
<1> QED
  BY <1>1, <1>2 DEF Hits

LEMMA FirstHit ==
    ASSUME IsInput(input), NEW p \in Nat, NEW to \in 0..Size,
           Hits(input.bytes, input.sep, p, to) # {}
    PROVE  /\ EndFrom(input, p, to) \in Hits(input.bytes, input.sep, 0, Size)
           /\ p <= EndFrom(input, p, to) /\ EndFrom(input, p, to) + Len(input.sep) <= to
           /\ \A h \in Hits(input.bytes, input.sep, 0, Size) :
                 p <= h /\ h + Len(input.sep) <= to => EndFrom(input, p, to) <= h
<1> DEFINE x == EndFrom(input, p, to)
           all == Hits(input.bytes, input.sep, 0, Size)
<1>1. x \in Hits(input.bytes, input.sep, p, to) /\ \A h \in Hits(input.bytes, input.sep, p, to) : x <= h
  BY EndFacts
<1>2. Hits(input.bytes, input.sep, p, to) = {h \in all : p <= h /\ h + Len(input.sep) <= to}
  BY HitsWithin
<1> HIDE DEF x, all
<1>3. x \in {h \in all : p <= h /\ h + Len(input.sep) <= to}
      /\ \A h \in {h \in all : p <= h /\ h + Len(input.sep) <= to} : x <= h
  BY <1>1, <1>2
<1>4. x \in all /\ p <= x /\ x + Len(input.sep) <= to
  BY <1>3
<1>5. \A h \in all : p <= h /\ h + Len(input.sep) <= to => x <= h
  BY <1>3
<1> QED
  BY <1>4, <1>5 DEF x, all

LEMMA BetweenBehind ==
    ASSUME IsInput(input), SepAlone(input.sep), NEW h \in Hits(input.bytes, input.sep, 0, Size)
    PROVE  Between(input, h + Len(input.sep))
<1> DEFINE len == Len(input.sep)
<1>1. Size \in Nat /\ len \in Nat /\ h \in 0..(Size - len)
  BY InputFacts, HitBytes
<1> SUFFICES ASSUME NEW g \in Hits(input.bytes, input.sep, 0, Size)
             PROVE  g >= h + len \/ g + len <= h + len
  BY DEF Between, Size
<1>2. g \in 0..(Size - len)
  BY HitBytes
<1>3. CASE h < g
  BY <1>3, Apart
<1>4. CASE ~(h < g)
  BY <1>1, <1>2, <1>4
<1> QED
  BY <1>3, <1>4

(* Searching from p to the end of the piece at e or to the end of the file is the same
   while there is a separator in the piece. *)
LEMMA SameEnd ==
    ASSUME IsInput(input), NEW e \in 0..Size, NEW p \in Nat,
           Hits(input.bytes, input.sep, p, e) # {}
    PROVE  /\ Hits(input.bytes, input.sep, p, Size) # {}
           /\ EndFrom(input, p, Size) = EndFrom(input, p, e)
<1> DEFINE len == Len(input.sep)
           all == Hits(input.bytes, input.sep, 0, Size)
           x == EndFrom(input, p, e)
           y == EndFrom(input, p, Size)
<1>1. Size \in Nat /\ len \in Nat /\ e \in Nat /\ e <= Size /\ Size \in 0..Size
  BY InputFacts
<1>2. \A h \in all : h \in 0..(Size - len)
  BY HitBytes
<1>3. x \in all /\ p <= x /\ x + len <= e /\ \A h \in Hits(input.bytes, input.sep, p, e) : x <= h
  BY FirstHit, EndFacts
<1>4. x \in Hits(input.bytes, input.sep, p, Size)
  BY <1>1, <1>2, <1>3, HitsWithin
<1>5. y \in all /\ p <= y /\ \A h \in Hits(input.bytes, input.sep, p, Size) : y <= h
  BY <1>1, <1>4, EndFacts, FirstHit
<1>6. y <= x
  BY <1>4, <1>5
<1> HIDE DEF x, y, all
<1>7. x \in Nat /\ y \in Nat /\ x <= Size /\ y <= Size
  BY <1>1, <1>2, <1>3, <1>5
<1>8. y + len <= e
  BY <1>1, <1>3, <1>6, <1>7
<1>9. y \in Hits(input.bytes, input.sep, p, e)
  BY <1>5, <1>8, HitsWithin DEF all
<1>10. x <= y
  BY <1>3, <1>9
<1>11. x = y
  BY <1>6, <1>7, <1>10
<1> QED
  BY <1>4, <1>11 DEF x, y

(* A walk has nothing left at the end of the file. *)
LEMMA WalkEnds ==
    ASSUME IsInput(input), ~Whole, NEW to \in 0..Size
    PROVE  /\ Emitted(input, to, to) = <<>> /\ LastCall(input, to, to) /\ Walk(input, to)[to] = <<>>
<1>1. /\ Size \in Nat /\ Len(input.sep) \in Nat \ {0} /\ to \in Nat /\ to <= Size /\ to \in 0..(Size + 1)
      /\ input.format \in {"text", "jsonl"}
  BY InputFacts DEF IsInput, Formats
<1>2. Hits(input.bytes, input.sep, to, to) = {}
  BY <1>1 DEF Hits
<1>3. Rest(input, to, to) = {}
  BY <1>1 DEF Rest
<1>4. EndFrom(input, to, to) = to
  BY <1>2 DEF EndFrom
<1>5. Emitted(input, to, to) = <<>> /\ LastCall(input, to, to)
  BY <1>1, <1>2, <1>3, <1>4 DEF Emitted, LastCall, NoLine, Whole
<1>6. Walk(input, to)[to] = <<>> \o <<>>
  BY <1>1, <1>5, WalkStep
<1> QED
  BY <1>5, <1>6

(* What a call does in a piece that ends at e it does in the file, or it is the last one
   in the piece. *)
SameCall(p, e) ==
    /\ ~LastCall(input, p, e) /\ ~LastCall(input, p, Size) /\ Emitted(input, p, Size) = Emitted(input, p, e)
    /\ Beyond(input, p, Size) = Beyond(input, p, e) /\ Beyond(input, p, e) <= e /\ Between(input, Beyond(input, p, e))
LastOfPiece(p, e, n) == LastCall(input, p, e) /\ Walk(input, Size)[p] = Emitted(input, p, e) \o Walk(input, Size)[n]
LastOfAll(p, e) ==
    Unreadable /\ LastCall(input, p, e) /\ LastCall(input, p, Size) /\ Emitted(input, p, e) = <<>> /\ Emitted(input, p, Size) = <<>>

LEMMA TextCall ==
    ASSUME IsInput(input), SepAlone(input.sep), ~Whole, input.format = "text",
           NEW e \in 0..Size, NEW n \in e..Size, CutAt(input, e, n), ~(e = Size /\ n = Size),
           NEW p \in 0..e, Between(input, p)
    PROVE  SameCall(p, e) \/ LastOfPiece(p, e, n)
<1> DEFINE len == Len(input.sep)
           all == Hits(input.bytes, input.sep, 0, Size)
<1>1. /\ Size \in Nat /\ len \in Nat \ {0} /\ e \in Nat /\ e <= Size /\ Size \in 0..Size
      /\ p \in Nat /\ p <= e /\ p \in 0..(Size + 1) /\ n \in Nat /\ n <= Size
  BY InputFacts
<1>2. \A h \in all : h \in 0..(Size - len)
  BY HitBytes
<1>3. CASE Hits(input.bytes, input.sep, p, e) # {}
  <2>1. Hits(input.bytes, input.sep, p, Size) # {} /\ EndFrom(input, p, Size) = EndFrom(input, p, e)
    BY <1>1, <1>3, SameEnd
  <2>2. Beyond(input, p, e) = EndFrom(input, p, e) + len /\ Beyond(input, p, Size) = EndFrom(input, p, Size) + len
    BY DEF Beyond
  <2>3. EndFrom(input, p, e) + len <= e /\ EndFrom(input, p, e) \in all
    BY <1>1, <1>3, FirstHit
  <2>4. Between(input, EndFrom(input, p, e) + len)
    BY <2>3, BetweenBehind
  <2>5. Emitted(input, p, Size) = Emitted(input, p, e) /\ ~LastCall(input, p, e) /\ ~LastCall(input, p, Size)
    BY <1>3, <2>1 DEF Emitted, LastCall, Whole
  <2> QED
    BY <2>1, <2>2, <2>3, <2>4, <2>5 DEF SameCall
<1>4. CASE Hits(input.bytes, input.sep, p, e) = {}
  <2>0. \A h \in all : ~(p <= h /\ h + len <= e)
    BY <1>1, <1>4, HitsWithin
  <2>1. EndFrom(input, p, e) = e /\ LastCall(input, p, e)
        /\ Emitted(input, p, e) = (IF p < e THEN <<Slice(input.bytes, p, e)>> ELSE <<>>)
    BY <1>4 DEF EndFrom, LastCall, Emitted, Whole
  <2>2. CASE n = e + len /\ e \in all
    <3>1. e \in Hits(input.bytes, input.sep, p, Size)
      BY <1>1, <1>2, <2>2, HitsWithin
    <3> DEFINE y == EndFrom(input, p, Size)
    <3>2. y \in all /\ p <= y /\ y <= e
      BY <1>1, <3>1, EndFacts, FirstHit
    <3>3. y = e
      <4> HIDE DEF y
      <4>1. y \in Nat
        BY <1>1, <1>2, <3>2
      <4> SUFFICES ASSUME y < e PROVE FALSE
        BY <1>1, <3>2, <4>1
      <4>2. y + len <= e
        BY <2>2, <3>2, Apart
      <4> QED
        BY <2>0, <3>2, <4>2
    <3>4. Emitted(input, p, Size) = Emitted(input, p, e) /\ ~LastCall(input, p, Size) /\ Beyond(input, p, Size) = n
      BY <2>1, <2>2, <3>1, <3>3 DEF Emitted, LastCall, Beyond, Whole
    <3>5. Walk(input, Size)[p] = Emitted(input, p, e) \o Walk(input, Size)[n]
      BY <1>1, <3>4, WalkStep
    <3> QED
      BY <2>1, <3>5 DEF LastOfPiece
  <2>3. CASE n = e /\ e - len \in all
    <3>1. p = e
      <4>1. e - len >= p \/ (e - len) + len <= p
        BY <2>3 DEF Between, Size
      <4>2. ~(p <= e - len /\ (e - len) + len <= e)
        BY <2>0, <2>3
      <4> QED
        BY <1>1, <4>1, <4>2
    <3>2. Emitted(input, p, e) = <<>>
      BY <1>1, <2>1, <3>1
    <3>3. Walk(input, Size)[n] \in Seq(Seq(Bytes))
      BY <1>1, WalkType
    <3>4. <<>> \o Walk(input, Size)[n] = Walk(input, Size)[n]
      BY <3>3, ConcatEmptySeq
    <3> QED
      BY <2>1, <2>3, <3>1, <3>2, <3>4 DEF LastOfPiece
  <2> QED
    BY <2>2, <2>3 DEF CutAt, Size
<1> QED
  BY <1>3, <1>4

LEMMA LineCall ==
    ASSUME IsInput(input), input.format = "jsonl",
           NEW e \in 0..Size, NEW n \in e..Size, CutAt(input, e, n), ~(e = Size /\ n = Size),
           NEW p \in 0..e
    PROVE  SameCall(p, e) \/ LastOfPiece(p, e, n) \/ LastOfAll(p, e)
<1> DEFINE all == Hits(input.bytes, input.sep, 0, Size)
           s == LineStart(input, p, e)
           t == LineStart(input, p, Size)
<1>0. ~Whole
  <2> SUFFICES ASSUME Whole PROVE FALSE
    OBVIOUS
  <2>1. input.sep = <<>> /\ Len(input.sep) = 1
    BY InputFacts DEF Whole
  <2> QED
    BY <2>1
<1>1. /\ Size \in Nat /\ Len(input.sep) = 1 /\ input.sep = <<Newline>> /\ ~Whole /\ input.format # "text"
      /\ e \in Nat /\ e <= Size /\ Size \in 0..Size /\ Len(input.bytes) = Size
      /\ p \in Nat /\ p <= e /\ p \in 0..(Size + 1) /\ e \in 0..(Size + 1) /\ input.bytes \in Seq(Bytes)
  BY <1>0, InputFacts DEF Size
<1>2. n = e /\ e - 1 \in all /\ e > 0
  BY <1>1, HitBytes DEF CutAt, Size
<1>3. \A a \in Nat, to \in Nat : \A q \in Int :
          q \in Rest(input, a, to) <=> a <= q /\ q < to /\ input.bytes[q + 1] # Newline
  BY DEF Rest
<1>4. \A a, to : /\ LastCall(input, a, to) = NoLine(input, a, to) /\ Beyond(input, a, to) = LineEnd(input, a, to) + 1
                 /\ Emitted(input, a, to) = IF NoLine(input, a, to) THEN <<>>
                                     ELSE <<Slice(input.bytes, LineStart(input, a, to), LineEnd(input, a, to))>>
  BY <1>1 DEF LastCall, Beyond, Emitted, Whole
<1>5. CASE Rest(input, p, e) = {}
  <2>1. Rest(input, p, Size) = Rest(input, e, Size)
    <3>1. \A q \in Int : q \in Rest(input, p, Size) <=> q \in Rest(input, e, Size)
      BY <1>1, <1>3, <1>5
    <3>2. Rest(input, p, Size) \subseteq Int /\ Rest(input, e, Size) \subseteq Int
      BY DEF Rest
    <3> QED
      BY <3>1, <3>2
  <2>2. LineStart(input, p, Size) = LineStart(input, e, Size)
    BY <2>1 DEF LineStart
  <2>3. LineEnd(input, p, Size) = LineEnd(input, e, Size)
    BY <2>2 DEF LineEnd
  <2>4. NoLine(input, p, Size) = NoLine(input, e, Size)
    BY <2>1, <2>2, <2>3 DEF NoLine
  <2>5. Walk(input, Size)[p] = Walk(input, Size)[e]
    <3>1. /\ Emitted(input, p, Size) = Emitted(input, e, Size) /\ LastCall(input, p, Size) = LastCall(input, e, Size)
          /\ Beyond(input, p, Size) = Beyond(input, e, Size)
      BY <1>4, <2>2, <2>3, <2>4
    <3>2. Walk(input, Size)[p] = Emitted(input, p, Size) \o (IF LastCall(input, p, Size) THEN <<>> ELSE Walk(input, Size)[Beyond(input, p, Size)])
      BY <1>1, WalkStep
    <3>3. Walk(input, Size)[e] = Emitted(input, e, Size) \o (IF LastCall(input, e, Size) THEN <<>> ELSE Walk(input, Size)[Beyond(input, e, Size)])
      BY <1>1, WalkStep
    <3> QED
      BY <3>1, <3>2, <3>3
  <2>6. LastCall(input, p, e) /\ Emitted(input, p, e) = <<>>
    BY <1>4, <1>5 DEF NoLine
  <2>7. <<>> \o Walk(input, Size)[e] = Walk(input, Size)[e]
    BY <1>1, WalkType, ConcatEmptySeq
  <2> QED
    BY <1>2, <2>5, <2>6, <2>7 DEF LastOfPiece
<1>6. CASE Rest(input, p, e) # {}
  <2>1. s \in Rest(input, p, e) /\ s \in p..(e - 1) /\ \A m \in Rest(input, p, e) : s <= m
    BY <1>1, <1>6, RestFacts
  <2>2. s \in Nat /\ p <= s /\ s < e /\ s \in Rest(input, p, Size)
    <3> HIDE DEF s
    <3>1. s \in Nat /\ p <= s /\ s < e
      BY <1>1, <2>1
    <3> QED
      BY <1>1, <1>3, <2>1, <3>1
  <2>3. t \in Rest(input, p, Size) /\ t \in p..(Size - 1) /\ \A m \in Rest(input, p, Size) : t <= m
    BY <1>1, <2>2, RestFacts
  <2>4. t = s
    <3> HIDE DEF s, t
    <3>1. t \in Nat /\ p <= t /\ t <= s
      BY <1>1, <2>2, <2>3
    <3>2. t \in Rest(input, p, e)
      BY <1>1, <1>3, <2>2, <2>3, <3>1
    <3> QED
      BY <2>1, <2>2, <3>1, <3>2
  <2>5. Hits(input.bytes, input.sep, s, e) # {}
    <3> HIDE DEF s
    <3>1. s <= e - 1 /\ (e - 1) + Len(input.sep) <= e
      BY <1>1, <2>2
    <3> QED
      BY <1>2, <2>2, <3>1, HitsWithin
  <2>6. LineEnd(input, p, Size) = LineEnd(input, p, e) /\ LineEnd(input, p, e) \in all /\ LineEnd(input, p, e) + 1 <= e
    <3>1. EndFrom(input, s, Size) = EndFrom(input, s, e)
      BY <2>2, <2>5, SameEnd
    <3>2. EndFrom(input, s, e) \in all /\ EndFrom(input, s, e) + 1 <= e
      BY <1>1, <2>2, <2>5, FirstHit
    <3> QED
      BY <2>4, <3>1, <3>2 DEF LineEnd
  <2>7. Rest(input, p, Size) # {}
    BY <2>2
  <2>8. NoLine(input, p, e) = NoLine(input, p, Size)
    BY <1>6, <2>4, <2>6, <2>7 DEF NoLine
  <2>9. Emitted(input, p, Size) = Emitted(input, p, e)
    BY <1>4, <2>4, <2>6, <2>8
  <2>10. CASE NoLine(input, p, e)
    <3>1. PICK q \in s..(LineEnd(input, p, e) - 1) : input.bytes[q + 1] = Malformed
      BY <1>6, <2>10 DEF NoLine
    <3>2. q + 1 \in 1..Size
      <4>1. LineEnd(input, p, e) \in 0..Size
        BY <1>1, <2>6, HitBytes
      <4> HIDE DEF s
      <4> QED
        BY <1>1, <2>2, <3>1, <4>1
    <3>3. q + 1 \in DOMAIN input.bytes
      BY <1>1, <3>2
    <3>4. Unreadable
      BY <3>1, <3>3 DEF Unreadable
    <3> QED
      BY <1>4, <2>8, <2>10, <3>4 DEF LastOfAll
  <2>11. CASE ~NoLine(input, p, e)
    <3>1. SepAlone(input.sep)
      BY <1>1 DEF SepAlone
    <3>2. Between(input, LineEnd(input, p, e) + 1)
      BY <1>1, <2>6, <3>1, BetweenBehind
    <3> QED
      BY <1>4, <2>6, <2>8, <2>9, <2>11, <3>2 DEF SameCall
  <2> QED
    BY <2>10, <2>11
<1> QED
  BY <1>5, <1>6

(* Documents joined twice. *)
LEMMA JoinDocs ==
    \A s, t, u \in Seq(Seq(Bytes)) : (s \o t) \o u = s \o (t \o u)
<1> DEFINE Docs == Seq(Bytes)
<1> HIDE DEF Docs
<1>1. \A s, t, u \in Seq(Docs) : (s \o t) \o u = s \o (t \o u)
  BY ConcatAssociative
<1> QED
  BY <1>1 DEF Docs

(* Reading a piece and then what is behind it is reading on; unless there is a line that
   cannot be read, at which both end. *)
Glued(p, e, n) ==
    \/ Walk(input, Size)[p] = Walk(input, e)[p] \o Walk(input, Size)[n]
    \/ Unreadable /\ Walk(input, Size)[p] = Walk(input, e)[p]

LEMMA Glue ==
    ASSUME IsInput(input), SepAlone(input.sep), ~Whole,
           NEW e \in 0..Size, NEW n \in e..Size, CutAt(input, e, n),
           NEW a \in 0..e, Between(input, a)
    PROVE  Glued(a, e, n)
<1> DEFINE bad == {k \in Nat : \E p \in 0..e : k = e - p /\ Between(input, p) /\ ~Glued(p, e, n)}
<1>0. /\ Size \in Nat /\ e \in Nat /\ e <= Size /\ n \in 0..(Size + 1) /\ Size \in 0..Size
      /\ input.format \in {"text", "jsonl"}
  BY InputFacts DEF IsInput, Formats
<1>1. Walk(input, Size)[n] \in Seq(Seq(Bytes))
  BY <1>0, WalkType
<1>2. CASE e = Size /\ n = Size
  <2>1. Walk(input, Size)[n] = <<>>
    BY <1>0, <1>2, WalkEnds
  <2>2. a \in 0..(Size + 1)
    BY <1>0
  <2>3. Walk(input, Size)[a] \in Seq(Seq(Bytes))
    BY <1>0, <2>2, WalkType
  <2>4. Walk(input, Size)[a] \o <<>> = Walk(input, Size)[a]
    BY <2>3, ConcatEmptySeq
  <2> QED
    BY <1>2, <2>1, <2>4 DEF Glued
<1>3. CASE ~(e = Size /\ n = Size)
  <2>1. bad = {}
    <3> SUFFICES ASSUME bad # {} PROVE FALSE
      OBVIOUS
    <3>1. PICK k \in bad : \A m \in bad : k <= m
      BY LeastElement
    <3>2. PICK p \in 0..e : k = e - p /\ Between(input, p) /\ ~Glued(p, e, n)
      OBVIOUS
    <3>3. p \in Nat /\ p <= e /\ p \in 0..(Size + 1)
      BY <1>0
    <3>4. SameCall(p, e) \/ LastOfPiece(p, e, n) \/ LastOfAll(p, e)
      BY <1>0, <1>3, <3>2, TextCall, LineCall
    <3>5. /\ Walk(input, e)[p] = Emitted(input, p, e) \o (IF LastCall(input, p, e) THEN <<>> ELSE Walk(input, e)[Beyond(input, p, e)])
          /\ Walk(input, Size)[p] = Emitted(input, p, Size) \o (IF LastCall(input, p, Size) THEN <<>> ELSE Walk(input, Size)[Beyond(input, p, Size)])
      BY <1>0, <3>3, WalkStep
    <3>6. Emitted(input, p, e) \in Seq(Seq(Bytes))
          /\ (~LastCall(input, p, e) => Beyond(input, p, e) \in Nat /\ Beyond(input, p, e) > p)
      BY <3>3, CallFacts
    <3>7. CASE SameCall(p, e)
      <4> DEFINE q == Beyond(input, p, e)
      <4>1. q \in Nat /\ q > p /\ q <= e /\ Between(input, q) /\ ~LastCall(input, p, e) /\ ~LastCall(input, p, Size)
            /\ Emitted(input, p, Size) = Emitted(input, p, e) /\ Beyond(input, p, Size) = q
        BY <3>6, <3>7 DEF SameCall
      <4>2. Walk(input, e)[p] = Emitted(input, p, e) \o Walk(input, e)[q] /\ Walk(input, Size)[p] = Emitted(input, p, e) \o Walk(input, Size)[q]
        BY <3>5, <4>1
      <4> HIDE DEF q
      <4>3. q \in 0..e /\ q \in 0..(Size + 1) /\ e - q \in Nat /\ e - q < k
        BY <1>0, <3>2, <3>3, <4>1
      <4>4. e - q \notin bad
        <5> HIDE DEF bad
        <5> QED
          BY <1>0, <3>1, <3>2, <4>3
      <4>5. Glued(q, e, n)
        BY <4>1, <4>3, <4>4
      <4>6. Walk(input, e)[q] \in Seq(Seq(Bytes))
        BY <4>3, WalkType
      <4>7. (Emitted(input, p, e) \o Walk(input, e)[q]) \o Walk(input, Size)[n] = Emitted(input, p, e) \o (Walk(input, e)[q] \o Walk(input, Size)[n])
        BY <1>1, <3>6, <4>6, JoinDocs
      <4> QED
        BY <3>2, <4>2, <4>5, <4>7 DEF Glued
    <3>8. CASE LastOfPiece(p, e, n)
      <4>1. Walk(input, e)[p] = Emitted(input, p, e) \o <<>>
        BY <3>5, <3>8 DEF LastOfPiece
      <4>2. Walk(input, e)[p] = Emitted(input, p, e)
        BY <3>6, <4>1, ConcatEmptySeq
      <4> QED
        BY <3>2, <3>8, <4>2 DEF LastOfPiece, Glued
    <3>9. CASE LastOfAll(p, e)
      BY <3>2, <3>5, <3>9 DEF LastOfAll, Glued
    <3> QED
      BY <3>4, <3>7, <3>8, <3>9
  <2>2. e - a \in Nat
    BY <1>0
  <2>3. e - a \notin bad
    BY <2>1
  <2> QED
    BY <2>2, <2>3
<1> QED
  BY <1>2, <1>3
-----------------------------------------------------------------------------
(* Every piece ends where a document does. *)
LEMMA PushCuts ==
    ASSUME IsInput(input), regions \in Seq((0..Size) \X (0..Size)),
           NEW s \in 0..Size, CutsAt(input, regions, s),
           NEW e \in s..Size, NEW t \in e..Size, CutAt(input, e, t)
    PROVE  CutsAt(input, Append(regions, <<s, e>>), t)
<1> DEFINE regs == Append(regions, <<s, e>>)
           L == Len(regions)
<1>0. Size \in Nat
  BY InputFacts
<1>1. L \in Nat /\ Len(regs) = L + 1 /\ regs[L + 1] = <<s, e>>
      /\ \A r \in 1..L : regs[r] = regions[r]
  BY <1>0
<1> HIDE DEF regs
<1>2. ASSUME NEW r \in 1..(L + 1)
      PROVE  CutAt(input, regs[r][2], FromIn(regs, t, r + 1))
  <2>1. CASE r = L + 1
    <3>1. FromIn(regs, t, r + 1) = t /\ regs[r][2] = e
      BY <1>1, <2>1 DEF FromIn
    <3> QED
      BY <3>1
  <2>2. CASE r = L
    <3>1. regs[r] = regions[r] /\ r \in 1..L /\ r + 1 = L + 1 /\ ~(r + 1 > L + 1) /\ r + 1 > L
      BY <1>1, <1>2, <2>2
    <3>2. FromIn(regs, t, r + 1) = s /\ FromIn(regions, s, r + 1) = s
      BY <1>1, <3>1 DEF FromIn
    <3> QED
      BY <3>1, <3>2 DEF CutsAt
  <2>3. CASE r < L
    <3>0. r \in 1..L /\ r + 1 \in 1..L /\ ~(r + 1 > L + 1) /\ ~(r + 1 > L)
      <4> HIDE DEF L
      <4> QED
        BY <1>1, <1>2, <2>3
    <3>1. regs[r] = regions[r] /\ r \in 1..L /\ r + 1 \in 1..L /\ ~(r + 1 > L + 1) /\ ~(r + 1 > L)
      BY <1>1, <3>0
    <3>2. FromIn(regs, t, r + 1) = FromIn(regions, s, r + 1)
      BY <1>1, <3>1 DEF FromIn
    <3> QED
      BY <3>1, <3>2 DEF CutsAt
  <2> QED
    BY <1>1, <1>2, <2>1, <2>2, <2>3
<1>3. CutsAt(input, regs, t)
  BY <1>1, <1>2 DEF CutsAt
<1> QED
  BY <1>3 DEF regs

LEMMA RegionCutsRight ==
    ASSUME Inv, CutRight, CutRegion PROVE CutRight'
<1> DEFINE probe == start + input.size
           len == Len(input.sep)
<1>1. /\ IsInput(input) /\ Size \in Nat /\ len \in Nat \ {0} /\ input.size \in Nat \ {0}
      /\ start \in 0..Size /\ ~planned /\ regions \in Seq((0..Size) \X (0..Size))
      /\ CutsAt(input, regions, start) /\ input.format \in {"text", "jsonl"}
  BY InputFacts DEF Inv, TypeOK, CutRegion, CutRight, IsInput, Formats
<1>2. \E e \in start..Size, t \in Size..Size \cup start..Size :
         /\ e <= t /\ regions' = Append(regions, <<start, e>>) /\ start' = t
         /\ CutAt(input, e, t)
  <2>1. CASE probe < Size /\ Boundaries(probe) # {}
    <3> DEFINE hit == Find(input.bytes, input.sep, probe, Size)
               e == IF input.format = "jsonl" THEN hit + len ELSE hit
    <3>0. probe \in Nat /\ start <= probe
      BY <1>1
    <3>1. hit \in probe..(Size - len) /\ hit \in Hits(input.bytes, input.sep, probe, Size)
      <4> HIDE DEF probe
      <4> QED
        BY <1>1, <2>1, <3>0, FindFacts DEF Boundaries
    <3>2. hit \in Hits(input.bytes, input.sep, 0, Size)
      <4> HIDE DEF probe, hit
      <4>1. Size \in 0..Size
        BY <1>1
      <4> QED
        BY <1>1, <3>0, <3>1, <4>1, HitsWithin
    <3>3. regions' = Append(regions, <<start, e>>) /\ start' = hit + len
      BY <2>1 DEF CutRegion, Push
    <3> HIDE DEF probe, hit
    <3>4. hit \in Nat /\ hit >= start /\ hit + len <= Size /\ (hit + len) - len = hit
      BY <1>1, <3>0, <3>1
    <3>5. e \in start..Size /\ hit + len \in start..Size /\ e <= hit + len
      BY <1>1, <3>4
    <3>6. CutAt(input, e, hit + len)
      BY <1>1, <3>2, <3>4 DEF CutAt, Size
    <3> QED
      BY <3>3, <3>5, <3>6
  <2>2. CASE ~(probe < Size /\ Boundaries(probe) # {})
    <3>1. regions' = Append(regions, <<start, Size>>) /\ start' = Size
      BY <2>2 DEF CutRegion, Push
    <3>2. CutAt(input, Size, Size)
      BY DEF CutAt, Size
    <3> QED
      BY <1>1, <3>1, <3>2
  <2> QED
    BY <2>1, <2>2
<1>3. PICK e \in start..Size, t \in Size..Size \cup start..Size :
         /\ e <= t /\ regions' = Append(regions, <<start, e>>) /\ start' = t
         /\ CutAt(input, e, t)
  BY <1>2
<1>4. t \in e..Size
  BY <1>1, <1>3
<1>5. CutsAt(input, regions', start')
  BY <1>1, <1>3, <1>4, PushCuts
<1>6. input' = input /\ planned' = planned
  BY DEF CutRegion
<1> QED
  BY <1>1, <1>5, <1>6 DEF CutRight

LEMMA WindowCutsRight ==
    ASSUME Inv, CutRight, CutWindow, start' \in start..Size PROVE CutRight'
<1> DEFINE target == probes * (Size \div input.size)
           last == probes >= input.size \/ Boundaries(target) = {}
           end == IF last THEN Size ELSE Find(input.bytes, input.sep, target, Size) + Len(input.sep)
<1>1. /\ IsInput(input) /\ Size \in Nat /\ Len(input.sep) \in Nat \ {0} /\ input.size \in Nat \ {0}
      /\ start \in 0..Size /\ ~planned /\ regions \in Seq((0..Size) \X (0..Size))
      /\ CutsAt(input, regions, start) /\ probes \in Nat /\ Size \div input.size \in Nat
  BY InputFacts DEF Inv, TypeOK, CutWindow, CutRight
<1>2. /\ start' = end /\ ((end = start /\ regions' = regions) \/ regions' = Append(regions, <<start, end>>))
      /\ input' = input /\ planned' = planned
  BY DEF CutWindow, Push
<1>3. CutAt(input, end, end)
  <2>1. CASE last
    BY <2>1 DEF CutAt, Size
  <2>2. CASE ~last
    <3> DEFINE hit == Find(input.bytes, input.sep, target, Size)
    <3>0. target \in Nat
      BY <1>1
    <3>1. hit \in target..(Size - Len(input.sep)) /\ hit \in Hits(input.bytes, input.sep, target, Size)
      <4>1. Boundaries(target) # {}
        BY <2>2
      <4> HIDE DEF target
      <4> QED
        BY <1>1, <3>0, <4>1, FindFacts DEF Boundaries
    <3>2. hit \in Hits(input.bytes, input.sep, 0, Size)
      <4> HIDE DEF target, hit
      <4>1. Size \in 0..Size
        BY <1>1
      <4> QED
        BY <1>1, <3>0, <3>1, <4>1, HitsWithin
    <3>3. end = hit + Len(input.sep)
      BY <2>2
    <3> HIDE DEF target, hit, end, last
    <3>4. end - Len(input.sep) = hit
      BY <1>1, <3>0, <3>1, <3>3
    <3> QED
      BY <3>2, <3>4 DEF CutAt, Size
  <2> QED
    BY <2>1, <2>2
<1> HIDE DEF end
<1>4. end \in start..Size /\ end \in end..Size
  BY <1>1, <1>2
<1>5. CutsAt(input, regions', start')
  <2>1. CASE end = start /\ regions' = regions
    BY <1>1, <1>2, <2>1
  <2>2. CASE regions' = Append(regions, <<start, end>>)
    BY <1>1, <1>2, <1>3, <1>4, <2>2, PushCuts
  <2> QED
    BY <1>2, <2>1, <2>2
<1> QED
  BY <1>1, <1>2, <1>5 DEF CutRight

LEMMA PlanCutsRight ==
    ASSUME Inv, CutRight, Plan PROVE CutRight'
<1>1. /\ IsInput(input) /\ Size \in Nat /\ ~planned /\ planned' /\ input' = input
      /\ start \in 0..Size /\ CutsAt(input, regions, start)
  BY InputFacts DEF Inv, TypeOK, Plan, CutRight
<1>2. CutsAt(input, regions', Size)
  <2>1. CASE Whole \/ regions = <<>>
    <3> DEFINE one == <<<<0, Size>>>>
    <3>1. regions' = one /\ Len(one) = 1 /\ one[1] = <<0, Size>>
      BY <2>1 DEF Plan
    <3> HIDE DEF one
    <3>2. FromIn(one, Size, 1 + 1) = Size
      BY <3>1 DEF FromIn
    <3>3. CutAt(input, Size, Size)
      BY DEF CutAt, Size
    <3>4. \A r \in 1..Len(one) : r = 1
      BY <3>1
    <3> QED
      BY <3>1, <3>2, <3>3, <3>4 DEF CutsAt
  <2>2. CASE ~(Whole \/ regions = <<>>)
    <3>1. regions' = regions /\ start = Size
      BY <1>1, <2>2 DEF Plan
    <3> QED
      BY <1>1, <3>1
  <2> QED
    BY <2>1, <2>2
<1>3. Size' = Size
  BY <1>1 DEF Size
<1> QED
  BY <1>1, <1>2, <1>3 DEF CutRight
-----------------------------------------------------------------------------
(* Each iterator walks its piece. *)
LEMMA CallIs ==
    ASSUME Inv, NEW r \in 0..Len(regions), NextDoc(r),
           Whole => At(pos, r) = RegionOf(r)[1]
    PROVE  /\ docs'[r + 1] = docs[r + 1] \o Emitted(input, At(pos, r), RegionOf(r)[2])
           /\ \A k \in 1..Len(docs) : k # r + 1 => docs'[k] = docs[k]
           /\ Len(docs') = Len(docs)
           /\ \A k \in 1..Len(pos) : k # r + 1 => pos'[k] = pos[k]
           /\ IF LastCall(input, At(pos, r), RegionOf(r)[2])
              THEN finished' = finished \cup {r}
              ELSE /\ finished' = finished
                   /\ pos'[r + 1] = Beyond(input, At(pos, r), RegionOf(r)[2])
<1> DEFINE p == At(pos, r)
           to == RegionOf(r)[2]
<1>1. Reading(r)
  BY DEF NextDoc, WholeDoc, TextDoc, JsonDoc
<1>2. /\ r + 1 \in 1..Len(pos) /\ r + 1 \in 1..Len(docs) /\ p \in 0..(Size + 1)
      /\ to \in 0..Size /\ RegionOf(r)[1] \in 0..Size
  BY <1>1, ReaderFacts
<1>3. /\ IsInput(input) /\ Size \in Nat /\ docs \in Seq(Seq(Seq(Bytes))) /\ pos \in Seq(0..(Size + 1))
  BY InputFacts DEF Inv, TypeOK
<1>13. docs[r + 1] \in Seq(Seq(Bytes))
  BY <1>2, <1>3, ElementOfSeq
<1>4. DOMAIN docs = 1..Len(docs) /\ DOMAIN pos = 1..Len(pos)
  BY <1>3
<1>5. Whole => p <= Size
  BY <1>2, <1>3
<1>6. Emitted(input, p, to) \in Seq(Seq(Bytes))
  BY <1>2, <1>3, <1>5, CallFacts
<1>7. ASSUME NEW a, NEW b, Yield(r, a, b), <<Slice(input.bytes, a, b)>> = Emitted(input, p, to)
      PROVE  /\ docs'[r + 1] = docs[r + 1] \o Emitted(input, p, to)
             /\ \A k \in 1..Len(docs) : k # r + 1 => docs'[k] = docs[k]
             /\ Len(docs') = Len(docs)
  <2> DEFINE d == Slice(input.bytes, a, b)
  <2>1. d \in Seq(Bytes)
    <3>1. <<d>> \in Seq(Seq(Bytes)) /\ Len(<<d>>) = 1
      BY <1>6, <1>7
    <3> HIDE DEF d
    <3> QED
      BY <3>1, ElementOfSeq
  <2>2. docs'[r + 1] = Append(docs[r + 1], d)
    BY <1>2, <1>4, <1>7 DEF Yield
  <2>3. \A k \in 1..Len(docs) : k # r + 1 => docs'[k] = docs[k]
    BY <1>4, <1>7 DEF Yield
  <2>5. Len(docs') = Len(docs)
    BY <1>3, <1>7 DEF Yield
  <2> HIDE DEF d
  <2>4. Append(docs[r + 1], d) = docs[r + 1] \o <<d>>
    BY <1>13, <2>1, AppendIsConcat
  <2> QED
    BY <1>7, <2>2, <2>3, <2>4, <2>5 DEF d
<1>8. ASSUME docs' = docs, Emitted(input, p, to) = <<>>
      PROVE  /\ docs'[r + 1] = docs[r + 1] \o Emitted(input, p, to)
             /\ \A k \in 1..Len(docs) : k # r + 1 => docs'[k] = docs[k]
             /\ Len(docs') = Len(docs)
  BY <1>8, <1>13, ConcatEmptySeq
<1>9. ASSUME NEW q, Advance(r, q)
      PROVE  pos'[r + 1] = q /\ \A k \in 1..Len(pos) : k # r + 1 => pos'[k] = pos[k]
  BY <1>2, <1>4, <1>9 DEF Advance
<1>10. CASE WholeDoc(r)
  <2>1. Whole /\ Yield(r, p, to) /\ finished' = finished \cup {r} /\ pos' = pos
    BY <1>10 DEF WholeDoc, Finish
  <2>2. <<Slice(input.bytes, p, to)>> = Emitted(input, p, to) /\ LastCall(input, p, to)
    BY <2>1 DEF Emitted, LastCall, Whole
  <2> QED
    BY <1>7, <2>1, <2>2
<1>11. CASE TextDoc(r)
  <2> DEFINE end == EndFrom(input, p, to)
             hits == Hits(input.bytes, input.sep, p, to)
  <2>1. /\ ~Whole /\ input.format = "text"
        /\ IF p < end THEN Yield(r, p, end) ELSE docs' = docs
        /\ IF hits = {} THEN finished' = finished \cup {r} /\ pos' = pos
                        ELSE Advance(r, end + Len(input.sep)) /\ finished' = finished
    BY <1>11 DEF TextDoc, EndFrom, Finish
  <2>2. /\ Emitted(input, p, to) = (IF p < end THEN <<Slice(input.bytes, p, end)>> ELSE <<>>)
        /\ LastCall(input, p, to) <=> hits = {}
        /\ Beyond(input, p, to) = end + Len(input.sep)
    BY <2>1 DEF Emitted, LastCall, Beyond, Whole
  <2> HIDE DEF p, to, end, hits
  <2>3. /\ docs'[r + 1] = docs[r + 1] \o Emitted(input, p, to)
        /\ \A k \in 1..Len(docs) : k # r + 1 => docs'[k] = docs[k]
        /\ Len(docs') = Len(docs)
    BY <1>7, <1>8, <2>1, <2>2
  <2>4. /\ \A k \in 1..Len(pos) : k # r + 1 => pos'[k] = pos[k]
        /\ IF LastCall(input, p, to) THEN finished' = finished \cup {r}
           ELSE finished' = finished /\ pos'[r + 1] = Beyond(input, p, to)
    BY <1>9, <2>1, <2>2
  <2> QED
    BY <2>3, <2>4 DEF p, to
<1>12. CASE JsonDoc(r)
  <2> DEFINE from == LineStart(input, p, to)
             end == LineEnd(input, p, to)
  <2>1. input.format = "jsonl" /\ input.sep = <<Newline>> /\ Len(input.sep) = 1 /\ input.sep # <<>>
    <3>1. input.format = "jsonl"
      BY <1>12 DEF JsonDoc
    <3>2. input.sep = <<Newline>> /\ Len(input.sep) = 1
      BY <1>3, <3>1, InputFacts
    <3>3. input.sep # <<>>
      BY <3>2
    <3> QED
      BY <3>1, <3>2, <3>3
  <2>2. IF NoLine(input, p, to)
        THEN finished' = finished \cup {r} /\ pos' = pos /\ docs' = docs
        ELSE Yield(r, from, end) /\ Advance(r, end + 1) /\ finished' = finished
    <3> DEFINE hits == Hits(input.bytes, <<Newline>>, from, to)
               stop == IF hits = {} THEN to ELSE Find(input.bytes, <<Newline>>, from, to)
    <3>1. stop = end
      BY <2>1 DEF LineEnd, EndFrom
    <3>2. IF Rest(input, p, to) = {} \/ \E q \in from..(stop - 1) : input.bytes[q + 1] = Malformed
          THEN finished' = finished \cup {r} /\ pos' = pos /\ docs' = docs
          ELSE Yield(r, from, stop) /\ Advance(r, stop + 1) /\ finished' = finished
      BY <1>12 DEF JsonDoc, Finish, Rest, LineStart
    <3> HIDE DEF stop, from, end, p, to
    <3>3. NoLine(input, p, to) <=> Rest(input, p, to) = {} \/ \E q \in from..(end - 1) : input.bytes[q + 1] = Malformed
      BY DEF NoLine, from, end
    <3> QED
      BY <3>1, <3>2, <3>3
  <2>3. /\ Emitted(input, p, to) = (IF NoLine(input, p, to) THEN <<>> ELSE <<Slice(input.bytes, from, end)>>)
        /\ LastCall(input, p, to) <=> NoLine(input, p, to)
        /\ Beyond(input, p, to) = end + 1
    BY <2>1 DEF Emitted, LastCall, Beyond
  <2> HIDE DEF p, to, from, end
  <2>4. /\ docs'[r + 1] = docs[r + 1] \o Emitted(input, p, to)
        /\ \A k \in 1..Len(docs) : k # r + 1 => docs'[k] = docs[k]
        /\ Len(docs') = Len(docs)
    BY <1>7, <1>8, <2>2, <2>3
  <2>5. /\ \A k \in 1..Len(pos) : k # r + 1 => pos'[k] = pos[k]
        /\ IF LastCall(input, p, to) THEN finished' = finished \cup {r}
           ELSE finished' = finished /\ pos'[r + 1] = Beyond(input, p, to)
    BY <1>9, <2>2, <2>3
  <2> QED
    BY <2>4, <2>5 DEF p, to
<1> QED
  BY <1>10, <1>11, <1>12 DEF NextDoc

(* What Walked says of iterator r. *)
WalkedOne(r) ==
    LET from == RegionOf(r)[1]
        walk == Walk(input, RegionOf(r)[2])
    IN  IF r \in finished THEN docs[r + 1] = walk[from]
        ELSE docs[r + 1] \o walk[At(pos, r)] = walk[from] /\ (Whole => At(pos, r) = from)

LEMMA WalkedEach == Walked <=> \A r \in 0..(Len(docs) - 1) : WalkedOne(r)
BY DEF Walked, WalkedOne

LEMMA NextDocWalks ==
    ASSUME Inv, Walked, NEW r \in 0..Len(regions), NextDoc(r) PROVE Walked'
<1>1. /\ Reading(r) /\ UNCHANGED <<input, regions, planned>> /\ r \notin finished
  BY DEF NextDoc, WholeDoc, TextDoc, JsonDoc, Reading
<1>2. /\ r + 1 \in 1..Len(pos) /\ r + 1 \in 1..Len(docs) /\ r \in 0..(Len(pos) - 1)
      /\ At(pos, r) \in 0..(Size + 1)
      /\ RegionOf(r)[1] \in 0..Size /\ RegionOf(r)[2] \in 0..Size
  BY <1>1, ReaderFacts
<1>3. /\ IsInput(input) /\ Size \in Nat /\ docs \in Seq(Seq(Seq(Bytes))) /\ pos \in Seq(0..(Size + 1))
      /\ Len(docs) \in Nat /\ Len(pos) = Len(docs)
  BY InputFacts DEF Inv, TypeOK
<1>4. WalkedOne(r)
  BY <1>2, <1>3, WalkedEach
<1>5. Whole => At(pos, r) = RegionOf(r)[1]
  BY <1>1, <1>4 DEF WalkedOne
<1> DEFINE p == At(pos, r)
           to == RegionOf(r)[2]
<1>6. /\ docs'[r + 1] = docs[r + 1] \o Emitted(input, p, to)
      /\ \A k \in 1..Len(docs) : k # r + 1 => docs'[k] = docs[k]
      /\ \A k \in 1..Len(pos) : k # r + 1 => pos'[k] = pos[k]
      /\ IF LastCall(input, p, to)
         THEN finished' = finished \cup {r}
         ELSE /\ finished' = finished
              /\ pos'[r + 1] = Beyond(input, p, to)
  BY <1>5, CallIs
<1>7. Len(docs') = Len(docs)
  BY <1>5, CallIs
<1>8. \A q : RegionOf(q)' = RegionOf(q)
  BY <1>1 DEF RegionOf, Size
<1>9. Whole' = Whole
  BY <1>1 DEF Whole
<1>10. ASSUME NEW q \in 0..(Len(docs) - 1), q # r PROVE WalkedOne(q)'
  <2>1. q + 1 \in 1..Len(docs) /\ q + 1 # r + 1 /\ q + 1 \in 1..Len(pos)
    BY <1>3, <1>2, <1>10
  <2>2. docs'[q + 1] = docs[q + 1] /\ pos'[q + 1] = pos[q + 1] /\ (q \in finished' <=> q \in finished)
    BY <1>6, <1>10, <2>1
  <2>3. WalkedOne(q)
    BY <1>10, WalkedEach
  <2>4. Walk(input, RegionOf(q)[2])' = Walk(input, RegionOf(q)[2])
    BY <1>1, <1>8
  <2> QED
    BY <1>8, <1>9, <2>2, <2>3, <2>4 DEF WalkedOne, At
<1>11. WalkedOne(r)'
  <2> DEFINE walk == Walk(input, to)
             from == RegionOf(r)[1]
             done == docs[r + 1]
             doc == Emitted(input, p, to)
  <2>1. done \o walk[p] = walk[from]
    BY <1>1, <1>4 DEF WalkedOne
  <2>2. walk[p] = doc \o (IF LastCall(input, p, to) THEN <<>> ELSE walk[Beyond(input, p, to)])
    BY <1>2, <1>3, WalkStep
  <2>3. Whole => p <= Size
    BY <1>2, <1>3, <1>5
  <2>4. /\ doc \in Seq(Seq(Bytes)) /\ done \in Seq(Seq(Bytes))
        /\ ~LastCall(input, p, to) => Beyond(input, p, to) \in Nat /\ Beyond(input, p, to) <= to + 1
    BY <1>2, <1>3, <2>3, CallFacts, ElementOfSeq
  <2>5. /\ RegionOf(r)' = RegionOf(r) /\ input' = input
    BY <1>1, <1>8
  <2>6. CASE LastCall(input, p, to)
    <3>1. walk[p] = doc
      BY <2>2, <2>4, <2>6, ConcatEmptySeq
    <3>2. docs'[r + 1] = walk[from] /\ r \in finished'
      BY <1>6, <2>1, <2>6, <3>1
    <3> QED
      BY <2>5, <3>2 DEF WalkedOne
  <2>7. CASE ~LastCall(input, p, to)
    <3> DEFINE n == Beyond(input, p, to)
    <3>1. n \in 0..(Size + 1) /\ ~Whole
      <4>1. ~Whole
        BY <2>7 DEF LastCall, Whole
      <4> HIDE DEF n, to
      <4> QED
        BY <1>2, <1>3, <2>4, <2>7, <4>1 DEF n, to
    <3>2. walk[n] \in Seq(Seq(Bytes))
      BY <1>2, <1>3, <3>1, WalkType
    <3>3. (done \o doc) \o walk[n] = done \o (doc \o walk[n])
      BY <2>4, <3>2, JoinDocs
    <3>4. docs'[r + 1] \o walk[n] = walk[from] /\ pos'[r + 1] = n /\ r \notin finished'
      BY <1>1, <1>6, <2>1, <2>2, <2>7, <3>3
    <3>5. ~Whole'
      BY <1>9, <3>1
    <3> HIDE DEF n
    <3> QED
      BY <2>5, <3>4, <3>5 DEF WalkedOne, At
  <2> QED
    BY <2>6, <2>7
<1>12. \A q \in 0..(Len(docs') - 1) : WalkedOne(q)'
  BY <1>7, <1>10, <1>11
<1> QED
  BY <1>12 DEF Walked, WalkedOne

LEMMA PlanWalks ==
    ASSUME Inv, Walked, Plan PROVE Walked'
<1> DEFINE Place == (0..Size) \X (0..Size)
           starts == [r \in DOMAIN regions' |-> regions'[r][1]]
           none == [r \in DOMAIN regions' |-> <<>>]
<1>1. /\ IsInput(input) /\ Size \in Nat /\ input' = input /\ finished' = finished /\ finished \subseteq {0}
      /\ Len(pos) = 1 /\ Len(docs) = 1 /\ regions \in Seq(Place)
      /\ pos' = <<pos[1]>> \o starts /\ docs' = <<docs[1]>> \o none
  BY InputFacts DEF Inv, TypeOK, Plan
<1>2. regions' \in Seq(Place) /\ Len(regions') \in Nat /\ DOMAIN regions' = 1..Len(regions')
  <2>1. CASE Whole \/ regions = <<>>
    <3>1. regions' = <<<<0, Size>>>>
      BY <2>1 DEF Plan
    <3> QED
      BY <1>1, <3>1
  <2>2. CASE ~(Whole \/ regions = <<>>)
    <3>1. regions' = regions
      BY <2>2 DEF Plan
    <3> QED
      BY <1>1, <3>1
  <2> QED
    BY <2>1, <2>2
<1> DEFINE L == Len(regions')
<1>3. /\ Len(docs') = L + 1 /\ docs'[1] = docs[1] /\ pos'[1] = pos[1]
      /\ \A r \in 1..L : docs'[r + 1] = <<>> /\ pos'[r + 1] = regions'[r][1]
  <2>1. Len(starts) = L /\ Len(none) = L
    BY <1>2
  <2>2. \A r \in 1..L : starts[r] = regions'[r][1] /\ none[r] = <<>>
    BY <1>2
  <2>3. Len(<<pos[1]>>) = 1 /\ Len(<<docs[1]>>) = 1
    OBVIOUS
  <2> HIDE DEF starts, none, L
  <2>4. L \in Nat
    BY <1>2 DEF L
  <2> QED
    BY <1>1, <2>1, <2>2, <2>3, <2>4
<1>4. 0 \in 0..(Len(docs) - 1)
  BY <1>1
<1>5. WalkedOne(0)
  BY <1>4, WalkedEach
<1>6. RegionOf(0)' = RegionOf(0) /\ RegionOf(0) = <<0, Size>>
  BY <1>1 DEF RegionOf, Size
<1>7. WalkedOne(0)'
  <2>1. Walk(input, RegionOf(0)[2])' = Walk(input, RegionOf(0)[2]) /\ Whole' = Whole
    BY <1>1, <1>6 DEF Whole
  <2>2. 0 + 1 = 1
    OBVIOUS
  <2> QED
    BY <1>1, <1>3, <1>5, <1>6, <2>1, <2>2 DEF WalkedOne, At
<1>8. ASSUME NEW r \in 1..L PROVE WalkedOne(r)'
  <2>1. RegionOf(r)' = regions'[r] /\ r \notin finished'
    BY <1>1, <1>2, <1>8 DEF RegionOf
  <2>2. regions'[r][1] \in 0..Size /\ regions'[r][2] \in 0..Size
    BY <1>2, <1>8
  <2> DEFINE walk == Walk(input, regions'[r][2])
             a == regions'[r][1]
  <2>3. walk[a] \in Seq(Seq(Bytes))
    <3>1. a \in 0..(Size + 1) /\ a <= Size
      BY <1>1, <2>2
    <3> QED
      BY <1>1, <2>2, <3>1, WalkType
  <2>4. <<>> \o walk[a] = walk[a]
    BY <2>3, ConcatEmptySeq
  <2>5. docs'[r + 1] = <<>> /\ pos'[r + 1] = a
    BY <1>3, <1>8
  <2> QED
    BY <1>1, <2>1, <2>4, <2>5 DEF WalkedOne, At
<1>9. \A q \in 0..(Len(docs') - 1) : WalkedOne(q)'
  <2>1. \A q \in 0..(Len(docs') - 1) : q = 0 \/ q \in 1..L
    BY <1>2, <1>3
  <2> QED
    BY <1>7, <1>8, <2>1
<1> QED
  BY <1>9 DEF Walked, WalkedOne
-----------------------------------------------------------------------------
(* Sequences joined in order. *)
Joins(f, seqs, n) == f = [i \in 1..n |-> IF i = 1 THEN seqs[i] ELSE f[i - 1] \o seqs[i]]

LEMMA JoinExists ==
    ASSUME NEW seqs, NEW n \in Nat PROVE \E f : Joins(f, seqs, n)
<1> DEFINE bad == {m \in Nat : ~ \E f : Joins(f, seqs, m)}
<1>1. bad = {}
  <2> SUFFICES ASSUME bad # {} PROVE FALSE
    OBVIOUS
  <2>1. PICK m \in bad : \A k \in bad : m <= k
    BY LeastElement
  <2>2. m \in Nat /\ ~ \E f : Joins(f, seqs, m)
    OBVIOUS
  <2> HIDE DEF bad
  <2>3. m # 0
    <3>1. ASSUME m = 0 PROVE Joins(<<>>, seqs, m)
      BY <3>1 DEF Joins
    <3> QED
      BY <2>2, <3>1
  <2>4. m - 1 \in Nat /\ m - 1 \notin bad
    BY <2>1, <2>2, <2>3
  <2>5. PICK h : Joins(h, seqs, m - 1)
    BY <2>4 DEF bad
  <2> DEFINE Body(f, i) == IF i = 1 THEN seqs[i] ELSE f[i - 1] \o seqs[i]
             f == [i \in 1..m |-> Body(h, i)]
  <2>6. ASSUME NEW i \in 1..m PROVE Body(f, i) = Body(h, i)
    <3> SUFFICES ASSUME i # 1 PROVE f[i - 1] = h[i - 1]
      OBVIOUS
    <3>1. i - 1 \in 1..m /\ i - 1 \in 1..(m - 1)
      BY <2>2, <2>6
    <3>2. h[i - 1] = Body(h, i - 1)
      BY <2>5, <3>1 DEF Joins
    <3> QED
      BY <3>1, <3>2
  <2>7. [i \in 1..m |-> Body(f, i)] = [i \in 1..m |-> Body(h, i)]
    <3> HIDE DEF Body, f
    <3> QED
      BY <2>6
  <2>8. f = [i \in 1..m |-> Body(f, i)]
    BY <2>7
  <2>9. Joins(f, seqs, m)
    <3> HIDE DEF f
    <3> QED
      BY <2>8 DEF Joins
  <2> QED
    BY <2>2, <2>9
<1> QED
  BY <1>1

(* FlattenSeq joins the first sequence with the second, and so on. *)
LEMMA FlattenFacts ==
    ASSUME NEW seqs, Len(seqs) \in Nat \ {0}
    PROVE  \E f : /\ FlattenSeq(seqs) = f[Len(seqs)] /\ f[1] = seqs[1]
                  /\ \A i \in 1..(Len(seqs) - 1) : f[i + 1] = f[i] \o seqs[i + 1]
<1> DEFINE n == Len(seqs)
           f == CHOOSE f : Joins(f, seqs, n)
<1>1. Joins(f, seqs, n)
  BY JoinExists
<1>2. FlattenSeq(seqs) = f[n]
  BY DEF FlattenSeq, Joins
<1> HIDE DEF f
<1>3. \A i \in 1..n : f[i] = IF i = 1 THEN seqs[i] ELSE f[i - 1] \o seqs[i]
  BY <1>1 DEF Joins
<1>4. f[1] = seqs[1]
  BY <1>3
<1>5. ASSUME NEW i \in 1..(n - 1) PROVE f[i + 1] = f[i] \o seqs[i + 1]
  <2>1. i + 1 \in 1..n /\ i + 1 # 1 /\ (i + 1) - 1 = i
    BY <1>5
  <2> QED
    BY <1>3, <2>1
<1> QED
  BY <1>2, <1>4, <1>5

LEMMA CutBetween ==
    ASSUME IsInput(input), SepAlone(input.sep), NEW e \in 0..Size, NEW n \in e..Size, CutAt(input, e, n)
    PROVE  Between(input, n)
<1> DEFINE len == Len(input.sep)
           all == Hits(input.bytes, input.sep, 0, Size)
<1>1. Size \in Nat /\ len \in Nat /\ e \in Nat /\ n \in Nat
  BY InputFacts
<1>2. \A h \in all : h \in 0..(Size - len)
  BY HitBytes
<1>3. CASE n = Size
  <2>1. \A h \in all : h + len <= n
    BY <1>1, <1>2, <1>3
  <2> QED
    BY <2>1 DEF Between, Size
<1>4. CASE n = e + len /\ e \in all
  BY <1>4, BetweenBehind
<1>5. CASE n = e /\ e - len \in all
  <2>1. (e - len) + len = n
    BY <1>1, <1>5
  <2>2. Between(input, (e - len) + len)
    BY <1>5, BetweenBehind
  <2> QED
    BY <2>1, <2>2
<1> QED
  BY <1>3, <1>4, <1>5 DEF CutAt, Size

LEMMA PrefixOf ==
    ASSUME NEW s \in Seq(Seq(Bytes)), NEW u \in Seq(Seq(Bytes)) PROVE IsPrefix(s, s \o u)
<1>1. /\ Len(s) \in Nat /\ Len(u) \in Nat /\ Len(s \o u) = Len(s) + Len(u) /\ s \o u \in Seq(Seq(Bytes))
      /\ \A i \in 1..Len(s) : (s \o u)[i] = s[i]
  BY ConcatProperties
<1> DEFINE t == s \o u
<1> HIDE DEF t
<1>2. \A i \in 1..Len(s) : s[i] = t[i]
  BY <1>1 DEF t
<1>3. SubSeq(s, 1, Len(s)) = SubSeq(t, 1, Len(s))
  BY <1>1, <1>2
<1>4. Len(s) <= Len(t)
  BY <1>1 DEF t
<1> QED
  BY <1>3, <1>4 DEF IsPrefix, t

(* The documents of the pieces, joined in their order. *)
LEMMA PiecesRead ==
    ASSUME Inv, CutRight, Walked, OneFile, AllRead, SepAlone(input.sep)
    PROVE  SameDocuments
<1> DEFINE L == Len(regions)
           Docs == Seq(Seq(Bytes))
           seqs == Tail(docs)
           all == Walk(input, Size)[0]
           From(r) == FromIn(regions, Size, r)
<1>1. /\ IsInput(input) /\ Size \in Nat /\ planned /\ regions \in Seq((0..Size) \X (0..Size))
      /\ L \in Nat /\ docs \in Seq(Docs) /\ Len(docs) = L + 1 /\ finished = 0..L
      /\ Tiles(regions, Size) /\ CutsAt(input, regions, Size)
  BY InputFacts DEF Inv, TypeOK, AllRead, Cutting, CutRight
<1>2. L # 0
  BY <1>1, EmptySeq DEF OneFile
<1>3. \A r \in 0..L : docs[r + 1] = Walk(input, RegionOf(r)[2])[RegionOf(r)[1]]
  BY <1>1 DEF Walked
<1>4. docs[1] = all
  <2>1. RegionOf(0) = <<0, Size>> /\ 0 \in 0..L /\ 0 + 1 = 1
    BY <1>1 DEF RegionOf
  <2> QED
    BY <1>3, <2>1
<1>5. Len(seqs) = L /\ \A r \in 1..L : seqs[r] = docs[r + 1]
  <2>1. docs # <<>>
    BY <1>1
  <2> QED
    BY <1>1, <2>1, HeadTailProperties
<1>6. \A r \in 1..L : /\ regions[r] \in (0..Size) \X (0..Size)
                      /\ seqs[r] = Walk(input, regions[r][2])[regions[r][1]]
  <2> TAKE r \in 1..L
  <2>1. r \in 0..L /\ r # 0
    BY <1>1
  <2>2. RegionOf(r) = regions[r] /\ regions[r] \in (0..Size) \X (0..Size)
    BY <1>1, <2>1 DEF RegionOf
  <2> QED
    BY <1>3, <1>5, <2>1, <2>2
<1> HIDE DEF seqs
<1>7. PICK f : /\ FlattenSeq(seqs) = f[L] /\ f[1] = seqs[1]
               /\ \A i \in 1..(L - 1) : f[i + 1] = f[i] \o seqs[i + 1]
  <2>1. Len(seqs) \in Nat \ {0}
    BY <1>1, <1>2, <1>5
  <2>2. \E f : /\ FlattenSeq(seqs) = f[Len(seqs)] /\ f[1] = seqs[1]
               /\ \A i \in 1..(Len(seqs) - 1) : f[i + 1] = f[i] \o seqs[i + 1]
    BY <2>1, FlattenFacts
  <2>3. Len(seqs) = L
    BY <1>5
  <2> HIDE DEF L
  <2> QED
    BY <2>2, <2>3
<1>8. all \in Docs
  <2>1. 0 \in 0..(Size + 1) /\ Size \in 0..Size /\ 0 <= Size
    BY <1>1
  <2> QED
    BY <1>1, <2>1, WalkType
<1>9. f[L] = all \/ (Unreadable /\ \E u \in Docs : f[L] = all \o u)
  <2>1. CASE Whole
    <3>1. regions = <<<<0, Size>>>>
      BY <1>1, <2>1 DEF OneFile
    <3>2. L = 1 /\ regions[1] = <<0, Size>>
      BY <3>1
    <3> QED
      BY <1>6, <1>7, <3>2
  <2>2. CASE ~Whole
    <3> DEFINE Joined(i) ==
                 /\ f[i] \in Docs
                 /\ \/ all = f[i] \o Walk(input, Size)[From(i + 1)]
                    \/ Unreadable /\ \E u \in Docs : f[i] = all \o u
    <3>1. \A r \in 1..L : /\ regions[r][2] \in 0..Size /\ From(r) = regions[r][1] /\ From(r) \in 0..regions[r][2]
                          /\ From(r + 1) \in regions[r][2]..Size
                          /\ CutAt(input, regions[r][2], From(r + 1))
      <4> TAKE r \in 1..L
      <4>1. From(r) <= regions[r][2] /\ regions[r][2] <= From(r + 1) /\ CutAt(input, regions[r][2], From(r + 1))
        BY <1>1 DEF Tiles, CutsAt
      <4>2. From(r) = regions[r][1] /\ ~(r > L)
        BY <1>1 DEF FromIn
      <4>3. From(r + 1) \in 0..Size
        <5>1. CASE r + 1 > L
          BY <1>1, <5>1 DEF FromIn
        <5>2. CASE ~(r + 1 > L)
          <6>1. r + 1 \in 1..L
            BY <1>1, <5>2
          <6> QED
            BY <1>6, <5>2, <6>1 DEF FromIn
        <5> QED
          BY <5>1, <5>2
      <4>4. regions[r][1] \in 0..Size /\ regions[r][2] \in 0..Size
        BY <1>6
      <4> DEFINE e == regions[r][2]
                 a == From(r)
                 n == From(r + 1)
      <4>5. a <= e /\ e <= n /\ n \in 0..Size /\ a \in 0..Size /\ e \in 0..Size
        BY <4>1, <4>2, <4>3, <4>4
      <4> HIDE DEF e, a, n
      <4>6. a \in 0..e /\ n \in e..Size
        BY <1>1, <4>5
      <4> QED
        BY <4>1, <4>2, <4>4, <4>6 DEF e, a, n
    <3>2. From(1) = 0
      BY <1>1 DEF Tiles
    <3> HIDE DEF From, L
    <3>3. \A r \in 1..(L + 1) : Between(input, From(r))
      <4> TAKE r \in 1..(L + 1)
      <4>1. CASE r = 1
        <5>1. \A h \in Hits(input.bytes, input.sep, 0, Size) : h >= 0
          BY <1>1, HitBytes
        <5> QED
          BY <3>2, <4>1, <5>1 DEF Between, Size
      <4>2. CASE r # 1
        <5>1. r - 1 \in 1..L /\ (r - 1) + 1 = r
          BY <1>1, <4>2
        <5>2. /\ regions[r - 1][2] \in 0..Size /\ From(r) \in regions[r - 1][2]..Size
              /\ CutAt(input, regions[r - 1][2], From(r))
          BY <3>1, <5>1
        <5> QED
          BY <1>1, <5>2, CutBetween
      <4> QED
        BY <4>1, <4>2
    <3>4. \A r \in 1..L : /\ Glued(From(r), regions[r][2], From(r + 1)) /\ seqs[r] \in Docs
                          /\ seqs[r] = Walk(input, regions[r][2])[From(r)]
                          /\ Walk(input, Size)[From(r + 1)] \in Docs
      <4> TAKE r \in 1..L
      <4>1. /\ regions[r][2] \in 0..Size /\ From(r) = regions[r][1] /\ From(r) \in 0..regions[r][2]
            /\ From(r + 1) \in regions[r][2]..Size
            /\ CutAt(input, regions[r][2], From(r + 1))
        BY <3>1
      <4>2. r \in 1..(L + 1)
        BY <1>1
      <4>3. Glued(From(r), regions[r][2], From(r + 1))
        BY <1>1, <2>2, <3>3, <4>1, <4>2, Glue
      <4>4. seqs[r] = Walk(input, regions[r][2])[From(r)]
        BY <1>6, <4>1
      <4>5. From(r) \in 0..(Size + 1) /\ From(r + 1) \in 0..(Size + 1) /\ Size \in 0..Size
        <5> DEFINE e == regions[r][2]
                   a == From(r)
                   n == From(r + 1)
        <5>1. e \in 0..Size /\ a \in 0..e /\ n \in e..Size
          BY <4>1
        <5> HIDE DEF e, a, n
        <5>2. a \in 0..(Size + 1) /\ n \in 0..(Size + 1) /\ Size \in 0..Size
          BY <1>1, <5>1
        <5> QED
          BY <5>2 DEF a, n
      <4> QED
        BY <1>1, <2>2, <4>1, <4>3, <4>4, <4>5, WalkType
    <3>5. Joined(1)
      <4>1. 1 \in 1..L
        BY <1>1, <1>2
      <4>2. f[1] \in Docs /\ Glued(0, regions[1][2], From(1 + 1)) /\ f[1] = Walk(input, regions[1][2])[0]
        BY <1>7, <3>2, <3>4, <4>1
      <4>3. all \o <<>> = all /\ <<>> \in Docs
        BY <1>8, ConcatEmptySeq
      <4> QED
        BY <4>2, <4>3 DEF Glued
    <3>6. ASSUME NEW i \in 1..(L - 1), Joined(i) PROVE Joined(i + 1)
      <4>1. i + 1 \in 1..L /\ i \in 1..L
        BY <1>1, <3>6
      <4>2. f[i + 1] = f[i] \o seqs[i + 1] /\ seqs[i + 1] \in Docs /\ f[i] \in Docs
        BY <1>7, <3>4, <3>6, <4>1
      <4>3. f[i + 1] \in Docs
        BY <4>2, ConcatProperties
      <4> DEFINE rest == Walk(input, Size)[From((i + 1) + 1)]
                 here == Walk(input, Size)[From(i + 1)]
                 piece == seqs[i + 1]
      <4>4. rest \in Docs /\ (here = piece \o rest \/ (Unreadable /\ here = piece))
        <5> DEFINE r == i + 1
        <5>1. r \in 1..L
          BY <4>1
        <5> HIDE DEF r
        <5>2. /\ Glued(From(r), regions[r][2], From(r + 1)) /\ seqs[r] = Walk(input, regions[r][2])[From(r)]
              /\ Walk(input, Size)[From(r + 1)] \in Docs
          BY <3>4, <5>1
        <5>3. Walk(input, Size)[From(r + 1)] \in Docs
              /\ (\/ Walk(input, Size)[From(r)] = seqs[r] \o Walk(input, Size)[From(r + 1)]
                  \/ Unreadable /\ Walk(input, Size)[From(r)] = seqs[r])
          BY <5>2 DEF Glued
        <5>4. /\ rest = Walk(input, Size)[From(r + 1)] /\ here = Walk(input, Size)[From(r)]
              /\ piece = seqs[r]
          BY DEF r
        <5> HIDE DEF rest, here, piece
        <5> QED
          BY <5>3, <5>4
      <4>5. CASE all = f[i] \o here /\ here = piece \o rest
        <5>1. (f[i] \o piece) \o rest = f[i] \o (piece \o rest)
          BY <4>2, <4>4, JoinDocs
        <5> QED
          BY <4>2, <4>3, <4>5, <5>1
      <4>6. CASE all = f[i] \o here /\ Unreadable /\ here = piece
        <5>1. all \o <<>> = all /\ <<>> \in Docs
          BY <1>8, ConcatEmptySeq
        <5> QED
          BY <4>2, <4>3, <4>6, <5>1
      <4>7. CASE Unreadable /\ \E u \in Docs : f[i] = all \o u
        <5>1. PICK u \in Docs : f[i] = all \o u
          BY <4>7
        <5>2. (all \o u) \o piece = all \o (u \o piece) /\ u \o piece \in Docs
          BY <1>8, <4>2, JoinDocs, ConcatProperties
        <5> QED
          BY <4>2, <4>3, <4>7, <5>1, <5>2
      <4> QED
        BY <3>6, <4>4, <4>5, <4>6, <4>7
    <3>7. Joined(L)
      <4> DEFINE bad == {m \in Nat : m \in 1..L /\ ~Joined(m)}
      <4> SUFFICES ASSUME bad # {} PROVE FALSE
        <5>1. L \in Nat /\ L \in 1..L
          BY <1>1, <1>2
        <5> QED
          BY <5>1
      <4>1. PICK m \in bad : \A k \in bad : m <= k
        BY LeastElement
      <4>2. m \in Nat /\ m \in 1..L /\ ~Joined(m)
        OBVIOUS
      <4> HIDE DEF bad, Joined
      <4>3. m # 1
        BY <3>5, <4>2
      <4>4. m - 1 \in 1..(L - 1) /\ m - 1 \in Nat /\ m - 1 \in 1..L /\ m - 1 \notin bad /\ (m - 1) + 1 = m
        BY <1>1, <4>1, <4>2, <4>3
      <4>5. Joined(m - 1)
        BY <4>4 DEF bad
      <4>6. Joined((m - 1) + 1)
        BY <3>6, <4>4, <4>5
      <4> QED
        BY <4>2, <4>4, <4>6
    <3>8. From(L + 1) = Size
      BY <1>1 DEF From, FromIn, L
    <3>9. Walk(input, Size)[Size] = <<>>
      <4>1. Size \in 0..Size
        BY <1>1
      <4> QED
        BY <1>1, <2>2, <4>1, WalkEnds
    <3>10. f[L] \o <<>> = f[L]
      BY <3>7, ConcatEmptySeq
    <3> QED
      BY <3>7, <3>8, <3>9, <3>10 DEF L
  <2> QED
    BY <2>1, <2>2
<1>10. FlattenSeq(Tail(docs)) = f[L]
  BY <1>7 DEF seqs
<1>11. IsPrefix(all, all)
  <2>1. <<>> \in Docs /\ all \o <<>> = all
    BY <1>8, ConcatEmptySeq
  <2> QED
    BY <1>8, <2>1, PrefixOf
<1>12. \A u \in Docs : IsPrefix(all, all \o u)
  BY <1>8, PrefixOf
<1> QED
  BY <1>4, <1>9, <1>10, <1>11, <1>12 DEF SameDocuments

-----------------------------------------------------------------------------
DocsInv == IInv /\ CutRight /\ Walked /\ OneFile
Alone == \A i \in Inputs : SepAlone(i.sep)

LEMMA InitDocs == Init => CutRight /\ Walked /\ OneFile
<1> SUFFICES ASSUME Init PROVE CutRight /\ Walked /\ OneFile
  OBVIOUS
<1>1. /\ Inv /\ IsInput(input) /\ Size \in Nat /\ ~planned /\ docs = <<<<>>>> /\ pos = <<0>> /\ finished = {}
      /\ regions = <<>> /\ streaming \in BOOLEAN /\ (~streaming => input \in Inputs)
  <2>1. Inv /\ IsInput(input)
    BY InitIInv DEF IInv, Inv, TypeOK
  <2> QED
    BY <2>1, InputFacts DEF Init
<1>2. CutRight
  BY <1>1 DEF CutRight, CutsAt
<1>3. WalkedOne(0)
  <2>1. RegionOf(0) = <<0, Size>> /\ At(pos, 0) = 0 /\ docs[0 + 1] = <<>>
    BY <1>1 DEF RegionOf, At
  <2>2. Walk(input, Size)[0] \in Seq(Seq(Bytes))
    <3>1. 0 \in 0..(Size + 1) /\ Size \in 0..Size /\ 0 <= Size
      BY <1>1
    <3> QED
      BY <1>1, <3>1, WalkType
  <2>3. <<>> \o Walk(input, Size)[0] = Walk(input, Size)[0]
    BY <2>2, ConcatEmptySeq
  <2> QED
    BY <1>1, <2>1, <2>3 DEF WalkedOne
<1>4. Walked
  <2>1. \A r \in 0..(Len(docs) - 1) : r = 0
    BY <1>1
  <2> QED
    BY <1>3, <2>1, WalkedEach
<1> QED
  BY <1>1, <1>2, <1>4 DEF OneFile

LEMMA NextDocs == DocsInv /\ [Next]_vars => (CutRight /\ Walked /\ OneFile)'
<1> SUFFICES ASSUME DocsInv, [Next]_vars PROVE (CutRight /\ Walked /\ OneFile)'
  OBVIOUS
<1>1. Inv /\ CutRight /\ Walked /\ OneFile
  BY DEF DocsInv, IInv
<1>2. ASSUME UNCHANGED <<input, regions, planned, pos, finished, docs>> PROVE Walked'
  <2>1. \A r : RegionOf(r)' = RegionOf(r)
    BY <1>2 DEF RegionOf, Size
  <2>2. \A r \in 0..(Len(docs) - 1) : WalkedOne(r)'
    <3> TAKE r \in 0..(Len(docs) - 1)
    <3>1. WalkedOne(r)
      BY <1>1, WalkedEach
    <3>2. Walk(input, RegionOf(r)[2])' = Walk(input, RegionOf(r)[2]) /\ Whole' = Whole
      BY <1>2, <2>1 DEF Whole
    <3> QED
      BY <1>2, <2>1, <3>1, <3>2 DEF WalkedOne, At
  <2> QED
    BY <1>2, <2>2 DEF Walked, WalkedOne
(* Before the file is cut only the serial iterator reads. *)
<1>6. ASSUME ~planned, planned' = planned, UNCHANGED <<input, pos, finished, docs>> PROVE Walked'
  <2>1. Len(docs) = 1 /\ Len(docs') = 1
    BY <1>1, <1>6 DEF Inv, TypeOK
  <2>2. WalkedOne(0)
    BY <1>1, <2>1, WalkedEach
  <2>3. RegionOf(0)' = RegionOf(0) /\ RegionOf(0) = <<0, Size>>
    BY <1>6 DEF RegionOf, Size
  <2>4. Walk(input, RegionOf(0)[2])' = Walk(input, RegionOf(0)[2]) /\ Whole' = Whole
    BY <1>6, <2>3 DEF Whole
  <2>5. WalkedOne(0)'
    BY <1>6, <2>2, <2>3, <2>4 DEF WalkedOne, At
  <2>6. \A r \in 0..(Len(docs') - 1) : r = 0
    BY <2>1
  <2> QED
    BY <2>5, <2>6 DEF Walked, WalkedOne
<1>3. CASE UNCHANGED <<input, splitVars, streaming>>
  <2>1. CutRight' /\ OneFile'
    BY <1>1, <1>3 DEF splitVars, CutRight, OneFile, Size, Whole
  <2> QED
    BY <1>2, <1>3, <2>1 DEF splitVars
<1>4. CASE ~streaming /\ SplitStep /\ streaming' = streaming
  <2>1. CASE CutRegion
    <3>1. UNCHANGED <<input, planned, pos, finished, docs>> /\ ~planned
      BY <2>1 DEF CutRegion
    <3>2. CutRight'
      BY <1>1, <2>1, RegionCutsRight
    <3>3. Walked'
      BY <1>6, <3>1
    <3>4. OneFile'
      BY <1>1, <1>4, <3>1 DEF OneFile
    <3> QED
      BY <3>2, <3>3, <3>4
  <2>2. CASE CutWindow
    <3>1. UNCHANGED <<input, planned, pos, finished, docs>> /\ ~planned
      BY <2>2 DEF CutWindow
    <3>2. CutRight'
      BY <1>1, <1>4, <2>2, CutWindowKeeps, WindowCutsRight
    <3>3. Walked'
      BY <1>6, <3>1
    <3>4. OneFile'
      BY <1>1, <1>4, <3>1 DEF OneFile
    <3> QED
      BY <3>2, <3>3, <3>4
  <2>3. CASE Plan
    <3>1. CutRight' /\ Walked'
      BY <1>1, <2>3, PlanCutsRight, PlanWalks
    <3>2. input' = input /\ regions' = IF Whole \/ regions = <<>> THEN <<<<0, Size>>>> ELSE regions
      BY <2>3 DEF Plan
    <3>3. <<<<0, Size>>>> # <<>> /\ Whole' = Whole /\ Size' = Size
      BY <3>2 DEF Whole, Size
    <3> QED
      BY <1>1, <1>4, <3>1, <3>2, <3>3 DEF OneFile
  <2>4. CASE \E r \in 0..Len(regions) : NextDoc(r)
    <3>1. Walked'
      BY <1>1, <2>4, NextDocWalks
    <3>2. UNCHANGED <<input, start, regions, planned>>
      BY <2>4 DEF NextDoc, WholeDoc, TextDoc, JsonDoc
    <3>3. CutRight' /\ OneFile'
      BY <1>1, <1>4, <3>2 DEF CutRight, OneFile, Size, Whole
    <3> QED
      BY <3>1, <3>3
  <2> QED
    BY <1>4, <2>1, <2>2, <2>3, <2>4 DEF SplitStep
<1>5. CASE streaming /\ Stream!Step /\ UNCHANGED <<streaming, splitVars>>
  <2>1. input' = input
    BY <1>5 DEF Stream!Step, Stream!NextWhole, Stream!Call, Stream!FillBuf, Stream!Eof,
       Stream!ReadError
  <2> QED
    BY <1>3, <1>5, <2>1
<1> QED
  BY <1>3, <1>4, <1>5 DEF Next, Step, Finished, vars

LEMMA DocsInvariant == Alone /\ Spec => [](Alone /\ DocsInv)
<1>1. Alone /\ Init => Alone /\ DocsInv
  BY InitIInv, InitDocs DEF DocsInv
<1>2. (Alone /\ DocsInv) /\ [Next]_vars => (Alone /\ DocsInv)'
  BY NextIInv, NextDocs DEF DocsInv, Alone
<1> QED
  BY <1>1, <1>2, PTL DEF Spec

(* "token- and order-identical": however a file is cut, and at whatever pace the pieces
   are read, their documents are in order those of the serial walk, or begin with them
   when a line cannot be read; as long as no separator overlaps itself. *)
THEOREM DocumentsSame == Alone /\ Spec => []SameDocuments
<1>1. Alone /\ DocsInv => SameDocuments
  <2> SUFFICES ASSUME Alone, DocsInv, AllRead PROVE SameDocuments
    BY DEF SameDocuments
  <2>1. planned /\ Inv /\ CutRight /\ Walked /\ OneFile
    BY DEF AllRead, DocsInv, IInv
  <2>2. SepAlone(input.sep)
    BY <2>1 DEF OneFile, Alone
  <2> QED
    BY <2>1, <2>2, PiecesRead
<1> QED
  BY <1>1, DocsInvariant, PTL
=============================================================================
