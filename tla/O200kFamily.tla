---------------------------- MODULE O200kFamily ----------------------------
(***************************************************************************)
(* The o200k family (src/src/pretokenize/fast/o200k_family.rs and the      *)
(* schemes o200k.rs, nemotron.rs, kimi.rs).  With U = upper, caseless or   *)
(* mark and L = lower, caseless or mark:                                   *)
(*   P?U*L+S?|P?U+L*S?|numbers| ?[^\s\p{L}\p{N}]+[\r\n/]*|\s*[\r\n]+       *)
(*   |\s+(?!\S)|\s+        P = [^\r\n\p{L}\p{N}], S = a contraction        *)
(* A scheme says whether S is there, how numbers group, whether a slash    *)
(* joins the newlines after punctuation, and whether Han runs come first.  *)
(***************************************************************************)
EXTENDS BatchClasses
LOCAL INSTANCE FiniteSetsExt

CONSTANT TailWalk      \* how far back a tail is followed (8 in the code)
ASSUME TailWalkShape == TailWalk \in Nat

O200k == [suffix |-> TRUE, digits |-> "three", slash |-> TRUE, han |-> FALSE]
Nemotron == [suffix |-> FALSE, digits |-> "one", slash |-> TRUE, han |-> FALSE]
NemotronRight == [Nemotron EXCEPT !.digits = "right"]
Kimi == [suffix |-> TRUE, digits |-> "three", slash |-> FALSE, han |-> TRUE]

HanCats == {"han", "hanNumber", "hanSymbol"}
Cased(sch) == IF sch.han THEN {"caseless"} ELSE {"caseless", "han"}
Letters(sch) == {"upper", "lower"} \cup Cased(sch)
CaseRun(sch) == Letters(sch) \cup {"mark"}
TailBytes(sch) == {Newline} \cup (IF sch.slash THEN {Slash} ELSE {})
(* Characters whose run depends on where their token began. *)
Contextual(sch) == {"mark"} \cup (IF sch.han THEN {"hanSymbol"} ELSE {})

(***************************************************************************)
(* The scalar advance.  A case run ends at the first upper after a lower;  *)
(* with no lower it gives back the upper letters behind its last caseless  *)
(* letter or mark.                                                         *)
(***************************************************************************)
CaseEnd(sch, t, a) ==
    LET e == RunEnd(t, a, CaseRun(sch))
        of(C) == {q \in a .. e - 1 : CharAt(t, q) /\ Cat(t, q) \in C}
        lower == of({"lower"})
        soft == of(Cased(sch) \cup {"mark"})
    IN  IF lower # {} THEN Min({q \in of({"upper"}) : q > Min(lower)} \cup {e})
        ELSE IF soft # {} THEN CharEnd(t, Max(soft)) ELSE e

SuffixEnd(sch, t, e) ==
    IF sch.suffix /\ In(t, e, {Quote}) /\ FoldedSuffix(t, e + 1) > 0
    THEN e + 1 + FoldedSuffix(t, e + 1) ELSE e

WordEnd(sch, t, a) == SuffixEnd(sch, t, CaseEnd(sch, t, a))

O200kWs(t, p) ==
    LET e == RunEnd(t, p, White)
        newlines == {q \in p .. e - 1 : Byte(t, q) = Newline}
        last == LeadOf(t, e - 1)
    IN  IF newlines # {} THEN Max(newlines) + 1
        ELSE IF e < Len(t) /\ last > p THEN last ELSE e

(* Right-aligned groups count the run only at its start. *)
RightDigits(t, p) ==
    LET run == {q \in p .. RunEnd(t, p, Number) - 1 : CharAt(t, q)}
        one == CharEnd(t, p)
        two == Skip(t, one, Number)
    IN  IF Before(t, p) \in Number THEN RunEnd3(t, p, Number)
        ELSE CASE Cardinality(run) % 3 = 1 -> one
               [] Cardinality(run) % 3 = 2 -> two
               [] OTHER -> RunEnd3(t, p, Number)

DigitsEnd(sch, t, p) ==
    CASE sch.digits = "one" -> CharEnd(t, p)
      [] sch.digits = "three" -> RunEnd3(t, p, Number)
      [] OTHER -> RightDigits(t, p)

O200kAdvance(sch, t, p) ==
    LET c == Cat(t, p)
        n == CharEnd(t, p)
        afterSpace == Byte(t, p) = Space /\ IsCat(t, n, Other)
    IN  IF sch.han /\ c \in HanCats THEN RunEnd(t, p, HanCats)
        ELSE IF c \in CaseRun(sch) THEN WordEnd(sch, t, p)
        ELSE IF c \in Number THEN DigitsEnd(sch, t, p)
        ELSE IF Byte(t, p) # Newline /\ IsCat(t, n, CaseRun(sch)) THEN WordEnd(sch, t, n)
        ELSE IF c = "space" /\ ~afterSpace THEN O200kWs(t, p)
        ELSE BytesEnd(t, RunEnd(t, IF afterSpace THEN n ELSE p, Other), TailBytes(sch))

(***************************************************************************)
(* Whether the tail byte before s was swallowed by a punctuation token:    *)
(* the tail run is followed back at most TailWalk bytes; swallowing starts *)
(* at its first newline behind a punctuation character.                    *)
(***************************************************************************)
TailAbsorbed(sch, t, s) ==
    LET r == Min({q \in 0 .. s - 1 : \A k \in q .. s - 1 : Byte(t, k) \in TailBytes(sch)})
        led == Byte(t, r) = Newline /\ Before(t, r) \in Other
        triggers == {q \in r .. s - 1 : Byte(t, q) = Newline /\ \E k \in r .. q : Byte(t, k) = Slash}
    IN  IF s - 1 - r > TailWalk THEN "unknown"
        ELSE IF Byte(t, r) = Newline /\ Before(t, r) \in Contextual(sch) THEN "unknown"
        ELSE IF led \/ triggers # {} THEN "yes" ELSE "no"

(***************************************************************************)
(* The carries into bit 0: the category before the batch ("none" when a    *)
(* tail hides it), the first lead that sees punctuation or a space two     *)
(* characters back, and whether the front of the batch cannot be trusted.  *)
(***************************************************************************)
TailCarries(sch, t, s) ==
    LET a == TailAbsorbed(sch, t, s)
        none == [prev |-> "none", two |-> {}, force |-> a # "yes", tail |-> a = "yes"]
        back == PrevByte(t, s - 1)
    IN  IF a # "no" \/ (s >= 2 /\ ~Ascii(t, s - 2)) THEN none
        ELSE [prev |-> Before(t, s), force |-> FALSE, tail |-> FALSE,
              two |-> If(back = Space \/ Before(t, s - 1) \in Other, 0)]

CharCarries(sch, t, s) ==
    LET j == LeadOf(t, s - 1)
        slash == sch.slash /\ PrevByte(t, j) = Slash
        a == IF slash THEN TailAbsorbed(sch, t, j) ELSE "no"
        c == Before(t, j)
        han == sch.han /\ c \in HanCats
        os == IF slash THEN a = "no" ELSE PrevByte(t, j) = Space \/ (c \in Other /\ ~han)
    IN  [prev |-> Before(t, s), two |-> If(os, CharEnd(t, j) - s), tail |-> FALSE,
         force |-> a = "unknown" \/ c \in Contextual(sch)]

O200kCarries(sch, t, s) ==
    IF s = 0 THEN [prev |-> "none", two |-> {}, force |-> FALSE, tail |-> FALSE]
    ELSE IF Byte(t, s - 1) \in TailBytes(sch) THEN TailCarries(sch, t, s)
    ELSE CharCarries(sch, t, s)

(***************************************************************************)
(* The boundary algebra, part by part.  o is the punctuation no tail has   *)
(* swallowed, cr the carries.                                              *)
(***************************************************************************)
O200kLetters(sch, t, s, cr, o) ==
    LET l == OfCat(t, s, Letters(sch))
        u == OfCat(t, s, {"upper"})
        lead == Bits \ OfByte(t, s, {Cont})
        sp == OfByte(t, s, {Space})
        spaceBefore == cr.prev = "space" /\ PrevByte(t, s) = Space
        afterOS == Up(o \cup sp, 1) \cup If(cr.prev \in Other \/ spaceBefore, 0)
        twoBack == Up((afterOS \cap lead) \ (LeadsOf(t, s, 2) \cup LeadsOf(t, s, 3)), 1)
                   \cup Up(afterOS \cap LeadsOf(t, s, 2), 2)
                   \cup Up(afterOS \cap LeadsOf(t, s, 3), 3) \cup cr.two
        after(C) == Up(OfCat(t, s, C), 1) \cup If(cr.prev \in C, 0)
        afterBlank == Up(OfCat(t, s, White) \ OfByte(t, s, {Newline}), 1)
                      \cup If(cr.prev = "space" /\ PrevByte(t, s) # Newline, 0)
        afterPunct == Up(o, 1) \cup If(cr.prev \in Other, 0)
        fresh == l \ (after(Letters(sch)) \cup afterBlank \cup (afterPunct \ twoBack))
    IN  lead \cap (fresh \cup (u \cap after({"lower"})))

O200kPunct(t, s, cr, o) ==
    o \ (OfByte(t, s, {Cont}) \cup Up(o, 1) \cup If(cr.prev \in Other, 0)
         \cup Up(OfByte(t, s, {Space}), 1)
         \cup If(cr.prev = "space" /\ PrevByte(t, s) = Space, 0))

O200kBad(sch, t, s, cr) ==
    LET resid == Residual(t, s, FALSE) \cup If(sch.han /\ cr.prev = "hanNumber", 0)
        mk == OfCat(t, s, Contextual(sch)) \cup If(cr.prev \in Contextual(sch), 0)
        soft == Up(OfCat(t, s, Cased(sch)), 1) \cup If(cr.prev \in Cased(sch), 0)
        tails == OfByte(t, s, TailBytes(sch))
    IN  resid \cup Up(resid, 1) \cup Down(resid, 1)
        \cup UNION {Up(mk, k) : k \in 0 .. 4} \cup Down(mk, 1)
        \cup ((OfCat(t, s, {"upper"}) \ OfByte(t, s, {Cont})) \cap soft)
        \cup (IF cr.force THEN Up(SmearUp({0} \cap tails, tails), 1) \cup {0, 1} ELSE {})

(* Digit runs whose grouping the batch cannot see. *)
BadDigitsInside(sch, t, s, cr, bad) ==     \* a run from the batch before is not seen
    LET d == OfByte(t, s, {"1"})
        front == SmearUp(d \cap Up(bad, 1), d)
        back == {i \in d : \E j \in RunOf(d, i) : j >= i /\ j \in Down(bad, 1) \cup {W - 1}}
    IN  IF sch.digits = "one" THEN {} ELSE IF sch.digits = "three" THEN front ELSE front \cup back
BadDigits(sch, t, s, cr, bad) ==
    LET d == OfByte(t, s, {"1"})
        front == SmearUp(d \cap (Up(bad, 1) \cup If(cr.prev \in Number, 0)), d)
        seen == bad \cup front
        back == {i \in d : \E j \in RunOf(d, i) : j >= i /\ j \in Down(seen, 1) \cup {W - 1}}
    IN  CASE sch.digits = "one" -> {}
          [] sch.digits = "three" -> front
          [] OTHER -> front \cup back

(***************************************************************************)
(* The suffix contractions: an apostrophe behind a letter joins that       *)
(* letter's token, unless the letter may itself end a contraction.         *)
(***************************************************************************)
O200kContractions(t, s, afterLetter, boundary, bad) ==
    LET cand == (OfByte(t, s, {Quote}) \cap boundary \cap afterLetter) \ bad
        late == {i \in cand : i >= W - 3}
        seen == {i \in cand : i > 2 /\ i < W - 3}
        maybe(p) == \/ Byte(t, p - 2) = Quote /\ Suffix(t, p - 1, TRUE) = 1
                    \/ Byte(t, p - 3) = Quote /\ FoldedSuffix(t, p - 2) = 2
        width[i \in Bits] ==
            IF i \notin seen \/ width[i - 2] = 2 \/ width[i - 3] = 3 \/ maybe(s + i)
            THEN 0
            ELSE LET k == Suffix(t, s + i + 1, TRUE) IN IF k = 0 THEN 0 ELSE k + 1
        hit == {i \in seen : width[i] > 0}
        forced == {i + width[i] : i \in hit}
        defer == {i \in cand : i <= 2}
                 \cup {i \in seen \ forced : maybe(s + i) \/ ~Ascii(t, s + i + 1)}
        all == bad \cup defer \cup Up(defer, 1) \cup Up(defer, 2)
               \cup (IF late = {} THEN {} ELSE From(Min(late)))
        joined == UNION {i .. i + width[i] - 1 : i \in hit}
    IN  [usable |-> ((boundary \ joined) \cup forced) \ all, bad |-> all]

O200kAlgebra(sch, t, s) ==
    LET cr == O200kCarries(sch, t, s)
        o0 == OfCat(t, s, Other)
        nl == OfByte(t, s, {Newline})
        tails == OfByte(t, s, TailBytes(sch))
        seed == (nl \cap (Up(o0, 1) \cup If(cr.prev \in Other, 0)))
                \cup (IF cr.tail THEN {0} \cap tails ELSE {})
        absorbed == SmearUp(seed, tails)
        o == o0 \ absorbed
        ws == OfCat(t, s, White) \ absorbed
        bad0 == O200kBad(sch, t, s, cr)
        edgeNonWhite == (Ascii(t, s + W) \/ W - 1 \notin bad0) /\ NonWhiteAt(t, s + W)
        bad1 == bad0 \cup (IF W - 1 \in ws /\ ~edgeNonWhite THEN RunOf(ws, W - 1) ELSE {})
        bad == bad1 \cup BadDigits(sch, t, s, cr, bad1)
        d == OfByte(t, s, {"1"})
        digits == CASE sch.digits = "one" -> d
                    [] sch.digits = "three" -> Splits3(d)
                    [] OTHER -> Splits3Right(d)
        han == OfCat(t, s, {"han"})
        hanRuns == IF sch.han
                   THEN han \ (OfByte(t, s, {Cont}) \cup Up(han, 1) \cup If(cr.prev = "han", 0))
                   ELSE {}
        boundary == O200kLetters(sch, t, s, cr, o) \cup digits \cup O200kPunct(t, s, cr, o)
                    \cup Blanks(t, s, ws, bad, edgeNonWhite, cr.prev) \cup hanRuns
        afterLetter == Up(OfCat(t, s, Letters(sch)), 1) \cup If(cr.prev \in Letters(sch), 0)
    IN  IF ws = Bits /\ ~edgeNonWhite THEN NoMasks
        ELSE IF sch.suffix THEN O200kContractions(t, s, afterLetter, boundary, bad)
        ELSE [usable |-> boundary \ bad, bad |-> bad]

O200kMasks(sch, t, s) == IF Fits(t, s) THEN O200kAlgebra(sch, t, s) ELSE NoMasks
=============================================================================
