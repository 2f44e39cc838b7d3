---------------------------- MODULE Cl100kFamily ----------------------------
(***************************************************************************)
(* The cl100k family (src/src/pretokenize/fast/cl100k_family.rs and the    *)
(* four schemes on it, cl100k.rs, olmo3.rs, qwen2.rs, qwen3_5.rs):         *)
(*   '(?i:[sdmt]|ll|ve|re)|[^\r\n\p{L}\p{N}]?\p{L}+|\p{N}{1,3} or \p{N}    *)
(*   | ?[^\s\p{L}\p{N}]+[\r\n]*|\s*[\r\n]+|\s+(?!\S)|\s+                   *)
(* A scheme is a record: whether digits group in threes, which categories  *)
(* make a word, and whether whitespace at the end of the text is one token *)
(* before the newline rule is asked.                                       *)
(***************************************************************************)
EXTENDS BatchClasses
LOCAL INSTANCE FiniteSetsExt

Cl100k == [digits3 |-> TRUE, word |-> Letter, endFirst |-> TRUE]
Olmo3 == [digits3 |-> TRUE, word |-> Letter, endFirst |-> FALSE]
Qwen2 == [digits3 |-> FALSE, word |-> Letter, endFirst |-> FALSE]
Qwen35 == [digits3 |-> FALSE, word |-> Letter \cup {"mark"}, endFirst |-> FALSE]

Punct(sch) == Other \ sch.word

(***************************************************************************)
(* The scalar advance.                                                     *)
(***************************************************************************)
FamilyWsToEnd(sch, t, p) ==      \* every scheme takes cl100k's order of the two rules
    LET e == RunEnd(t, p, White)
        newlines == {q \in p .. e - 1 : Byte(t, q) = Newline}
        last == LeadOf(t, e - 1)
    IN  IF e = Len(t) THEN e
        ELSE IF newlines # {} THEN Max(newlines) + 1
        ELSE IF last > p THEN last ELSE e
FamilyWs(sch, t, p) ==
    LET e == RunEnd(t, p, White)
        newlines == {q \in p .. e - 1 : Byte(t, q) = Newline}
        last == LeadOf(t, e - 1)
    IN  IF e = Len(t) /\ (sch.endFirst \/ newlines = {}) THEN e
        ELSE IF newlines # {} THEN Max(newlines) + 1
        ELSE IF last > p THEN last ELSE e

FamilyAdvance(sch, t, p) ==
    LET c == Cat(t, p)
        n == CharEnd(t, p)
        afterSpace == Byte(t, p) = Space /\ IsCat(t, n, Punct(sch))
    IN  IF c \in sch.word THEN RunEnd(t, p, sch.word)
        ELSE IF c \in Number THEN IF sch.digits3 THEN RunEnd3(t, p, Number) ELSE n
        ELSE IF Byte(t, p) = Quote /\ FoldedSuffix(t, n) > 0 THEN n + FoldedSuffix(t, n)
        ELSE IF Byte(t, p) # Newline /\ IsCat(t, n, sch.word) THEN RunEnd(t, n, sch.word)
        ELSE IF c = "space" /\ ~afterSpace THEN FamilyWs(sch, t, p)
        ELSE BytesEnd(t, RunEnd(t, IF afterSpace THEN n ELSE p, Punct(sch)), {Newline})

(***************************************************************************)
(* The carries into bit 0: what the character before the batch is, and     *)
(* where the first character after it sees punctuation or a space two      *)
(* characters back (a bit above 0 when the one before straddles in).       *)
(***************************************************************************)
TwoBackIn(sch, t, s) ==
    IF s = 0 THEN {}
    ELSE LET j == LeadOf(t, s - 1)
         IN  If(PrevByte(t, j) = Space \/ Before(t, j) \in Punct(sch), CharEnd(t, j) - s)

(* A letter starts a token unless it extends a word or takes its prefix.   *)
FamilyLetters(sch, t, s) ==
    LET l == OfCat(t, s, sch.word)
        o == OfCat(t, s, Punct(sch))
        sp == OfByte(t, s, {Space})
        prev == Before(t, s)
        afterOS == Up(o \cup sp, 1) \cup If(prev \in Punct(sch) \/ PrevByte(t, s) = Space, 0)
        single == Bits \ (OfByte(t, s, {Cont}) \cup LeadsOf(t, s, 2) \cup LeadsOf(t, s, 3))
        twoBack == Up(afterOS \cap single, 1) \cup Up(afterOS \cap LeadsOf(t, s, 2), 2)
                   \cup Up(afterOS \cap LeadsOf(t, s, 3), 3) \cup TwoBackIn(sch, t, s)
        afterWord == Up(l, 1) \cup If(prev \in sch.word, 0)
        afterBlank == Up(OfCat(t, s, White) \ OfByte(t, s, {Newline}), 1)
                      \cup If(prev = "space" /\ PrevByte(t, s) # Newline, 0)
        afterPunct == Up(o, 1) \cup If(prev \in Punct(sch), 0)
    IN  l \ (OfByte(t, s, {Cont}) \cup afterWord \cup afterBlank \cup (afterPunct \ twoBack))

FamilyPunct(sch, t, s) ==
    LET o == OfCat(t, s, Punct(sch))
        prev == Before(t, s)
    IN  o \ (OfByte(t, s, {Cont}) \cup Up(o, 1) \cup If(prev \in Punct(sch), 0)
             \cup Up(OfByte(t, s, {Space}), 1) \cup If(PrevByte(t, s) = Space, 0))

(* The newlines a punctuation token swallows. *)
Absorbed(sch, t, s) ==
    LET n == OfByte(t, s, {Newline})
        o == OfCat(t, s, Punct(sch))
    IN  SmearUp(n \cap (Up(o, 1) \cup If(Before(t, s) \in Punct(sch), 0)), n)

(* The contraction fixup; an apostrophe before a non-ASCII byte defers. *)
FamilyContractions(t, s, boundary, bad) ==
    LET cand == (OfByte(t, s, {Quote}) \cap boundary) \ bad
        late == {i \in cand : i >= W - 3}
        seen == {i \in cand : i < W - 3}
        wide == {i \in seen : ~Ascii(t, s + i + 1)}
        k(i) == Suffix(t, s + i + 1, TRUE)
        hit == {i \in seen \ wide : k(i) > 0}
        all == bad \cup (IF late = {} THEN {} ELSE From(Min(late)))
               \cup wide \cup Up(wide, 1) \cup Up(wide, 2)
    IN  [usable |-> ((boundary \ Up(hit, 1)) \cup {i + 1 + k(i) : i \in hit}) \ all,
         bad |-> all]

FamilyAlgebra(sch, t, s) ==
    LET digits == OfByte(t, s, {"1"})
        absorbed == Absorbed(sch, t, s)
        ws == OfCat(t, s, White) \ absorbed
        resid == Residual(t, s, FALSE)
        bad0 == resid \cup Up(resid, 1) \cup Down(resid, 1)
        edgeNonWhite == (Ascii(t, s + W) \/ W - 1 \notin bad0) /\ NonWhiteAt(t, s + W)
        bad1 == bad0 \cup (IF edgeNonWhite THEN {}
                           ELSE (absorbed \cap {W - 1})
                                \cup (IF W - 1 \in ws THEN RunOf(ws, W - 1) ELSE {}))
        seed == digits \cap (Up(bad1, 1) \cup If(Before(t, s) \in Number, 0))
        bad == bad1 \cup (IF sch.digits3 THEN SmearUp(seed, digits) ELSE {})
        numbers == IF sch.digits3 THEN Splits3(digits) ELSE digits
        boundary == FamilyLetters(sch, t, s) \cup numbers \cup FamilyPunct(sch, t, s)
                    \cup Blanks(t, s, ws, bad, edgeNonWhite, Before(t, s))
    IN  IF ws = Bits /\ ~edgeNonWhite THEN NoMasks
        ELSE FamilyContractions(t, s, boundary, bad)

FamilyMasks(sch, t, s) == IF Fits(t, s) THEN FamilyAlgebra(sch, t, s) ELSE NoMasks

(***************************************************************************)
(* The four schemes.                                                       *)
(***************************************************************************)
Cl100kAdvance(t, p) == FamilyAdvance(Cl100k, t, p)
Cl100kWs(t, p) == FamilyWs(Cl100k, t, p)
Olmo3Advance(t, p) == FamilyAdvance(Olmo3, t, p)
Qwen2Advance(t, p) == FamilyAdvance(Qwen2, t, p)
Qwen35Advance(t, p) == FamilyAdvance(Qwen35, t, p)
=============================================================================
