------------------------------ MODULE Schemes ------------------------------
(***************************************************************************)
(* The pretokenizers by name (PretokenizerType in                          *)
(* src/src/pretokenize/options.rs): for each its scalar advance, its       *)
(* batch masks and the split pattern it is chosen for.  DeepSeek-V3, which *)
(* has no masks, is defined here; the others have modules of their own.    *)
(***************************************************************************)
EXTENDS R50k, Cl100kFamily, O200kFamily, Patterns, TextMasks
LOCAL INSTANCE FiniteSetsExt

(***************************************************************************)
(* The DeepSeek-V3 scheme (src/src/pretokenize/fast/deepseek_v3.rs): three *)
(* splits, one inside the pieces of the other, done in one scalar walk.    *)
(* Numbers go first, \p{N}{1,3}; then runs of the CJK range; what is left  *)
(* on either side of those goes through                                    *)
(*   [ascii punct][A-Za-z]+|[^\r\n\p{L}\p{P}\p{S}]?[\p{L}\p{M}]+           *)
(*   | ?[\p{P}\p{S}]+[\r\n]*|\s*[\r\n]+|\s+(?!\S)|\s+                      *)
(* and what that leaves unmatched stays a piece of its own.                *)
(***************************************************************************)

(* The region is cjk or main; a run never leaves the one it started in.    *)
Cjk == {"han", "kanaPunct", "kanaGap"}
InRegion(C, cjk) == IF cjk THEN C \cap Cjk ELSE C \ Cjk
LetterMark(cjk) == InRegion(Letter \cup {"mark"}, cjk)
PunctSym(cjk) == InRegion({"other", "hanSymbol", "kanaPunct"}, cjk)
Gap(cjk) == InRegion({"control", "kanaGap"}, cjk)
AsciiLetter == UNION {{"a", "s", "l", "v", "e", "r"}, {"A", "S"}}
AsciiPunct == {"!", Quote, Slash}

LmEndAt(t, p, cjk) == IsCat(t, p, LetterMark(cjk))
ScanLm(t, p, cjk) == RunEnd(t, p, LetterMark(cjk))
ScanPs(t, p, cjk) == RunEnd(t, p, PunctSym(cjk))

(* A gap ends where the next character would be the prefix of a word.      *)
ScanGap(t, p, cjk) ==
    Min({q \in CharEnd(t, p) .. Len(t) :
            /\ CharAt(t, q)
            /\ IsCat(t, q, Gap(cjk)) => LmEndAt(t, CharEnd(t, q), cjk)})

DeepSeekWs(t, p) ==
    LET e == RunEnd(t, p, White)
        newlines == {q \in p .. e - 1 : Byte(t, q) = Newline}
        last == LeadOf(t, e - 1)
    IN  IF newlines # {} THEN Max(newlines) + 1
        ELSE IF e = Len(t) \/ IsCat(t, e, Number \cup Cjk) THEN e     \* end of the piece
        ELSE IF last > p THEN last ELSE e

AdvanceMain(t, p) ==
    LET c == Cat(t, p)
        n == CharEnd(t, p)
        afterSpace == Byte(t, p) = Space /\ IsCat(t, n, PunctSym(FALSE))
        prefix == c \in White \cup Gap(FALSE) /\ Byte(t, p) # Newline
    IN  IF c \in LetterMark(FALSE) THEN ScanLm(t, p, FALSE)
        ELSE IF prefix /\ LmEndAt(t, n, FALSE) THEN ScanLm(t, n, FALSE)
        ELSE IF Byte(t, p) \in AsciiPunct /\ In(t, n, AsciiLetter)
             THEN BytesEnd(t, n, AsciiLetter)
        ELSE IF afterSpace \/ c \in PunctSym(FALSE)
             THEN BytesEnd(t, ScanPs(t, IF afterSpace THEN n ELSE p, FALSE), {Newline})
        ELSE IF c = "space" THEN DeepSeekWs(t, p)
        ELSE ScanGap(t, p, FALSE)

AdvanceCjk(t, p) ==
    LET c == Cat(t, p)
        n == CharEnd(t, p)
    IN  IF c \in LetterMark(TRUE) THEN ScanLm(t, p, TRUE)
        ELSE IF c \in PunctSym(TRUE) THEN ScanPs(t, p, TRUE)
        ELSE IF LmEndAt(t, n, TRUE) THEN ScanLm(t, n, TRUE)
        ELSE ScanGap(t, p, TRUE)

DeepSeekAdvance(t, p) ==
    IF IsCat(t, p, Number) THEN RunEnd3(t, p, Number)
    ELSE IF IsCat(t, p, Cjk) THEN AdvanceCjk(t, p)
    ELSE AdvanceMain(t, p)

-----------------------------------------------------------------------------
(* All ten. *)

Family == [cl100k |-> Cl100k, olmo3 |-> Olmo3, qwen2 |-> Qwen2, qwen35 |-> Qwen35]
O200ks == [o200k |-> O200k, nemotron |-> Nemotron, nemotronRight |-> NemotronRight, kimi |-> Kimi]

Advance(scheme, t, p) ==
    CASE scheme = "r50k" -> R50kAdvance(t, p)
      [] scheme = "deepseek" -> DeepSeekAdvance(t, p)
      [] scheme \in DOMAIN Family -> FamilyAdvance(Family[scheme], t, p)
      [] OTHER -> O200kAdvance(O200ks[scheme], t, p)

(* DeepSeek has no masks: it is all scalar. *)
Masks(scheme, t, s) ==
    CASE scheme = "r50k" -> R50kMasks(t, s)
      [] scheme = "deepseek" -> NoMasks
      [] scheme \in DOMAIN Family -> FamilyMasks(Family[scheme], t, s)
      [] OTHER -> O200kMasks(O200ks[scheme], t, s)

Pattern(scheme, t, p) ==
    CASE scheme = "r50k" -> R50kPattern(t, p)
      [] scheme = "deepseek" -> DeepSeekPattern(Cjk, t, p)
      [] scheme \in DOMAIN Family ->
            LET sch == Family[scheme] IN FamilyPattern(sch.word, sch.digits3, sch.endFirst, t, p)
      [] OTHER -> LET sch == O200ks[scheme]
                  IN  O200kPattern(sch.suffix, sch.digits, sch.slash, sch.han, t, p)

(* A text of TextMasks from what a scheme computes: next, the end of the token at
   each position, and masks, the masks of each batch. *)
Scanned(len, next, masks) ==
    LET walk[p \in 0 .. len] == IF p = len THEN {p} ELSE {p} \cup walk[next[p]]
        starts == walk[0]
        below(s) == Max({p \in starts : p < s})
        entry[s \in Bases(len)] ==
            IF s = 0 THEN 0
            ELSE IF entry[s - W] >= s \/ \E k \in masks[s - W].bad : s - W + k >= below(s)
                 THEN Min({p \in starts : p >= s}) ELSE below(s)
    IN  [len |-> len, next |-> next, starts |-> starts, entry |-> entry,
         usable |-> [s \in Bases(len) |-> masks[s].usable],
         bad |-> [s \in Bases(len) |-> masks[s].bad]]

(* The text as the walker sees it; the scheme is asked at characters only. *)
View(scheme, t) ==
    Scanned(Len(t),
            [p \in 0 .. Len(t) - 1 |-> IF Byte(t, p) = Cont THEN Len(t) ELSE Advance(scheme, t, p)],
            [s \in Bases(Len(t)) |-> Masks(scheme, t, s)])
=============================================================================
