------------------------------ MODULE Patterns ------------------------------
(***************************************************************************)
(* What each scheme promises: the regular expression in the header of its  *)
(* file, as an ordered list of alternatives.  An alternative is the set of *)
(* positions it can end at when it starts at p, so that a greedy match is  *)
(* the largest and the token is the greedy match of the first alternative  *)
(* that matches at all.                                                    *)
(***************************************************************************)
EXTENDS PretokText
LOCAL INSTANCE FiniteSetsExt

FirstMatch(alts) ==
    LET i == Min({j \in DOMAIN alts : alts[j] # {}}) IN Max(alts[i])

(* C+ from a, and B* (bytes) from the ends E. *)
Runs(t, a, C) == {e \in a + 1 .. RunEnd(t, a, C) : CharAt(t, e)}
ThenBytes(t, E, B) == UNION {e .. BytesEnd(t, e, B) : e \in E}
(* Where a token's body may start: at p or after one optional character.   *)
AfterSpace(t, p) == {p} \cup (IF In(t, p, {Space}) THEN {p + 1} ELSE {})
AfterPrefix(t, p) ==
    {p} \cup (IF In(t, p, {Newline}) \/ IsCat(t, p, Letter \cup Number) THEN {}
              ELSE {CharEnd(t, p)})
(* \s+(?!\S) and \s+ *)
Blank(t, p) == {e \in Runs(t, p, White) : e = Len(t) \/ Cat(t, e) = "space"}
(* \s*[\r\n]+ *)
ThroughNewline(t, p) == {e \in p + 1 .. RunEnd(t, p, White) : Byte(t, e - 1) = Newline}
(* '(?:[sdmt]|ll|ve|re), and with (?i), where the long s is an s.          *)
Contraction(t, p) ==
    IF In(t, p, {Quote}) /\ Suffix(t, p + 1, FALSE) > 0
    THEN {p + 1 + Suffix(t, p + 1, FALSE)} ELSE {}
ContractionI(t, p) ==
    IF ~In(t, p, {Quote}) THEN {}
    ELSE IF In(t, p + 1, {"Ls"}) /\ In(t, p + 2, {Cont}) THEN {p + 3}
    ELSE IF Suffix(t, p + 1, TRUE) > 0 THEN {p + 1 + Suffix(t, p + 1, TRUE)} ELSE {}

R50kPattern(t, p) ==
    FirstMatch(<<Contraction(t, p),
                 UNION {Runs(t, a, Letter) : a \in AfterSpace(t, p)},
                 UNION {Runs(t, a, Number) : a \in AfterSpace(t, p)},
                 UNION {Runs(t, a, Other) : a \in AfterSpace(t, p)},
                 Blank(t, p), Runs(t, p, White)>>)

(* One number, or up to three. *)
Numbers(t, p, three) ==
    {e \in Runs(t, p, Number) : e <= IF three THEN RunEnd3(t, p, Number) ELSE CharEnd(t, p)}

(* cl100k, and with endFirst off and marks as letters the other three.     *)
FamilyPattern(word, three, endFirst, t, p) ==
    FirstMatch(<<ContractionI(t, p),
                 UNION {Runs(t, a, word) : a \in AfterPrefix(t, p)},
                 Numbers(t, p, three),
                 ThenBytes(t, UNION {Runs(t, a, Other \ word) : a \in AfterSpace(t, p)}, {Newline}),
                 {e \in Runs(t, p, White) : endFirst /\ e = Len(t)},
                 ThroughNewline(t, p), Blank(t, p), Runs(t, p, White)>>)

(***************************************************************************)
(* The o200k family.  P?U*L+S?: U* is greedy and gives back until L+ has a *)
(* character, so the match runs from the last place L+ can start.  The     *)
(* prefix is tried before its absence.                                     *)
(***************************************************************************)
Caseful(t, a, U, L) ==
    {RunEnd(t, m, L) : m \in {q \in {a} \cup Runs(t, a, U) : IsCat(t, q, L)}}
Upperful(t, a, U, L) == {RunEnd(t, e, L) : e \in Runs(t, a, U)}
ThenSuffix(t, suffix, E) ==
    IF E = {} THEN {}
    ELSE IF suffix /\ ContractionI(t, Max(E)) # {} THEN ContractionI(t, Max(E)) ELSE {Max(E)}
PrefixOnly(t, p) == IF AfterPrefix(t, p) = {p} \/ CharEnd(t, p) = Len(t) THEN {} ELSE {CharEnd(t, p)}
(* \p{N}{1,3}(?=(?:\p{N}{3})*(?!\p{N}))|\p{N}{1,2} *)
RightNumbers(t, p) ==
    {e \in Numbers(t, p, TRUE) :
        Cardinality({q \in e .. RunEnd(t, p, Number) - 1 : CharAt(t, q)}) % 3 = 0}

O200kPattern(suffix, digits, slash, han, t, p) ==
    LET hans == IF han THEN {"han", "hanNumber", "hanSymbol"} ELSE {}
        U == {"upper", "caseless", "mark", "han"} \ hans
        L == {"lower", "caseless", "mark", "han"} \ hans
        word(Alt(_, _, _, _)) ==
            LET with == UNION {Alt(t, a, U, L) : a \in PrefixOnly(t, p)}
            IN  ThenSuffix(t, suffix, IF with # {} THEN with ELSE Alt(t, p, U, L))
        tail == IF slash THEN {Newline, Slash} ELSE {Newline}
    IN  FirstMatch(<<Runs(t, p, hans), word(Caseful), word(Upperful),
                     CASE digits = "one" -> Numbers(t, p, FALSE)
                       [] digits = "three" -> Numbers(t, p, TRUE)
                       [] OTHER -> RightNumbers(t, p),
                     ThenBytes(t, UNION {Runs(t, a, Other) : a \in AfterSpace(t, p)}, tail),
                     ThroughNewline(t, p), Blank(t, p), Runs(t, p, White)>>)

(***************************************************************************)
(* DeepSeek's three splits.  The main pattern sees one piece at a time: the *)
(* text up to the next number or change of script.  Where no alternative   *)
(* matches, the piece runs on to the next position where one does.         *)
(***************************************************************************)
PieceEnd(t, p, cjk) ==
    Min({q \in p .. Len(t) :
            CharAt(t, q) /\ (IsCat(t, q, Number) \/ q = Len(t) \/ (Cat(t, q) \in cjk) # (Cat(t, p) \in cjk))})
DeepSeekMain(piece, p) ==
    LET letter == Letter \cup {"mark"}
        punct == {"other", "hanSymbol", "kanaPunct"}
        prefixes == IF In(piece, p, {Newline}) \/ IsCat(piece, p, Letter \cup punct) THEN {p}
                    ELSE {p, CharEnd(piece, p)}
    IN  <<IF In(piece, p, {"!", Quote, Slash})
          THEN {e \in p + 2 .. Len(piece) :
                  \A q \in p + 1 .. e - 1 : Ascii(piece, q) /\ Cat(piece, q) \in Letter}
          ELSE {},
          UNION {Runs(piece, a, letter) : a \in prefixes},
          ThenBytes(piece, UNION {Runs(piece, a, punct) : a \in AfterSpace(piece, p)}, {Newline}),
          ThroughNewline(piece, p), Blank(piece, p), Runs(piece, p, White)>>
DeepSeekPattern(cjk, t, p) ==
    LET piece == SubSeq(t, 1, PieceEnd(t, p, cjk))
        matches(q) == \E i \in 1 .. 6 : DeepSeekMain(piece, q)[i] # {}
    IN  IF IsCat(t, p, Number) THEN Max(Numbers(t, p, TRUE))
        ELSE IF matches(p) THEN FirstMatch(DeepSeekMain(piece, p))
        ELSE Min({q \in p + 1 .. Len(piece) : CharAt(t, q) /\ (q = Len(piece) \/ matches(q))})
=============================================================================
