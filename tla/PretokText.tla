----------------------------- MODULE PretokText -----------------------------
(***************************************************************************)
(* The text the pretokenizers walk (src/src/pretokenize/fast/mod.rs,       *)
(* src/src/pretokenize/unicode.rs).  A text is a sequence of bytes and     *)
(* positions count from 0 as in the code, so the byte at p is t[p + 1].  A *)
(* byte is a name: an ASCII byte stands for itself (or for its kind: "a"   *)
(* is any letter that no contraction uses, "!" any other punctuation), a   *)
(* non-ASCII character is a lead byte named after its Unicode category     *)
(* followed by the continuation bytes its length asks for.  A lead may     *)
(* lack them only at the end of the text, the one malformed input the code *)
(* gives a meaning of its own.                                             *)
(***************************************************************************)
EXTENDS Integers, Sequences
LOCAL INSTANCE FiniteSetsExt

Space == " "
Newline == "nl"          \* \n and \r
Tab == "tab"             \* the other ASCII whitespace
Quote == "'"
Slash == "/"
Cont == ".."             \* a continuation byte

(***************************************************************************)
(* Categories.  The four classes of the plain classifier (class_of) are    *)
(* unions of the finer ones that o200k (case, marks), Qwen 3.5 (marks),    *)
(* Kimi (Han) and DeepSeek (controls, the CJK range) tell apart.           *)
(***************************************************************************)
Categories ==
    [lower |-> {"a", "s", "l", "v", "e", "r", "Ll", "Ls"},    \* Ls: the long s
     upper |-> {"A", "S", "Lu"},
     caseless |-> {"Lo"},
     mark |-> {"Mn"},
     number |-> {"1", "Nd"},
     space |-> {Space, Newline, Tab, "Zs", "Zs3"},
     han |-> {"Han"}, hanNumber |-> {"HanN"}, hanSymbol |-> {"HanS"},
     kanaPunct |-> {"Kp"}, kanaGap |-> {"Ku"},   \* in DeepSeek's CJK range, but no letter
     control |-> {"ctl"},
     other |-> {"!", Quote, Slash, Cont, "So"}]

Category(b) == CHOOSE c \in DOMAIN Categories : b \in Categories[c]
Leads == {"Ll", "Ls", "Lu", "Lo", "Mn", "Nd", "Zs", "Zs3", "So", "Han", "HanN", "HanS", "Kp", "Ku"}
ByteLen(b) == IF b \in {"Zs3", "Han", "HanN", "HanS", "Kp", "Ku"} THEN 3
              ELSE IF b \in Leads THEN 2 ELSE 1

Letter == {"lower", "upper", "caseless", "han"}
Number == {"number", "hanNumber"}
White == {"space"}
Other == {"other", "mark", "hanSymbol", "kanaPunct", "kanaGap", "control"}
ClassOf(c) == CHOOSE C \in {Letter, Number, White, Other} : c \in C

(***************************************************************************)
(* Decoding at p.  A sequence the end of the text cuts off is one          *)
(* character of the class Other that takes what is left.                   *)
(***************************************************************************)
Byte(t, p) == t[p + 1]
In(t, p, B) == p < Len(t) /\ Byte(t, p) \in B
Ascii(t, p) == Byte(t, p) \notin Leads \cup {Cont}
Cut(t, p) == p + ByteLen(Byte(t, p)) > Len(t)
CharEnd(t, p) == IF Cut(t, p) THEN Len(t) ELSE p + ByteLen(Byte(t, p))
Cat(t, p) == IF Cut(t, p) THEN "control" ELSE Category(Byte(t, p))
IsCat(t, p, C) == p < Len(t) /\ Cat(t, p) \in C
CharAt(t, p) == p = Len(t) \/ Byte(t, p) # Cont
(* The lead of the character that holds byte p. *)
LeadOf(t, p) == Max({q \in 0 .. p : CharAt(t, q)})

(***************************************************************************)
(* Run scans: the end of the longest run of characters of C from p, at     *)
(* most one such character, and a run of at most three.                    *)
(***************************************************************************)
RunEnd(t, p, C) == Min({q \in p .. Len(t) : CharAt(t, q) /\ ~IsCat(t, q, C)})
Skip(t, p, C) == IF IsCat(t, p, C) THEN CharEnd(t, p) ELSE p
RunEnd3(t, p, C) == Skip(t, Skip(t, Skip(t, p, C), C), C)
BytesEnd(t, p, B) == Min({q \in p .. Len(t) : ~In(t, q, B)})

(***************************************************************************)
(* The contraction after an apostrophe at q - 1: "s" stands for s, d, m    *)
(* and t, the others for ll, ve and re.  Its length, 0 if there is none;   *)
(* the patterns other than r50k fold case.                                 *)
(***************************************************************************)
TwoLetters == {<<"l", "l">>, <<"v", "e">>, <<"r", "e">>}
Suffix(t, q, fold) ==
    LET at(p) == IF p >= Len(t) THEN Space
                 ELSE IF fold /\ Byte(t, p) = "S" THEN "s" ELSE Byte(t, p)
    IN  IF at(q) = "s" THEN 1
        ELSE IF <<at(q), at(q + 1)>> \in TwoLetters THEN 2 ELSE 0
(* The long s (two bytes) folds to an s. *)
FoldedSuffix(t, q) == IF In(t, q, {"Ls"}) /\ ~Cut(t, q) THEN 2 ELSE Suffix(t, q, TRUE)
=============================================================================
