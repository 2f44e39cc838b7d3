----------------------------- MODULE MCMaskScan -----------------------------
(***************************************************************************)
(* The schemes and the batch walker over texts as the schemes see them:    *)
(* every text of a length over a small alphabet, chosen so that            *)
(* whitespace, digits, contractions, marks and wide characters cross the   *)
(* batch edges.  The scalar advance is compared with the scheme's pattern  *)
(* and the masks with the contract on all of them; some are walked.        *)
(***************************************************************************)
EXTENDS MaskScan, Schemes

VARIABLES scheme, chars, walked
mcVars == <<vars, scheme, chars, walked>>

(* The last character may be cut off. *)
RECURSIVE Strings(_, _)
Strings(A, k) ==
    IF k = 0 THEN {<<>>}
    ELSE UNION {LET wide == IF ByteLen(b) < k THEN ByteLen(b) ELSE k
                    char == [i \in 1 .. wide |-> IF i = 1 THEN b ELSE Cont]
                IN  {char \o t : t \in Strings(A, k - wide)} : b \in A}

(* <<schemes, characters, length in bytes>> *)
Walks ==
    {<<{"cl100k"}, {"1", "a"}, 9>>, <<{"cl100k"}, {"Zs3", Newline, "So"}, 12>>,
     <<{"r50k"}, {Quote, "s"}, 9>>, <<{"o200k"}, {"Mn", "A"}, 12>>,
     <<{"qwen2"}, {"Zs3", Space}, 15>>, <<{"qwen2"}, {"Zs3", "1"}, 11>>}
Samples ==
    {<<{"r50k"}, {Quote, "s", "l"}, 6>>, <<{"r50k"}, {Quote, "s"}, 10>>,
     <<{"r50k"}, {"a", Space}, 10>>, <<{"r50k"}, {"Zs3", "So", Space}, 11>>,
     <<{"cl100k", "olmo3", "qwen2"}, {"1", "a", Space}, 6>>,
     <<{"cl100k", "olmo3", "qwen2"}, {Newline, Space}, 9>>,
     <<{"cl100k", "qwen35"}, {"!", Newline}, 10>>,
     <<{"cl100k"}, {"1", "a"}, 10>>, <<{"cl100k"}, {"Zs3", Newline, "Nd"}, 11>>,
     <<{"qwen35"}, {"Mn", Space, "!"}, 8>>, <<{"olmo3"}, {Quote, "S", "Ls"}, 8>>,
     <<{"o200k"}, {"A", "a", "Lo"}, 7>>, <<{"o200k", "kimi"}, {"Mn", "!", "A"}, 8>>,
     <<{"o200k", "kimi"}, {"!", "/", Newline}, 6>>, <<{"o200k"}, {"/", Newline}, 10>>,
     <<{"o200k"}, {Quote, "s", "a"}, 7>>, <<{"nemotron"}, {Newline, Space, "a"}, 7>>,
     <<{"o200k", "nemotronRight"}, {"1", "a"}, 11>>, <<{"kimi"}, {"Han", "HanN", "HanS", "A"}, 11>>,
     <<{"deepseek"}, {"Kp", "Ku", "Han", "Mn", "ctl"}, 7>>,
     <<{"deepseek"}, {"!", "a", Space, "1"}, 6>>, <<{"deepseek"}, {Newline, Space, "Han"}, 7>>}

(* Spec with these views as Texts: computed here, which TLC does faster    *)
(* than in the constant.                                                   *)
NoTexts == {}
MCInit ==
    /\ \E s \in Walks \cup Samples :
          /\ walked = (s \in Walks)
          /\ scheme \in s[1]
          /\ chars \in Strings(s[2], s[3])
    /\ text = View(scheme, chars) /\ Start
MCNext ==
    \/ walked /\ Next /\ UNCHANGED <<scheme, chars, walked>>
    \/ ~walked /\ UNCHANGED mcVars
MCSpec == MCInit /\ [][MCNext]_mcVars /\ WF_mcVars(mode # "idle" /\ MCNext)

(* At every token start the scalar advance ends the token where the        *)
(* pattern in the header of the scheme's file does.                        *)
TokensFollowPattern ==
    spans = <<>> => \A p \in text.starts \ {len} : text.next[p] = Pattern(scheme, chars, p)

(* The masks of a batch are right wherever the walker may trust them.      *)
MasksTrusted == spans = <<>> => MaskContract(text)
=============================================================================
