------------------------------- MODULE SpSplit ------------------------------
(***************************************************************************)
(* How src/src/bpe/sentencepiece.rs takes a text apart: added tokens out   *)
(* of the text, the sections between them into units, and an oversized     *)
(* text into fragments (safe_fragment_ranges).  A character is a letter,   *)
(* one of the split punctuation, the space, another blank or the mark that *)
(* stands for a space in the vocabulary; every character has a piece of    *)
(* its own, and a token is its piece.                                      *)
(*                                                                         *)
(* A model is [merges, pieces, norm, metaspace, split]: pairs of pieces in *)
(* rank order, the pieces that nothing merges into, the normalizer         *)
(* ("none", "replace", "prepend" or "strip", the last three with the       *)
(* space replaced by the mark), the Metaspace prepend scheme ("absent",    *)
(* "never", "always" or "first") and its split flag.                       *)
(***************************************************************************)
EXTENDS SafeSplit, SequencesExt

CONSTANTS
    Mark,           \* U+2581
    Blanks,         \* whitespace: the space, and others
    SplitPuncts,    \* split_bytes
    MaxCrossPieces  \* MAX_CROSS_PIECES

ASSUME MarksAssumption ==
    /\ Space \in Blanks /\ Mark \notin Blanks \cup SplitPuncts /\ MaxCrossPieces \in Nat

Marked(s) == [k \in DOMAIN s |-> IF s[k] = Space THEN Mark ELSE s[k]]
IsMark(c, raw) == c = Mark \/ (raw /\ c = Space)

(* bpe_merge_symbols_ranked: of the pairs that merge, the one of lowest rank and of
   several the leftmost, until none is left. *)
Merge(m, symbols) ==
    LET ranks(w) ==
            {r \in DOMAIN m.merges : \E k \in 1..(Len(w) - 1) : m.merges[r] = <<w[k], w[k + 1]>>}
        mergeOne(w) ==
            IF ranks(w) = {} THEN w
            ELSE LET pair == m.merges[Min(ranks(w))]
                     k == Min({j \in 1..(Len(w) - 1) : <<w[j], w[j + 1]>> = pair})
                 IN  SubSeq(w, 1, k - 1) \o <<pair[1] \o pair[2]>> \o SubSeq(w, k + 2, Len(w))
    IN  FoldLeft(LAMBDA w, c : mergeOne(w), symbols, symbols)

(* init_symbols. *)
Symbols(text, raw) == LET s == IF raw THEN Marked(text) ELSE text IN [k \in DOMAIN s |-> <<s[k]>>]
-----------------------------------------------------------------------------
(* finalize_speed_paths: what the vocabulary allows. *)
Vocab(m) == m.pieces \cup {p[1] \o p[2] : p \in ToSet(m.merges)}

(* A mark behind something else: the piece spans two units. *)
Interior(p) == {k \in 2..Len(p) : p[k] = Mark /\ p[k - 1] # Mark}
Crossings(m) ==
    UNION {{<<SubSeq(p, 1, k - 1), SubSeq(p, k + 1, Len(p))>> : k \in Interior(p)} : p \in Vocab(m)}
TooComplex(m) ==
    \/ Cardinality(Crossings(m)) > MaxCrossPieces
    \/ \E x \in Crossings(m) : {Mark, Space} \cap (ToSet(x[1]) \cup ToSet(x[2])) # {}

WordSplit(m) ==
    IF m.metaspace # "absent" /\ m.split THEN "EveryMark"
    ELSE IF TooComplex(m) THEN "None" ELSE "SpaceRuns"

(* compute_raw_prepend; "Ineligible" is Rust's None. *)
RawPrepend(m) ==
    LET fromMetaspace == CASE m.metaspace \in {"absent", "never"} -> "Never"
                           [] m.metaspace = "always" -> "GuardedAlways"
                           [] m.metaspace = "first" -> "GuardedFirst"
    IN  CASE WordSplit(m) = "None" -> "Ineligible"
          [] m.norm = "prepend" /\ WordSplit(m) # "EveryMark" -> "Unguarded"
          [] m.norm = "replace" \/ (m.norm = "none" /\ m.metaspace # "absent") -> fromMetaspace
          [] OTHER -> "Ineligible"

SupportsFragmentSplit(m) == RawPrepend(m) # "Ineligible"

(* piece_spans_boundary: a crossing piece occurs around the mark at k. *)
PieceSpansBoundary(m, text, k) ==
    /\ WordSplit(m) = "SpaceRuns"
    /\ \E x \in Crossings(m) :
          /\ IsSuffix(x[1], SubSeq(text, 1, k - 1))
          /\ IsPrefix(x[2], SubSeq(text, k + 1, Len(text)))

(* split_safe: no piece holds the two characters next to one another. *)
SplitSafe(m, x, y) == \A p \in Vocab(m) : \A k \in 1..(Len(p) - 1) : <<p[k], p[k + 1]>> # <<x, y>>

(* Bug: the predecessor is looked at as it is in the text, a space as a space. *)
UnitStartRawSpace(m, text, raw, k) ==
    IF IsMark(text[k], raw)
    THEN /\ WordSplit(m) = "EveryMark" \/ ~IsMark(text[k - 1], raw)
         /\ ~PieceSpansBoundary(m, text, k)
    ELSE text[k] \in SplitPuncts /\ SplitSafe(m, text[k - 1], text[k])

(* encode_units_impl: where units start. *)
UnitStart(m, text, raw, k) ==
    IF IsMark(text[k], raw)
    THEN /\ WordSplit(m) = "EveryMark" \/ ~IsMark(text[k - 1], raw)
         /\ ~PieceSpansBoundary(m, text, k)
    ELSE /\ text[k] \in SplitPuncts
         /\ SplitSafe(m, IF raw THEN Marked(text)[k - 1] ELSE text[k - 1], text[k])

Units(m, text, raw) ==
    LET cuts == {1} \cup {k \in 2..Len(text) : UnitStart(m, text, raw, k)}
        from == SetToSortSeq(cuts, <)
        to(n) == IF n = Len(from) THEN Len(text) ELSE from[n + 1] - 1
    IN  IF text = <<>> THEN <<>> ELSE [n \in DOMAIN from |-> SubSeq(text, from[n], to(n))]

(* encode_units and encode_unit; the dummy prefix is a space in front of the first unit. *)
EncodeUnits(m, text, prefixed, raw) ==
    LET units == Units(m, text, raw)
        key(n) == IF n = 1 /\ prefixed THEN <<Mark>> \o units[n] ELSE units[n]
    IN  FlattenSeq([n \in DOMAIN units |-> Merge(m, Symbols(key(n), raw))])
-----------------------------------------------------------------------------
(* Trimming of blanks: the first is what is left in front of the text from..to, the
   second where the text from `from` on starts. *)
TrimmedEnd(text, from, to) == Max({from} \cup {e \in (from + 1)..to : text[e] \notin Blanks})
TrimmedStart(text, from) ==
    Min({Len(text)} \cup {s \in from..(Len(text) - 1) : text[s + 1] \notin Blanks})
Stripped(text) ==
    LET from == TrimmedStart(text, 0) IN Slice(text, from, TrimmedEnd(text, from, Len(text)))

(* apply_norm_ops, then apply_metaspace: the whole section, materialized. *)
ApplyNormOps(m, text) ==
    CASE m.norm = "none" -> text
      [] m.norm = "replace" -> Marked(text)
      [] m.norm = "prepend" -> IF text = <<>> THEN text ELSE <<Mark>> \o Marked(text)
      [] m.norm = "strip" -> Marked(Stripped(text))
ApplyMetaspace(m, text, first) ==
    IF m.metaspace = "absent" THEN text
    ELSE LET s == Marked(text)
             prepend == m.metaspace = "always" \/ (m.metaspace = "first" /\ first)
         IN  IF prepend /\ s # <<>> /\ s[1] # Mark THEN <<Mark>> \o s ELSE s
Normalize(m, text, first) == ApplyMetaspace(m, ApplyNormOps(m, text), first)

(* encode_chunk_raw. *)
VirtualPrefix(m, text, pos) ==
    /\ pos # "Continuation"
    /\ \/ RawPrepend(m) = "Unguarded"
       \/ RawPrepend(m) = "GuardedAlways" /\ ~IsMark(text[1], TRUE)
       \/ RawPrepend(m) = "GuardedFirst" /\ pos = "First" /\ ~IsMark(text[1], TRUE)

(* encode_section_cb: raw when it can, else normalized first. *)
EncodeSection(m, text, pos) ==
    IF text = <<>> THEN <<>>
    ELSE IF SupportsFragmentSplit(m)
    THEN EncodeUnits(m, text, VirtualPrefix(m, text, pos), TRUE)
    ELSE LET final == Normalize(m, text, pos = "First")
         IN  IF WordSplit(m) = "None" THEN Merge(m, Symbols(final, FALSE))
             ELSE EncodeUnits(m, final, FALSE, FALSE)

(* What a section means: merge the normalized text as a whole, or, where Metaspace
   splits, between its marks. *)
MeansSection(m, text, pos) ==
    LET final == Normalize(m, text, pos = "First")
        from == SetToSortSeq({1} \cup {k \in 2..Len(final) : final[k] = Mark}, <)
        to(n) == IF n = Len(from) THEN Len(final) ELSE from[n + 1] - 1
    IN  IF WordSplit(m) = "EveryMark" /\ final # <<>>
        THEN FlattenSeq([n \in DOMAIN from |-> Merge(m, Symbols(SubSeq(final, from[n], to(n)), FALSE))])
        ELSE Merge(m, Symbols(final, FALSE))
-----------------------------------------------------------------------------
(* The automaton's matches: leftmost-longest, each behind the one before. *)
Matches(text, tokens) ==
    LET from[p \in 0..Len(text)] ==
            IF Occurrences(text, tokens, p) = {} THEN <<>>
            ELSE LET f == Found(text, tokens, p) IN <<f>> \o from[f.at + Len(f.token.text)]
    IN  from[0]

(* An added token among the pieces. *)
Added(t) == <<"added">> \o t.text

(* encode_raw_from: each section with its position and the added token that ends it. *)
RawSections(text, tokens, start) ==
    LET section(acc, to, next) ==
            Append(acc.out, [text |-> Slice(text, acc.from, to), pos |-> acc.pos, added |-> next])
        take(acc, f) ==
            LET end == f.at + Len(f.token.text)
                to == IF f.token.lstrip THEN TrimmedEnd(text, acc.from, f.at) ELSE f.at
            IN  IF f.at < acc.from THEN acc
                ELSE [out |-> section(acc, to, <<Added(f.token)>>),
                      from |-> IF f.token.rstrip THEN TrimmedStart(text, end) ELSE end,
                      pos |-> "Middle"]
        last == FoldLeft(take, [out |-> <<>>, from |-> 0, pos |-> start], Matches(text, tokens))
    IN  section(last, Len(text), <<>>)

(* encode_raw_fragment_cb, and what it stands for. *)
SpEncode(m, text, tokens, start) ==
    LET sections == RawSections(text, tokens, start)
    IN  FlattenSeq([n \in DOMAIN sections |->
            EncodeSection(m, sections[n].text, sections[n].pos) \o sections[n].added])
SpMeans(m, text, tokens) ==
    LET sections == RawSections(text, tokens, "First")
    IN  FlattenSeq([n \in DOMAIN sections |->
            MeansSection(m, sections[n].text, sections[n].pos) \o sections[n].added])

(* added_token_cut_blocks: no cut inside an occurrence, at its end when the text
   behind it gets a prefix, or in the blanks it trims. *)
CutBlocked(m, text, tokens, p) ==
    \E t \in tokens : \E s \in Hits(text, t.text, 0, Len(text)) :
        LET e == s + Len(t.text)
        IN  /\ {Space, Mark} \cap ToSet(t.text) # {} \/ RawPrepend(m) = "Unguarded"
                  \/ t.lstrip \/ t.rstrip
            /\ (IF t.lstrip THEN TrimmedEnd(text, 0, s) ELSE s + 1) <= p
            /\ p <= IF t.rstrip THEN TrimmedStart(text, e)
                    ELSE IF RawPrepend(m) = "Unguarded" THEN e ELSE e - 1

FragmentCut(m, text, tokens, p) ==
    /\ IsMark(text[p + 1], TRUE)
    /\ WordSplit(m) = "EveryMark" \/ ~IsMark(text[p], TRUE)
    /\ ~PieceSpansBoundary(m, text, p + 1)
    /\ ~CutBlocked(m, text, tokens, p)

(* safe_fragment_ranges. *)
SafeFragmentRanges(m, text, tokens, target) ==
    RangesAt(Len(text), target, {p \in target..(Len(text) - 1) : FragmentCut(m, text, tokens, p)})
=============================================================================
