------------------------------ MODULE SafeSplit -----------------------------
(***************************************************************************)
(* safe_split_ranges of src/src/pretokenize/mod.rs cuts an oversized text  *)
(* into ranges that different workers encode, and for_each_piece of        *)
(* src/src/bpe/tiktoken.rs, which each of them runs, takes the added       *)
(* tokens out of its range.  A byte is a letter, a digit, a space or       *)
(* something else; what BPE makes of the bytes between two added tokens is *)
(* left out, so those bytes stand for themselves.  An added token is       *)
(* [text, lstrip, rstrip].                                                 *)
(***************************************************************************)
EXTENDS ByteSearch

CONSTANTS
    Space,     \* the space
    Letters,   \* ASCII letters
    Digits     \* ASCII digits

ASSUME BytesAssumption == Space \notin Letters \cup Digits

(* Finder::find_iter: occurrences from the left that do not overlap the one
   found before them. *)
FindIter(bytes, needle, lo, hi) ==
    LET hits == Hits(bytes, needle, lo, hi)
        taken[p \in lo..hi] ==
            p \in hits /\ \A q \in hits : q < p /\ p < q + Len(needle) => ~taken[q]
    IN  {p \in hits : taken[p]}

Blockers(tokens) ==
    {t.text : t \in {u \in tokens : Space \in {u.text[k] : k \in DOMAIN u.text}}}
Longest(texts) == Max({0} \cup {Len(b) : b \in texts})
EndBlockers(tokens) ==
    {t \in tokens : t.rstrip /\ t.text[Len(t.text)] \in Letters \cup Digits}

(* An occurrence of an added token is on both sides of the cut. *)
CutsAddedToken(bytes, tokens, p) ==
    LET reach == Max({0, Longest(Blockers(tokens)) - 1})
    IN  \E b \in Blockers(tokens) :
            \E s \in FindIter(bytes, b, Max({0, p - reach}), Min({Len(bytes), p + reach})) :
                s < p /\ s + Len(b) > p

(* Bug: a token that absorbs the space after it may end at the cut. *)
EndsAnyToken(bytes, tokens, p) == FALSE

(* A token that absorbs the space after it ends at the cut. *)
EndsRstripToken(bytes, tokens, p) ==
    \E t \in EndBlockers(tokens) :
        Len(t.text) <= p /\ Slice(bytes, p - Len(t.text), p) = t.text

SafeAt(bytes, tokens, p) ==
    /\ bytes[p + 1] = Space
    /\ bytes[p] \in Letters \cup Digits /\ bytes[p + 2] \in Letters
    /\ ~CutsAddedToken(bytes, tokens, p) /\ ~EndsRstripToken(bytes, tokens, p)

(* The ranges <<from, to>> of a text: each ends at the first safe place from `target`
   bytes on; an empty text has one range all the same. *)
RangesAt(size, target, safe) ==
    LET ahead(start) == {p \in safe : start + target <= p}
        from[start \in 0..size] ==
            IF ahead(start) = {} THEN <<<<start, size>>>>
            ELSE <<<<start, Min(ahead(start))>>>> \o from[Min(ahead(start))]
    IN  from[0]

SafeSplitRanges(bytes, tokens, target) ==
    RangesAt(Len(bytes), target, {p \in target..(Len(bytes) - 2) : SafeAt(bytes, tokens, p)})

(* Where an added token occurs from `from` on, and the match the automaton gives:
   leftmost, then longest. *)
Occurrences(bytes, tokens, from) ==
    {m \in [at: from..Len(bytes), token: tokens] : m.at \in Hits(bytes, m.token.text, from, Len(bytes))}
Found(bytes, tokens, from) ==
    LET all == Occurrences(bytes, tokens, from)
    IN  CHOOSE m \in all : \A n \in all :
            m.at < n.at \/ (m.at = n.at /\ Len(m.token.text) >= Len(n.token.text))

(* Trimming: the bytes from..to without trailing spaces end at TrimEnd, the text
   from `from` on without leading ones starts at TrimStart. *)
TrimEnd(bytes, from, to) == Max({from} \cup {e \in (from + 1)..to : bytes[e] # Space})
TrimStart(bytes, from) ==
    Min({Len(bytes)} \cup {s \in from..(Len(bytes) - 1) : bytes[s + 1] # Space})

(* add_prefix_space puts a space in front of a segment that has none. *)
Segment(bytes, prefix, from, to) ==
    IF prefix /\ from < to /\ bytes[from + 1] # Space
    THEN <<Space>> \o Slice(bytes, from, to) ELSE Slice(bytes, from, to)

(* for_each_piece: the bytes that are encoded as text, and one token for each
   occurrence, in order. *)
Pieces(bytes, tokens, prefix) ==
    LET walk[p \in 0..Len(bytes)] ==
            IF Occurrences(bytes, tokens, p) = {} THEN Segment(bytes, prefix, p, Len(bytes))
            ELSE LET m == Found(bytes, tokens, p)
                     end == m.at + Len(m.token.text)
                 IN  Segment(bytes, prefix, p,
                             IF m.token.lstrip THEN TrimEnd(bytes, p, m.at) ELSE m.at)
                        \o <<m.token>>
                        \o walk[IF m.token.rstrip THEN TrimStart(bytes, end) ELSE end]
    IN  walk[0]
=============================================================================
