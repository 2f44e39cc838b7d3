------------------------------ MODULE DocChunks -----------------------------
(***************************************************************************)
(* build_doc_chunks and push_fragment_chunks of src/src/batch.rs group the *)
(* documents of a batch into work units, cutting an oversized one into     *)
(* fragments where SafeSplit allows; encode_chunk encodes each unit by     *)
(* itself, and row_counts puts their lengths together again, one row per   *)
(* document.  sp_build_chunks and sp_encode_chunks do the same for a       *)
(* SentencePiece model, with the fragments of SpSplit.                     *)
(***************************************************************************)
EXTENDS SpSplit

CONSTANTS
    Inputs,    \* [docs, tokens, prefix, target, lpt, model]; a document is its bytes
    MinChunk,  \* MIN_CHUNK_BYTES
    ByteLevel  \* the model of a byte-level tokenizer; others are those of SpSplit

ASSUME MinChunkAssumption == MinChunk \in Nat \ {0}

(* chunk_target_bytes never goes below MIN_CHUNK_BYTES, 32 KiB: more than any added
   token has, which the fragments of the tail count on. *)
IsText(s) == s \in Seq(ToSet(s))
IsInput(i) ==
    /\ IsText(i.docs) /\ \A d \in DOMAIN i.docs : IsText(i.docs[d])
    /\ IsFiniteSet(i.tokens) /\ \A t \in i.tokens : IsText(t.text)
    /\ \A t, u \in i.tokens : t.text = u.text => t = u
    /\ i.target \in Nat
    /\ i.target >= (IF i.lpt THEN MinChunk ELSE 1) /\ i.lpt \in BOOLEAN /\ i.prefix \in BOOLEAN
    /\ \A t \in i.tokens : t.text # <<>> /\ (i.lpt => Len(t.text) <= MinChunk)
    /\ i.model # ByteLevel => ~i.lpt /\ ~i.prefix

ASSUME InputsAssumption == \A i \in Inputs : IsInput(i)

VARIABLES
    input,     \* the documents of the batch and how they are to be chunked
    taken,     \* documents looked at so far
    group,     \* the documents of the open group
    acc,       \* its bytes
    emitted,   \* bytes in the chunks so far
    chunks,    \* [docs, from, to, first]: whole documents, or a fragment of one
    counted,   \* chunks whose lengths are in counts
    counts     \* the row lengths

chunkVars == <<input, taken, group, acc, emitted, chunks, counted, counts>>

ChunksInit ==
    /\ input \in Inputs
    /\ taken = 0 /\ group = <<>> /\ acc = 0 /\ emitted = 0
    /\ chunks = <<>> /\ counted = 0 /\ counts = <<>>

Docs == input.docs
Target == input.target
DocLen(d) == Len(Docs[d])
SumLen(ds) ==
    LET upTo[n \in 0..Len(ds)] == IF n = 0 THEN 0 ELSE upTo[n - 1] + DocLen(ds[n])
    IN  upTo[Len(ds)]
TotalBytes == SumLen([d \in DOMAIN Docs |-> d])

(* LPT: big chunks over the first four fifths of the bytes, small ones after. *)
HeadBytes == IF input.lpt THEN TotalBytes - TotalBytes \div 5 ELSE 0
GroupBig == IF input.lpt THEN 2 * Target ELSE Target
FragBig == GroupBig
TailTarget == IF input.lpt THEN Max({Target \div 4, MinChunk}) ELSE Target

Group(ds) == [docs |-> ds, from |-> 0, to |-> SumLen(ds), first |-> TRUE]
Fragment(d, from, to) == [docs |-> <<d>>, from |-> from, to |-> to, first |-> from = 0]

SentencePiece == input.model # ByteLevel
CanSplit == SentencePiece => SupportsFragmentSplit(input.model)

(* safe_split_ranges, or safe_fragment_ranges, over bytes a..b of document d. *)
Ranges(d, a, b, size) ==
    LET text == Slice(Docs[d], a, b)
        cut == IF SentencePiece THEN SafeFragmentRanges(input.model, text, input.tokens, size)
               ELSE SafeSplitRanges(text, input.tokens, size)
    IN  [r \in DOMAIN cut |-> <<a + cut[r][1], a + cut[r][2]>>]

(* Bug: the head is what it was before the first chunk. *)
HeadLenAtStart(before) == IF ~input.lpt THEN DocLen(taken + 1) ELSE HeadBytes

(* What is left of the head when a document is cut, after `before` bytes; without
   LPT all of it is head (usize::MAX). *)
HeadLen(before) ==
    IF ~input.lpt THEN DocLen(taken + 1)
    ELSE IF HeadBytes < before THEN 0 ELSE HeadBytes - before

(* push_fragment_chunks: the ranges of the tail are cut once more. *)
FragmentsOf(d, head) ==
    LET big == Ranges(d, 0, DocLen(d), FragBig)
        parts(r) == IF r[1] < head \/ r[2] - r[1] <= TailTarget THEN <<r>>
                    ELSE Ranges(d, r[1], r[2], TailTarget)
        all == FlattenSeq([r \in DOMAIN big |-> parts(big[r])])
    IN  [n \in DOMAIN all |-> Fragment(d, all[n][1], all[n][2])]

Building == taken < Len(Docs)
Flushed == IF group = <<>> THEN chunks ELSE Append(chunks, Group(group))

(* A document larger than twice the target: the open group goes first. *)
Oversized(d) == CanSplit /\ DocLen(d) > 2 * Target
TakeHuge ==
    /\ Building /\ Oversized(taken + 1)
    /\ chunks' = Flushed \o FragmentsOf(taken + 1, HeadLen(emitted + acc))
    /\ emitted' = emitted + acc + DocLen(taken + 1)
    /\ group' = <<>> /\ acc' = 0
    /\ taken' = taken + 1
    /\ UNCHANGED <<input, counted, counts>>

(* Any other document joins the group, which closes when it is large enough. *)
TakeDoc ==
    /\ Building /\ ~Oversized(taken + 1)
    /\ LET ds == Append(group, taken + 1)
           size == acc + DocLen(taken + 1)
       IN  IF size >= (IF emitted < HeadBytes THEN GroupBig ELSE TailTarget)
           THEN /\ chunks' = Append(chunks, Group(ds)) /\ emitted' = emitted + size
                /\ group' = <<>> /\ acc' = 0
           ELSE group' = ds /\ acc' = size /\ UNCHANGED <<chunks, emitted>>
    /\ taken' = taken + 1
    /\ UNCHANGED <<input, counted, counts>>

(* After the last document (emitted is not needed any more). *)
Flush ==
    /\ ~Building /\ group # <<>>
    /\ chunks' = Flushed /\ group' = <<>>
    /\ emitted' = emitted + acc /\ acc' = 0
    /\ UNCHANGED <<input, taken, counted, counts>>

(* What encode_chunk, or sp_encode_chunks, makes of a chunk: the tokens of each of its
   rows, and whether the first one continues the row before. *)
Encoded(bytes, first) ==
    IF SentencePiece
    THEN SpEncode(input.model, bytes, input.tokens, IF first THEN "First" ELSE "Continuation")
    ELSE Pieces(bytes, input.tokens, input.prefix)
RowsOf(c) ==
    IF Len(c.docs) = 1 THEN <<Encoded(Slice(Docs[c.docs[1]], c.from, c.to), c.first)>>
    ELSE [n \in DOMAIN c.docs |-> Encoded(Docs[c.docs[n]], TRUE)]
Lens(c) == [n \in DOMAIN c.docs |-> Len(RowsOf(c)[n])]
Continues(c) == ~c.first

(* Bug: the fragments of a document are rows of their own. *)
RowCountsSplit ==
    /\ ~Building /\ group = <<>> /\ counted < Len(chunks)
    /\ counts' = counts \o Lens(chunks[counted + 1])
    /\ counted' = counted + 1
    /\ UNCHANGED <<input, taken, group, acc, emitted, chunks>>

(* row_counts, one chunk. *)
RowCounts ==
    /\ ~Building /\ group = <<>> /\ counted < Len(chunks)
    /\ LET c == chunks[counted + 1]
       IN  counts' = IF Continues(c)
                     THEN [counts EXCEPT ![Len(counts)] = @ + Lens(c)[1]] \o Tail(Lens(c))
                     ELSE counts \o Lens(c)
    /\ counted' = counted + 1
    /\ UNCHANGED <<input, taken, group, acc, emitted, chunks>>

Done == ~Building /\ group = <<>> /\ counted = Len(chunks)
ChunksFinished == Done /\ UNCHANGED chunkVars

ChunksNext == TakeHuge \/ TakeDoc \/ Flush \/ RowCounts \/ ChunksFinished
ChunksSpec == ChunksInit /\ [][ChunksNext]_chunkVars
-----------------------------------------------------------------------------
(* What the theorems about the chunks ask of an input.  The search of safe_split_ranges
   sees only as far as the longest token with a space: a shorter one is found at every
   cut it straddles unless its occurrences can overlap. *)
TextAlone(t) == \A d \in 1..(Len(t) - 1) : \E j \in 1..(Len(t) - d) : t[d + j] # t[j]
Findable(tokens) ==
    \A b \in Blockers(tokens) : Len(b) = Longest(Blockers(tokens)) \/ TextAlone(b)

(* The ranges of safe_fragment_ranges: what comes up to the end of one is what comes up
   to its start, and then its own. *)
SpUpTo(i, d, y) == SpEncode(i.model, Slice(i.docs[d], 0, y), i.tokens, "First")
SpRest(i, d, x, y) == SpEncode(i.model, Slice(i.docs[d], x, y), i.tokens, "Continuation")
UnitsJoin(i) ==
    /\ \A d \in DOMAIN i.docs : \A y \in 0..Len(i.docs[d]) : IsText(SpUpTo(i, d, y))
    /\ SupportsFragmentSplit(i.model) =>
          \A d \in DOMAIN i.docs :
             LET cut == SafeFragmentRanges(i.model, i.docs[d], i.tokens, i.target)
             IN  \A r \in DOMAIN cut : cut[r][1] > 0 =>
                    /\ IsText(SpRest(i, d, cut[r][1], cut[r][2]))
                    /\ SpUpTo(i, d, cut[r][2]) = SpUpTo(i, d, cut[r][1]) \o SpRest(i, d, cut[r][1], cut[r][2])

(* The inputs whose cuts are exact. *)
CutsExact(i) == IF i.model = ByteLevel THEN Findable(i.tokens) ELSE UnitsJoin(i)
-----------------------------------------------------------------------------
ChunksTypeOK ==
    /\ input \in Inputs /\ taken \in 0..Len(Docs)
    /\ acc = SumLen(group) /\ emitted + acc = SumLen([d \in 1..taken |-> d])
    /\ counted \in 0..Len(chunks)
    /\ \A c \in DOMAIN chunks : chunks[c].docs # <<>> /\ chunks[c].from <= chunks[c].to

(***************************************************************************)
(* "token- and order-identical": the tokens of the chunks, each encoded by *)
(* itself, followed by those of the open group are the tokens of the       *)
(* documents taken so far: no added token is cut in two or missed at a     *)
(* cut, no space it absorbs comes back, no document is lost or moved.      *)
(***************************************************************************)
Rows(ds) == [n \in DOMAIN ds |-> Encoded(Docs[ds[n]], TRUE)]
ChunkTokens == FlattenSeq([c \in DOMAIN chunks |-> FlattenSeq(RowsOf(chunks[c]))])
SameTokens == ChunkTokens \o FlattenSeq(Rows(group)) = FlattenSeq(Rows([d \in 1..taken |-> d]))

(***************************************************************************)
(* "per-unit BPE equals the global merge": what the units of the fragments *)
(* of a SentencePiece batch encode to, cut at marks and at punctuation,    *)
(* with the prefix of the section in front of one of them, is what merging *)
(* every normalized section as a whole gives.                              *)
(***************************************************************************)
UnitsExact ==
    Done /\ SentencePiece =>
        ChunkTokens = FlattenSeq([d \in DOMAIN Docs |-> SpMeans(input.model, Docs[d], input.tokens)])

(***************************************************************************)
(* One row per document, also for an empty one, however many chunks it was *)
(* cut into; and row_counts never meets a fragment that continues nothing. *)
(***************************************************************************)
RowsPerDocument ==
    /\ Done => counts = [d \in DOMAIN Docs |-> Len(Encoded(Docs[d], TRUE))]
    /\ chunks # <<>> => chunks[1].first

(***************************************************************************)
(* LPT sizing: a chunk that starts in the last fifth of the bytes is small *)
(* as far as its documents allow, so that the last chunk cannot hold the   *)
(* other threads up.                                                       *)
(***************************************************************************)
Offset(c) == SumLen([d \in 1..(chunks[c].docs[1] - 1) |-> d]) + chunks[c].from
SmallTail ==
    \A c \in DOMAIN chunks : ~SentencePiece /\ Offset(c) >= HeadBytes =>
        IF Len(chunks[c].docs) = 1
        THEN LET doc == Docs[chunks[c].docs[1]]
             IN  \A p \in (chunks[c].from + TailTarget)..(chunks[c].to - 2) :
                    ~SafeAt(doc, input.tokens, p) \/ Len(doc) <= 2 * Target
        ELSE SumLen(Front(chunks[c].docs)) < TailTarget
=============================================================================
