------------------------------ MODULE DocSplit ------------------------------
(***************************************************************************)
(* One file on its way to the encoder.  The parallel paths cut it at       *)
(* document boundaries, into regions (chunk_ranges) or windows             *)
(* (par_document_chunks, jsonl_chunk_boundaries), and each piece is split  *)
(* into documents by a worker of its own, at its own pace; the serial path *)
(* splits the whole file.  Region 0 below is the whole file, read by the   *)
(* serial path, so that the two can be compared.  pretokenize_file reads a *)
(* compressed text file through SeparatorReader (StreamSplit) instead.     *)
(* Sources: src/src/input/file_source.rs, src/src/input/mod.rs,            *)
(* src/src/input/jsonl.rs, for_each_doc of src/src/batch.rs.               *)
(***************************************************************************)
EXTENDS ByteSearch, SequencesExt

CONSTANTS
    Bytes,     \* the bytes a file or a separator is made of
    Inputs,    \* [bytes, format, sep, cut, size]: see IsInput
    Newline,   \* the byte that ends a JSONL line
    Malformed, \* a byte that makes a JSONL line unreadable
    Streams,   \* the inputs that are read as a compressed text file
    ReadFails  \* reading one may return an error

Formats == {"text", "jsonl"}
Cuts == {"regions", "windows"}

(* size is the target of chunk_ranges, or the number of windows. *)
IsInput(i) ==
    /\ i.bytes \in Seq(Bytes) /\ i.sep \in Seq(Bytes)
    /\ i.format \in Formats /\ i.cut \in Cuts /\ i.size \in Nat \ {0}
    /\ i.format = "jsonl" => i.sep = <<Newline>>

ASSUME InputsAssumption ==
    /\ \A i \in Inputs \cup Streams : IsInput(i)
    /\ \A i \in Streams : i.format = "text"
    /\ ReadFails \in BOOLEAN

VARIABLES
    input,     \* the file and how it is cut
    start,     \* where the next piece starts
    probes,    \* windows: boundaries looked for so far
    regions,   \* <<from, to>> of the pieces cut so far
    planned,   \* the cutting is done
    pos,       \* where each iterator is; pos[0] is the serial one
    finished,  \* iterators that have returned None
    docs,      \* what each iterator has yielded
    streaming, \* the file is compressed
    lo, hi, reading, ended, streamed   \* SeparatorReader

splitVars == <<start, probes, regions, planned, pos, finished, docs>>
streamVars == <<lo, hi, reading, ended, streamed>>
vars == <<input, splitVars, streaming, streamVars>>

Stream == INSTANCE StreamSplit WITH Inputs <- Streams, finished <- ended, docs <- streamed

Size == Len(input.bytes)
Whole == input.sep = <<>>     \* no separator: the file is one document

Init ==
    /\ streaming \in BOOLEAN
    /\ input \in IF streaming THEN Streams ELSE Inputs
    /\ lo = 0 /\ hi = 0 /\ reading = FALSE /\ ended = FALSE /\ streamed = <<>>
    /\ start = 0 /\ probes = 1
    /\ regions = <<>> /\ planned = FALSE
    /\ pos = <<0>> /\ finished = {} /\ docs = <<<<>>>>

(* Regions are numbered from 0, the whole file; sequences from 1. *)
At(seq, r) == seq[r + 1]
RegionOf(r) == IF r = 0 THEN <<0, Size>> ELSE regions[r]

Push(from, to) == regions' = Append(regions, <<from, to>>)
Boundaries(probe) == Hits(input.bytes, input.sep, probe, Size)

(* Bug: the cut is made where it was looked for, not where a document ends. *)
CutRegionAtProbe ==
    /\ input.cut = "regions" /\ ~Whole /\ ~planned /\ start < Size
    /\ LET probe == start + input.size
       IN  IF probe < Size
           THEN Push(start, probe) /\ start' = probe
           ELSE Push(start, Size) /\ start' = Size
    /\ UNCHANGED <<input, probes, planned, pos, finished, docs>>

(* Bug: the byte after the separator is skipped with it. *)
CutRegionSkipping ==
    /\ input.cut = "regions" /\ ~Whole /\ ~planned /\ start < Size
    /\ LET probe == start + input.size
       IN  IF probe < Size /\ Boundaries(probe) # {}
           THEN LET hit == Find(input.bytes, input.sep, probe, Size)
                IN  Push(start, hit) /\ start' = hit + Len(input.sep) + 1
           ELSE Push(start, Size) /\ start' = Size
    /\ UNCHANGED <<input, probes, planned, pos, finished, docs>>

(* chunk_ranges, one turn of `cut`: a region ends before the first separator (or
   after the first newline) found from `target` bytes on. *)
CutRegion ==
    /\ input.cut = "regions" /\ ~Whole /\ ~planned /\ start < Size
    /\ LET probe == start + input.size
       IN  IF probe < Size /\ Boundaries(probe) # {}
           THEN LET hit == Find(input.bytes, input.sep, probe, Size)
                    next == hit + Len(input.sep)
                IN  Push(start, IF input.format = "jsonl" THEN next ELSE hit) /\ start' = next
           ELSE Push(start, Size) /\ start' = Size
    /\ UNCHANGED <<input, probes, planned, pos, finished, docs>>

(* par_document_chunks and jsonl_chunk_boundaries, one turn: the i-th boundary
   is after the first separator found from i * chunk_size on; dedup drops a
   boundary that repeats the one before. *)
CutWindow ==
    /\ input.cut = "windows" /\ ~Whole /\ ~planned /\ start < Size
    /\ LET target == probes * (Size \div input.size)
           last == probes >= input.size \/ Boundaries(target) = {}
           end == IF last THEN Size
                  ELSE Find(input.bytes, input.sep, target, Size) + Len(input.sep)
       IN  /\ IF end = start THEN UNCHANGED regions ELSE Push(start, end)
           /\ start' = end
    /\ probes' = probes + 1
    /\ UNCHANGED <<input, planned, pos, finished, docs>>

(* The pieces are handed to the workers; a file always has one. *)
Plan ==
    /\ ~planned
    /\ Whole \/ start >= Size
    /\ LET pieces == IF Whole \/ regions = <<>> THEN <<<<0, Size>>>> ELSE regions
       IN  /\ regions' = pieces
           /\ pos' = <<pos[1]>> \o [r \in DOMAIN pieces |-> pieces[r][1]]
           /\ docs' = <<docs[1]>> \o [r \in DOMAIN pieces |-> <<>>]
    /\ planned' = TRUE
    /\ UNCHANGED <<input, start, probes, finished>>

Reading(r) == r \notin finished /\ (r = 0 \/ planned)
Yield(r, a, b) == docs' = [docs EXCEPT ![r + 1] = Append(@, Slice(input.bytes, a, b))]
Advance(r, p) == pos' = [pos EXCEPT ![r + 1] = p]
Finish(r) == finished' = finished \cup {r}

(* for_each_doc without a separator: the region is the document. *)
WholeDoc(r) ==
    /\ Reading(r) /\ Whole
    /\ Yield(r, RegionOf(r)[1], RegionOf(r)[2])
    /\ Finish(r)
    /\ UNCHANGED <<input, start, probes, regions, planned, pos>>

(* Bug: the iterator stays in front of the separator it found. *)
TextDocStuck(r) ==
    /\ Reading(r) /\ ~Whole /\ input.format = "text"
    /\ LET from == At(pos, r)
           to == RegionOf(r)[2]
           hits == Hits(input.bytes, input.sep, from, to)
       IN  IF hits # {}
           THEN /\ Advance(r, Find(input.bytes, input.sep, from, to))
                /\ UNCHANGED <<docs, finished>>
           ELSE /\ IF from < to THEN Yield(r, from, to) ELSE UNCHANGED docs
                /\ Finish(r) /\ UNCHANGED pos
    /\ UNCHANGED <<input, start, probes, regions, planned>>

(* DocumentIter::next: up to the next separator; empty documents are skipped. *)
TextDoc(r) ==
    /\ Reading(r) /\ ~Whole /\ input.format = "text"
    /\ LET from == At(pos, r)
           to == RegionOf(r)[2]
           hits == Hits(input.bytes, input.sep, from, to)
           end == IF hits = {} THEN to ELSE Find(input.bytes, input.sep, from, to)
       IN  /\ IF from < end THEN Yield(r, from, end) ELSE UNCHANGED docs
           /\ IF hits = {} THEN Finish(r) /\ UNCHANGED pos
                           ELSE Advance(r, end + Len(input.sep)) /\ UNCHANGED finished
    /\ UNCHANGED <<input, start, probes, regions, planned>>

(* JsonLinesSlice::next: a line that cannot be read ends the iterator. *)
JsonDoc(r) ==
    /\ Reading(r) /\ input.format = "jsonl"
    /\ LET to == RegionOf(r)[2]
           rest == {p \in At(pos, r)..(to - 1) : input.bytes[p + 1] # Newline}
           from == CHOOSE p \in rest : \A q \in rest : p <= q
           hits == Hits(input.bytes, <<Newline>>, from, to)
           end == IF hits = {} THEN to ELSE Find(input.bytes, <<Newline>>, from, to)
       IN  IF rest = {} \/ \E p \in from..(end - 1) : input.bytes[p + 1] = Malformed
           THEN Finish(r) /\ UNCHANGED <<pos, docs>>
           ELSE Yield(r, from, end) /\ Advance(r, end + 1) /\ UNCHANGED finished
    /\ UNCHANGED <<input, start, probes, regions, planned>>

NextDoc(r) == WholeDoc(r) \/ TextDoc(r) \/ JsonDoc(r)

AllRead == planned /\ finished = 0..Len(regions)

(* pretokenize_file: a mapped file is cut, a compressed one is streamed. *)
SplitStep == CutRegion \/ CutWindow \/ Plan \/ \E r \in 0..Len(regions) : NextDoc(r)
Step ==
    \/ ~streaming /\ SplitStep /\ UNCHANGED <<streaming, streamVars>>
    \/ streaming /\ Stream!Step /\ UNCHANGED <<streaming, splitVars>>

FileRead == IF streaming THEN ended ELSE AllRead
Finished == FileRead /\ UNCHANGED vars
Next == Step \/ Finished

(* Every thread that has a piece reads it to its end, and so does the one that
   drains the reader. *)
Spec == Init /\ [][Next]_vars
FairSpec == Spec /\ WF_vars(Step)
-----------------------------------------------------------------------------
TypeOK ==
    /\ IsInput(input) /\ streaming \in BOOLEAN
    /\ start \in 0..Size /\ probes \in 1..(input.size + 1) /\ planned \in BOOLEAN
    /\ regions \in Seq((0..Size) \X (0..Size))
    /\ pos \in Seq(0..(Size + 1)) /\ docs \in Seq(Seq(Seq(Bytes)))
    /\ Len(pos) = Len(docs) /\ Len(pos) = IF planned THEN Len(regions) + 1 ELSE 1
    /\ finished \subseteq 0..(Len(pos) - 1)

(***************************************************************************)
(* "each ending on a document boundary": the pieces tile the file in       *)
(* order, and only a separator is left out between two of them.            *)
(***************************************************************************)
RegionsTile ==
    LET from(r) == IF r > Len(regions) THEN Size ELSE regions[r][1]
    IN  planned =>
            /\ from(1) = 0
            /\ \A r \in 1..Len(regions) :
                  /\ from(r) <= regions[r][2] /\ regions[r][2] <= from(r + 1)
                  /\ Slice(input.bytes, regions[r][2], from(r + 1)) \in {<<>>, input.sep}

(* A JSONL line that cannot be read. *)
Unreadable == input.format = "jsonl" /\ \E p \in DOMAIN input.bytes : input.bytes[p] = Malformed

(***************************************************************************)
(* "token- and order-identical": the documents of the pieces, in the order *)
(* of the pieces, are the documents of the file, whatever the pace of the  *)
(* workers.  An unreadable line ends the serial walk for good but only one *)
(* of the pieces: the serial documents are then the first of the pieces'.   *)
(***************************************************************************)
SameDocuments ==
    AllRead => LET pieces == FlattenSeq(Tail(docs))
               IN  IF Unreadable THEN IsPrefix(docs[1], pieces) ELSE pieces = docs[1]

(***************************************************************************)
(* "the overlap": SeparatorReader recognises a separator wherever its      *)
(* blocks cut it (see EndsAtSeparator of StreamSplit).                     *)
(***************************************************************************)
EndsAtSeparator == Stream!EndsAtSeparator

(***************************************************************************)
(* "Keep everything after the separator for the next call": the reader     *)
(* drops no byte of the file (see NothingDropped of StreamSplit).          *)
(***************************************************************************)
NothingDropped == Stream!NothingDropped

(* Every file is cut and read to its end, or drained, however small the blocks. *)
Terminates == <>FileRead
=============================================================================
