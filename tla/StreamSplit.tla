----------------------------- MODULE StreamSplit ----------------------------
(***************************************************************************)
(* SeparatorReader of src/src/input/file_source.rs: the documents of a     *)
(* compressed text file, read block by block, in blocks of whatever size   *)
(* the decompressor hands out.  `buf` always holds bytes lo..hi of the     *)
(* file, and hi is how far the file has been read.                         *)
(***************************************************************************)
EXTENDS ByteSearch

CONSTANTS
    Inputs,     \* [bytes, sep]: a decompressed file and its separator
    ReadFails   \* the reader may return an error

VARIABLES
    input,     \* the file
    lo, hi,    \* what buf holds
    reading,   \* inside next()'s loop
    finished,  \* next() returns None from now on
    docs       \* <<from, to>> of the documents returned

Size == Len(input.bytes)
SepLen == Len(input.sep)

Init ==
    /\ input \in Inputs
    /\ lo = 0 /\ hi = 0
    /\ reading = FALSE /\ finished = FALSE /\ docs = <<>>

Return(from, to) == docs' = IF from < to THEN Append(docs, <<from, to>>) ELSE docs

(* Empty separator: everything is one document. *)
NextWhole ==
    /\ ~finished /\ SepLen = 0
    /\ finished' = TRUE
    /\ \/ Return(0, Size)
       \/ ReadFails /\ UNCHANGED docs
    /\ UNCHANGED <<input, lo, hi, reading>>

(* next() is called: self.buf.clear(). *)
Call ==
    /\ ~finished /\ ~reading /\ SepLen > 0
    /\ reading' = TRUE
    /\ lo' = hi
    /\ UNCHANGED <<input, hi, finished, docs>>

(* Bug: a separator is only looked for inside the new block. *)
SearchFromNewBlock == hi

(* Where find starts: the tail of buf in which a separator could have begun. *)
SearchFrom == IF hi - lo < SepLen - 1 THEN lo ELSE hi - (SepLen - 1)

(* One block is read.  A document that ends in it is returned, or skipped when
   it is empty; the rest of the block stays in buf. *)
FillBuf ==
    /\ reading /\ hi < Size
    /\ \E end \in (hi + 1)..Size :
          /\ hi' = end
          /\ IF Hits(input.bytes, input.sep, SearchFrom, end) = {}
             THEN UNCHANGED <<lo, reading, docs>>
             ELSE LET sep == Find(input.bytes, input.sep, SearchFrom, end)
                  IN  /\ Return(lo, sep)
                      /\ lo' = sep + SepLen
                      /\ reading' = (lo = sep)
    /\ UNCHANGED <<input, finished>>

(* End of file: what buf holds is the last document. *)
Eof ==
    /\ reading /\ hi = Size
    /\ Return(lo, hi)
    /\ lo' = hi
    /\ reading' = FALSE /\ finished' = TRUE
    /\ UNCHANGED <<input, hi>>

(* A read error ends the iterator, and what buf holds is dropped. *)
ReadError ==
    /\ reading /\ ReadFails
    /\ reading' = FALSE /\ finished' = TRUE
    /\ UNCHANGED <<input, lo, hi, docs>>

Step == NextWhole \/ Call \/ FillBuf \/ Eof \/ ReadError
-----------------------------------------------------------------------------
TypeOK ==
    /\ input \in Inputs
    /\ hi \in 0..Size /\ lo \in 0..hi
    /\ reading \in BOOLEAN /\ finished \in BOOLEAN
    /\ \A d \in DOMAIN docs : docs[d][1] \in 0..Size /\ docs[d][2] \in 0..Size

BehindSep(p) == p >= SepLen /\ Slice(input.bytes, p - SepLen, p) = input.sep

(***************************************************************************)
(* "the overlap": a separator is recognised wherever the blocks cut it.    *)
(* Every document ends in front of a separator, or at the end of the file, *)
(* and the next starts behind that separator; it is the first separator    *)
(* after the start of the document, unless next() skipped an empty one     *)
(* there and had the rest of a block in its buffer.                        *)
(***************************************************************************)
EndsAtSeparator ==
    \A d \in DOMAIN docs : SepLen > 0 =>
        LET from == docs[d][1]
            hits == Hits(input.bytes, input.sep, from, Size)
        IN  /\ d > 1 => docs[d - 1][2] + SepLen <= from
            /\ docs[d][2] \in hits \cup {Size}
            /\ BehindSep(from) \/ \A h \in hits : docs[d][2] <= h

(***************************************************************************)
(* "Each `next()` returns one document (the bytes between two separators)" *)
(* and "Keep everything after the separator for the next call": no byte of *)
(* the file is dropped, but for the separators between two documents.      *)
(***************************************************************************)
NothingDropped ==
    LET from(d) == IF d > Len(docs) THEN Size ELSE docs[d][1]
        to(d) == IF d = 0 THEN 0 ELSE docs[d][2]
    IN  finished => \A d \in 0..Len(docs) :
            \A p \in to(d)..(from(d + 1) - 1) :
                \E s \in Hits(input.bytes, input.sep, 0, Size) : s <= p /\ p < s + SepLen
=============================================================================
