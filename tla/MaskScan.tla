------------------------------ MODULE MaskScan ------------------------------
(***************************************************************************)
(* The batch walker of the mask scanners (MaskState in                     *)
(* src/src/pretokenize/fast/mask.rs): it pops trusted boundary bits, walks *)
(* the bad zones and the end of the text through the scheme's scalar       *)
(* advance, and hands out one span at a time (next_span) or a chunk of     *)
(* them (fill_spans_two_phase), the two mixed as the caller likes.         *)
(*                                                                         *)
(* Masks and boundaries are sets of bit numbers; flatten_bits, which       *)
(* writes them out lowest first, is a step per bit.  Boundary offsets of a *)
(* fill are kept modulo RelMax + 1 (u16 in the code), and a batch is only  *)
(* harvested while its base is within RelLimit of the fill's base.         *)
(***************************************************************************)
EXTENDS TextMasks, Sequences

CONSTANTS Texts, Chunk, RelMax, RelLimit
ASSUME WindowShape ==
    /\ Chunk \in Nat /\ Chunk > 0
    /\ RelMax \in Nat /\ RelLimit \in Nat /\ RelLimit + W <= RelMax

VARIABLES
    text,
    pos, scan, mask_base, rem, batch_usable, batch_bad, scalar_until, pre,
    mode,        \* "idle" between calls, else the loop the call is in
    spans,       \* ghost: the spans handed out so far, <<start, end>>
    \* the locals of a fill
    n, fill_base, buf, resume, bits, until, overflow_end

nextVars == <<mask_base, rem, batch_usable, batch_bad, scalar_until, pre>>
fillVars == <<n, fill_base, buf, resume, bits, until, overflow_end>>
vars == <<text, pos, scan, nextVars, mode, spans, fillVars>>

len == text.len
Never == len + 1          \* usize::MAX
None == 0                 \* no end: a token never ends at 0
NoMasksAt == [base |-> Never, usable |-> {}, bad |-> {}]
MasksAt(s) == [base |-> s, usable |-> text.usable[s], bad |-> text.bad[s]]

First(S) == CHOOSE k \in S : \A j \in S : k <= j
FirstOr(S, k) == IF S = {} THEN k ELSE First(S)
(* Back or on to the batch that holds p; both keep to the grid. *)
Rewind(s, p) == IF s > p THEN Base(p) ELSE s
Forward(s, p) == IF s <= p THEN Base(p) ELSE s

Start ==
    /\ pos = 0 /\ scan = 0 /\ mask_base = 0 /\ scalar_until = 0
    /\ rem = {} /\ batch_usable = {} /\ batch_bad = {} /\ pre = NoMasksAt
    /\ mode = "idle" /\ spans = <<>>
    /\ n = 0 /\ fill_base = 0 /\ buf = <<>> /\ resume = 0
    /\ bits = {} /\ until = None /\ overflow_end = None

Init == text \in Texts /\ Start

(***************************************************************************)
(* next_span.  At the end of the text a call only returns None.            *)
(***************************************************************************)
NextSpan ==
    /\ mode = "idle" /\ pos < len
    /\ mode' = "next"
    /\ UNCHANGED <<text, pos, scan, nextVars, spans, fillVars>>

Return(end) ==
    /\ pos' = end /\ spans' = Append(spans, <<pos, end>>)
    /\ mode' = "idle"

Pop ==
    /\ mode = "next" /\ rem # {}
    /\ rem' = rem \ {First(rem)}
    /\ Return(mask_base + First(rem))
    /\ UNCHANGED <<text, scan, mask_base, batch_usable, batch_bad, scalar_until, pre, fillVars>>

Scalar ==
    /\ mode = "next" /\ rem = {} /\ pos < scalar_until
    /\ Return(text.next[pos])
    /\ UNCHANGED <<text, scan, nextVars, fillVars>>

(* As LoadSegment, with the bits below the resume point still trusted.     *)
LoadSegmentStale(base, usable, bad, from) ==
    LET seg_bad == {k \in bad : k >= from}
        nb == FirstOr(seg_bad, W)
    IN  /\ rem' = {k \in usable : k < nb /\ base + k # pos}
        /\ batch_bad' = IF seg_bad = {} THEN {} ELSE bad
        /\ scalar_until' = IF seg_bad = {} THEN scalar_until
                           ELSE base + FirstOr({k \in usable : k >= nb}, W)

(* The bits of a batch from `from` to its next bad one; the scalar path is *)
(* aimed at the next trusted boundary behind that.  A bit at the pending   *)
(* token's own start is not an end.                                        *)
LoadSegment(base, usable, bad, from) ==
    LET seg_bad == {k \in bad : k >= from}
        nb == FirstOr(seg_bad, W)
    IN  /\ rem' = {k \in usable : from <= k /\ k < nb /\ base + k # pos}
        /\ batch_bad' = IF seg_bad = {} THEN {} ELSE bad
        /\ scalar_until' = IF seg_bad = {} THEN scalar_until
                           ELSE base + FirstOr({k \in usable : k >= nb}, W)

(* Both bits and scalar path are used up. *)
Spent == mode = "next" /\ rem = {} /\ pos >= scalar_until
MoreSegments == batch_bad # {} /\ pos < mask_base + W

NextSegment ==
    /\ Spent /\ MoreSegments
    /\ LoadSegment(mask_base, batch_usable, batch_bad, pos - mask_base)
    /\ UNCHANGED <<text, pos, scan, mask_base, batch_usable, pre, mode, spans, fillVars>>

(* The next batch of the grid, computed one batch ahead if it can be.      *)
Refill ==
    LET s == Forward(scan, pos)
        m == IF pre.base = s THEN pre ELSE MasksAt(s)
    IN  /\ Spent /\ ~MoreSegments
        /\ s + W <= len
        /\ mask_base' = s /\ scan' = s + W
        /\ batch_usable' = m.usable
        /\ pre' = IF s + W + W <= len THEN MasksAt(s + W) ELSE NoMasksAt
        /\ LoadSegment(s, m.usable, m.bad, IF pos > s THEN pos - s ELSE 0)
        /\ UNCHANGED <<text, pos, mode, spans, fillVars>>

(* No whole batch is left: scalar to the end. *)
RefillTail ==
    LET s == Forward(scan, pos)
    IN  /\ Spent /\ ~MoreSegments
        /\ s + W > len
        /\ scan' = s /\ batch_bad' = {} /\ scalar_until' = Never
        /\ UNCHANGED <<text, pos, mask_base, rem, batch_usable, pre, mode, spans, fillVars>>

(***************************************************************************)
(* fill_spans_two_phase.  fill_base is the pending token's start; buf the  *)
(* offsets from it of the boundaries harvested, in order.                  *)
(***************************************************************************)
Fill ==
    /\ mode = "idle" /\ pos < len
    /\ mode' = "refill"
    /\ n' = 0 /\ fill_base' = pos /\ scan' = Rewind(scan, pos)
    /\ UNCHANGED <<text, pos, nextVars, spans, buf, resume, bits, until, overflow_end>>

Offset(end) == (end - fill_base) % (RelMax + 1)
LastEnd == IF buf = <<>> THEN fill_base ELSE fill_base + buf[Len(buf)]
needed == Chunk - n
Push(end) == buf' = Append(buf, Offset(end))

Window ==
    /\ mode = "refill" /\ n < Chunk /\ fill_base < len
    /\ scan' = Forward(scan, fill_base)
    /\ buf' = <<>> /\ resume' = fill_base /\ overflow_end' = None
    /\ mode' = "harvest"
    /\ UNCHANGED <<text, pos, nextVars, spans, n, fill_base, bits, until>>

OpenUnbounded == mode = "harvest" /\ scan - fill_base <= RelLimit
Open == mode = "harvest" /\ Len(buf) < needed /\ scan - fill_base <= RelLimit

HarvestTail ==
    /\ Open /\ scan + W > len /\ LastEnd < len
    /\ Push(text.next[LastEnd])
    /\ UNCHANGED <<text, pos, scan, nextVars, mode, spans, n, fill_base, resume, bits, until,
                   overflow_end>>

HarvestEnd ==
    /\ mode = "harvest"
    /\ \/ ~Open
       \/ scan + W > len /\ LastEnd >= len
    /\ mode' = "emit"
    /\ UNCHANGED <<text, pos, scan, nextVars, spans, fillVars>>

(* The segment from the resume point on: its trusted bits up to the next   *)
(* bad byte, and the boundary the scalar path is then to reach.  Bits at   *)
(* the resume point or below are dead, but a bad byte at it is not.        *)
Segment ==
    LET base == scan
        at == IF resume >= base THEN resume - base ELSE -1
        seg_bad == {k \in text.bad[base] : k >= at}
        fb == FirstOr(seg_bad, W)
    IN  /\ (Open /\ scan + W <= len) \/ mode = "segment"
        /\ bits' = {k \in text.usable[base] : at < k /\ k < fb}
        /\ until' = IF seg_bad = {} THEN None
                    ELSE base + FirstOr({k \in text.usable[base] : k >= fb}, W)
        /\ mode' = "flatten"
        /\ UNCHANGED <<text, pos, scan, nextVars, spans, n, fill_base, buf, resume, overflow_end>>

Flatten ==
    /\ mode = "flatten" /\ bits # {}
    /\ Push(scan + First(bits))
    /\ bits' = bits \ {First(bits)}
    /\ UNCHANGED <<text, pos, scan, nextVars, mode, spans, n, fill_base, resume, until, overflow_end>>

BatchDone ==
    /\ mode = "flatten" /\ bits = {} /\ until = None
    /\ scan' = scan + W /\ mode' = "harvest"
    /\ UNCHANGED <<text, pos, nextVars, spans, fillVars>>

InZone == mode = "flatten" /\ bits = {} /\ until # None

Zone ==
    /\ InZone /\ LastEnd < until
    /\ text.next[LastEnd] - fill_base <= RelMax
    /\ Push(text.next[LastEnd])
    /\ UNCHANGED <<text, pos, scan, nextVars, mode, spans, n, fill_base, resume, bits, until,
                   overflow_end>>

(* An end outside the window is dropped, to be found again by the next one.*)
ZoneOverflow ==
    /\ InZone /\ LastEnd < until
    /\ text.next[LastEnd] - fill_base > RelMax
    /\ overflow_end' = text.next[LastEnd] /\ mode' = "emit"
    /\ UNCHANGED <<text, pos, scan, nextVars, spans, n, fill_base, buf, resume, bits, until>>

(* As ZoneEnd, resuming where the batch was entered.                       *)
ZoneEndInPlace ==
    /\ InZone /\ LastEnd >= until
    /\ mode' = IF LastEnd >= scan + W THEN "harvest" ELSE "segment"
    /\ UNCHANGED <<text, pos, scan, nextVars, spans, n, fill_base, buf, resume, bits, until,
                   overflow_end>>

(* Go on in this batch, or, run over, in the one that holds the new end.   *)
ZoneEnd ==
    /\ InZone /\ LastEnd >= until
    /\ resume' = LastEnd /\ scan' = Base(LastEnd)
    /\ mode' = IF LastEnd >= scan + W THEN "harvest" ELSE "segment"
    /\ UNCHANGED <<text, pos, nextVars, spans, n, fill_base, buf, bits, until, overflow_end>>

(* Phase B.  A token longer than the window goes out alone. *)
EmitLong ==
    LET end == IF overflow_end # None THEN overflow_end ELSE text.next[fill_base]
    IN  /\ mode = "emit" /\ buf = <<>>
        /\ spans' = Append(spans, <<fill_base, end>>)
        /\ n' = n + 1 /\ fill_base' = end /\ mode' = "refill"
        /\ UNCHANGED <<text, pos, scan, nextVars, buf, resume, bits, until, overflow_end>>

Emit ==
    LET emit_n == IF Len(buf) <= needed THEN Len(buf) ELSE needed
        start(i) == fill_base + IF i = 1 THEN 0 ELSE buf[i - 1]
    IN  /\ mode = "emit" /\ buf # <<>>
        /\ spans' = spans \o [i \in 1 .. emit_n |-> <<start(i), fill_base + buf[i]>>]
        /\ n' = n + emit_n /\ fill_base' = fill_base + buf[emit_n] /\ mode' = "refill"
        /\ UNCHANGED <<text, pos, scan, nextVars, buf, resume, bits, until, overflow_end>>

(* Boundaries past the chunk are dropped and the scan goes back; the state *)
(* is a fresh resume for either kind of call.                              *)
FillReturn ==
    /\ mode = "refill" /\ ~(n < Chunk /\ fill_base < len)
    /\ pos' = fill_base /\ scan' = Rewind(scan, fill_base)
    /\ mask_base' = scan' /\ rem' = {} /\ batch_usable' = {} /\ batch_bad' = {}
    /\ scalar_until' = fill_base /\ pre' = NoMasksAt
    /\ mode' = "idle"
    /\ UNCHANGED <<text, spans, fillVars>>

Next ==
    \/ NextSpan \/ Pop \/ Scalar \/ NextSegment \/ Refill \/ RefillTail
    \/ Fill \/ Window \/ HarvestTail \/ HarvestEnd \/ Segment \/ Flatten \/ BatchDone
    \/ Zone \/ ZoneOverflow \/ ZoneEnd \/ EmitLong \/ Emit \/ FillReturn
    \/ pos = len /\ mode = "idle" /\ UNCHANGED vars

(* A call that has begun runs on; whether to make one is the caller's. *)
Call == mode # "idle" /\ Next
Spec == Init /\ [][Next]_vars /\ WF_vars(Call)

(***************************************************************************)
(* Properties.                                                             *)
(***************************************************************************)
(* The spans handed out, by whichever calls, are the tokens of the scalar  *)
(* walk: each starts where the one before ended and ends where the scheme's *)
(* advance ends it.                                                        *)
SpansAreTokens ==
    \A i \in 1 .. Len(spans) :
        /\ spans[i][1] = IF i = 1 THEN 0 ELSE spans[i - 1][2]
        /\ spans[i][2] = text.next[spans[i][1]]

(* The boundary buffer (BOUND_BUF) has room for a chunk, the boundaries of *)
(* one batch and one scalar overrun, and a fill is never past its chunk.   *)
BufferBounded == Len(buf) <= Chunk + W /\ n <= Chunk

(* Every call comes back: the bad zones of a fill, which may lead it into  *)
(* a later batch or once more through the same one, are left at last.      *)
CallsEnd == mode # "idle" ~> mode = "idle"
=============================================================================
