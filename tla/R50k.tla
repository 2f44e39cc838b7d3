-------------------------------- MODULE R50k --------------------------------
(***************************************************************************)
(* The GPT-2 scheme (src/src/pretokenize/fast/r50k.rs):                    *)
(*   '(?:[sdmt]|ll|ve|re)| ?\p{L}+| ?\p{N}+| ?[^\s\p{L}\p{N}]+             *)
(*   |\s+(?!\S)|\s+                                                        *)
(* as the scalar advance and as the boundary masks of a batch.             *)
(***************************************************************************)
EXTENDS BatchClasses
LOCAL INSTANCE FiniteSetsExt

(***************************************************************************)
(* A whitespace token: the run, less its last character when something     *)
(* else follows and the run has another one.                               *)
(***************************************************************************)
R50kWs(t, p) ==
    LET e == RunEnd(t, p, White)
        last == LeadOf(t, e - 1)
    IN  IF e < Len(t) /\ last > p THEN last ELSE e

R50kAdvance(t, p) ==
    LET k == Suffix(t, p + 1, FALSE)
        q == IF Byte(t, p) = Space /\ p + 1 < Len(t) THEN p + 1 ELSE p
        C == ClassOf(Cat(t, q))
    IN  IF Byte(t, p) = Quote /\ k > 0 THEN p + 1 + k
        ELSE IF C = White THEN R50kWs(t, p)
        ELSE RunEnd(t, q, C)

(***************************************************************************)
(* The contraction fixup of a mask: an apostrophe that starts a token      *)
(* takes its suffix; one the batch edge could cut hands the rest of the    *)
(* batch to the scalar path.                                               *)
(***************************************************************************)
R50kContractions(t, s, boundary, bad) ==
    LET cand == (OfByte(t, s, {Quote}) \cap boundary) \ bad
        late == {i \in cand : i >= W - 3}
        cut == IF late = {} THEN {} ELSE From(Min(late))
        k(i) == Suffix(t, s + i + 1, FALSE)
        hit == {i \in cand \ cut : k(i) > 0}
        all == bad \cup cut
    IN  [usable |-> ((boundary \ Up(hit, 1)) \cup {i + 1 + k(i) : i \in hit}) \ all,
         bad |-> all]

(* A batch without a non-ASCII byte. *)
R50kAscii(t, s) ==
    LET l == OfCat(t, s, Letter)
        d == OfCat(t, s, Number)
        ws == OfCat(t, s, White)
        sp == OfByte(t, s, {Space})
        o == Bits \ (l \cup d \cup ws)
        prev == Before(t, s)
        same(m, C) == m \cap (Up(m, 1) \cup If(prev \in C, 0))
        contSame == same(l, Letter) \cup same(d, Number) \cup same(o, Other)
        afterSpace == Up(sp, 1) \cup If(s > 0 /\ Byte(t, s - 1) = Space, 0)
        splitOk == ws \cap (Down(Bits \ ws, 1) \cup If(NonWhiteAt(t, s + W), W - 1))
        pws == Up(ws, 1) \cup If(prev = "space", 0)
        boundary == (Bits \ (ws \cup contSame \cup afterSpace))
                    \cup (ws \cap ((Bits \ pws) \cup splitOk))
    IN  R50kContractions(t, s, boundary, {})

(* A batch with one. *)
R50kExtended(t, s) ==
    LET l == OfCat(t, s, Letter)
        d == OfCat(t, s, Number)
        ws == OfCat(t, s, White)
        o == OfCat(t, s, Other)
        sp == OfByte(t, s, {Space})
        prev == Before(t, s)
        same(m, C) == m \cap (Up(m, 1) \cup If(prev \in C, 0))
        contSame == same(l, Letter) \cup same(d, Number) \cup same(o, Other)
        afterSpace == Up(sp, 1) \cup If(s > 0 /\ Byte(t, s - 1) = Space, 0)
        nn == Bits \ ws
        wsa == ws \ Hi(t, s)
        w2 == WsLeads(t, s, 2)
        w3 == WsLeads(t, s, 3)
        edge == (wsa \cap {W - 1}) \cup (w2 \cap {W - 2}) \cup (w3 \cap {W - 3})
        inside == (wsa \cap Down(nn, 1)) \cup (w2 \cap Down(nn, 2)) \cup (w3 \cap Down(nn, 3))
        splitOk == (inside \ edge) \cup (IF NonWhiteAt(t, s + W) THEN edge ELSE {})
        pws == Up(ws, 1) \cup If(prev = "space", 0)
        boundary == (nn \ (contSame \cup afterSpace \cup OfByte(t, s, {Cont})))
                    \cup ((wsa \cup w2 \cup w3) \cap ((Bits \ pws) \cup splitOk))
        resid == Residual(t, s, TRUE)
    IN  R50kContractions(t, s, boundary, resid \cup Up(resid, 1) \cup Down(resid, 1))

R50kMasks(t, s) ==
    IF ~Fits(t, s) THEN NoMasks
    ELSE IF Hi(t, s) = {} THEN R50kAscii(t, s) ELSE R50kExtended(t, s)
=============================================================================
