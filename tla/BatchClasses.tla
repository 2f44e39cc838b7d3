---------------------------- MODULE BatchClasses ----------------------------
(***************************************************************************)
(* The mask classifiers of one batch of W bytes, which every scheme shares *)
(* (src/src/pretokenize/fast/mask.rs).  A mask is the set of the batch's   *)
(* bit numbers that are set; bit i stands for byte s + i.  A batch needs   *)
(* Look bytes behind it, so that a character or a contraction that leaves  *)
(* it can be read.                                                         *)
(***************************************************************************)
EXTENDS PretokText, TextMasks
LOCAL INSTANCE FiniteSetsExt

CONSTANT Look
ASSUME BatchShape == W > 3 /\ Look \in Nat /\ Look >= 3

Up(S, k) == {i + k : i \in S} \cap Bits
Down(S, k) == {i - k : i \in S} \cap Bits
From(i) == {j \in Bits : j >= i}
If(c, i) == IF c THEN {i} ELSE {}
(* The bits of `within` that a run of set bits joins to a seed below. *)
SmearUp(seed, within) ==
    seed \cup {j \in within : \E i \in seed : i <= j /\ \A k \in i + 1 .. j : k \in within}

(* No batch without its lookahead. *)
NoMasks == [usable |-> {}, bad |-> Bits]
Fits(t, s) == s + W + Look <= Len(t)

(* Byte masks: every byte of a character carries its character's category. *)
OfCat(t, s, C) == {i \in Bits : Cat(t, LeadOf(t, s + i)) \in C}
OfByte(t, s, B) == {i \in Bits : Byte(t, s + i) \in B}
Hi(t, s) == {i \in Bits : ~Ascii(t, s + i)}
LeadsOf(t, s, n) == {i \in Bits : Byte(t, s + i) \in Leads /\ ByteLen(Byte(t, s + i)) = n}
(* Whitespace leads of n bytes that end inside the batch. *)
WsLeads(t, s, n) == {i \in LeadsOf(t, s, n) : Cat(t, s + i) = "space" /\ i + n <= W}
(* Characters the scalar path must decide: whitespace that crosses either  *)
(* edge of the batch, and non-ASCII numbers where digits are counted.      *)
Residual(t, s, numbers) ==
    {i \in Hi(t, s) : LET j == LeadOf(t, s + i) IN
        \/ Cat(t, j) = "space" /\ (j < s \/ CharEnd(t, j) > s + W)
        \/ ~numbers /\ Cat(t, j) \in Number}

PrevByte(t, s) == IF s = 0 THEN "none" ELSE Byte(t, s - 1)
(* The category of the character that ends or runs through byte p - 1. *)
Before(t, p) == IF p = 0 THEN "none" ELSE Cat(t, LeadOf(t, p - 1))
NonWhiteAt(t, p) == Cat(t, p) # "space"

(***************************************************************************)
(* \p{N}{1,3} over a digit mask: a token starts at each third digit from   *)
(* the run's first one in the batch, or, grouped from the right, at the    *)
(* first digit and before each third digit from the run's end.             *)
(***************************************************************************)
RunOf(d, i) == {j \in d : \A k \in Min({i, j}) .. Max({i, j}) : k \in d}
Splits3(d) == {i \in d : (i - Min(RunOf(d, i))) % 3 = 0}
Splits3Right(d) ==
    {i \in d : i = Min(RunOf(d, i)) \/ (Max(RunOf(d, i)) - i + 1) % 3 = 0}

(***************************************************************************)
(* Whitespace starts in ws, the whitespace no token has swallowed, after   *)
(* the character prev: a run's first character and, before something else, *)
(* its last one; in a run with a newline, the first one, the one after its *)
(* last newline and the last one behind that.                              *)
(***************************************************************************)
Blanks(t, s, ws, bad, edgeNonWhite, prev) ==
    LET ascii == ws \ Hi(t, s)
        w2 == WsLeads(t, s, 2)
        w3 == WsLeads(t, s, 3)
        leads == ascii \cup w2 \cup w3
        nonws == Bits \ ws
        pws == Up(ws, 1) \cup If(prev = "space", 0)
        edge == (ascii \cap {W - 1}) \cup (w2 \cap {W - 2}) \cup (w3 \cap {W - 3})
        splitOk == (ascii \cap Down(nonws, 1)) \cup (w2 \cap Down(nonws, 2))
                   \cup (w3 \cap Down(nonws, 3)) \cup (IF edgeNonWhite THEN edge ELSE {})
        nl == OfByte(t, s, {Newline}) \cap ws
        runs == {RunOf(ws, f) : f \in nl \ bad}
        starts(run) ==
            LET q == Max(nl \cap run)
                tail == {i \in run : i > q}
            IN  {Min(run)} \cup (IF tail = {} THEN {} ELSE {q + 1, Max(leads \cap tail)})
    IN  ((leads \cap ((Bits \ pws) \cup splitOk)) \ UNION runs)
        \cup UNION {starts(run) : run \in runs}
=============================================================================
