----------------------------- MODULE TextMasks -----------------------------
(***************************************************************************)
(* What the mask scanner knows of a text (the MaskScheme hooks of          *)
(* src/src/pretokenize/fast/mask.rs): the end of the token that starts at  *)
(* a position, and for each batch of W bytes on the grid 0, W, 2W, ... the *)
(* trusted token starts (usable) and the bytes that need the scalar path   *)
(* (bad), both as sets of bit numbers.  W is 64 in the code.               *)
(*                                                                         *)
(* A text is a record [len, next, usable, bad, starts, entry].  The last   *)
(* two are ghosts that the contract below fixes: the token starts, and for *)
(* each batch the first position a walker resumes at when it enters it.    *)
(***************************************************************************)
EXTENDS Integers

CONSTANT W
ASSUME Width == W \in Nat /\ W > 0

Bits == 0 .. W - 1
(* The base of the batch that holds byte p. *)
Base(p) == W * (p \div W)
Bases(len) == {s \in 0 .. len : s % W = 0 /\ s + W <= len}

IsText(t) ==
    /\ t.len \in Nat
    /\ t.next \in [0 .. t.len - 1 -> 0 .. t.len]
    /\ t.usable \in [Bases(t.len) -> SUBSET Bits]
    /\ t.bad \in [Bases(t.len) -> SUBSET Bits]
    /\ t.starts \in SUBSET (0 .. t.len)
    /\ t.entry \in [Bases(t.len) -> t.starts]

(* starts are the positions the scalar walk from 0 stops at. *)
IsWalk(t) ==
    /\ {0, t.len} \subseteq t.starts
    /\ \A p \in t.starts \ {t.len} :
          /\ p < t.next[p] /\ t.next[p] \in t.starts
          /\ \A q \in t.starts : q <= p \/ t.next[p] <= q

(***************************************************************************)
(* entry: a walker enters batch s at the last start below it, unless the   *)
(* batch before held a bad byte from that start on, or was itself entered  *)
(* beyond s: then a scalar step has run over and left it at the first      *)
(* start of s or later.                                                    *)
(***************************************************************************)
Late(t, s, p) ==
    t.entry[s - W] >= s \/ \E k \in t.bad[s - W] : s - W + k >= p
IsEntry(t) ==
    /\ 0 \in Bases(t.len) => t.entry[0] = 0
    /\ \A s \in Bases(t.len), p \in t.starts :
          /\ s <= p => t.entry[s] <= p
          /\ s > 0 /\ p < s /\ ~Late(t, s, p) /\ (\A q \in t.starts : q <= p \/ s <= q)
                => t.entry[s] <= p

(***************************************************************************)
(* What a scheme's batch_masks promises: seen from a token start r it may  *)
(* be resumed at, the usable bits up to the next bad one are exactly the   *)
(* token starts there.  Bits below r may be stale.                         *)
(***************************************************************************)
Trusted(t, s, r) ==
    \A k \in Bits :
        (s + k > r /\ \A b \in t.bad[s] : s + b >= r => k < b)
            => (k \in t.usable[s] <=> s + k \in t.starts)
MaskContract(t) ==
    /\ IsText(t) /\ IsWalk(t) /\ IsEntry(t)
    /\ \A s \in Bases(t.len) :
          /\ t.usable[s] \cap t.bad[s] = {}
          /\ \A r \in t.starts : t.entry[s] <= r /\ r < s + W => Trusted(t, s, r)
=============================================================================
