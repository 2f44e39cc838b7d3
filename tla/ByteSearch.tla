----------------------------- MODULE ByteSearch -----------------------------
(* Finding things in byte strings, as memchr::memmem and the iterators of
   src/src/input/ do.  Offsets count from 0; the bytes from offset a up to, not
   including, offset b are Slice(s, a, b). *)
EXTENDS Integers, Sequences, FiniteSetsExt

Slice(s, a, b) == SubSeq(s, a + 1, b)

(* Offsets in a..b at which the needle occurs inside Slice(s, a, b). *)
Hits(s, needle, a, b) ==
    {p \in a..(b - Len(needle)) : Slice(s, p, p + Len(needle)) = needle}

(* Finder::find: the first occurrence, where there is one. *)
Find(s, needle, a, b) == Min(Hits(s, needle, a, b))
=============================================================================
