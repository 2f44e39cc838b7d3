--------------------------- MODULE MCPretokenCache --------------------------
(* A small vocabulary for the TLC runs of PretokenCache: "w" is a word its merges
   reach, "u" one they do not, "s" and "t" are short and "l", "h" and "g" long
   pretokens; "g" is in the vocabulary and encodes to more than the arena's share. *)
EXTENDS PretokenCache

MCWidth == [p \in {"w", "u", "s", "t", "l", "h", "g"} |->
               CASE p = "w" -> 1 [] p = "u" -> 2 [] p = "s" -> 1 [] p = "t" -> 2 [] p \in {"l", "h"} -> 2 [] p = "g" -> 9]
MCKeyLen == [p \in {"w", "u", "s", "t", "l", "h", "g"} |-> IF p \in {"h", "g"} THEN 5 ELSE 1]
=============================================================================
