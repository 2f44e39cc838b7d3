-------------------------- MODULE MCPretokenTable ---------------------------
(* Small tables for the TLC runs of PretokenTable. *)
EXTENDS PretokenTable

(* Keys are numbers; the hashes make the first three collide in every table, put
   one in the last pair so that its walk wraps, and separate 1 from 2 only after
   the second growth. *)
SmallHash == [k \in Keys |-> CASE k = 1 -> 0 [] k = 2 -> 9 [] k = 3 -> 16
                               [] k = 4 -> 7 [] OTHER -> 5]
=============================================================================
