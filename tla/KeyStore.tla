------------------------------ MODULE KeyStore ------------------------------
(***************************************************************************)
(* What ShortPretokenCache (src/src/bpe/pretoken_cache.rs) promises its    *)
(* users: a map from pretoken keys to packed encodings that answers a      *)
(* lookup with what was stored last, until the whole map is emptied.       *)
(***************************************************************************)
CONSTANTS Keys, Vals, Absent

VARIABLES
    content,   \* what is stored under each key, or Absent
    result     \* the answer to the last lookup

vars == <<content, result>>

Init == content = [k \in Keys |-> Absent] /\ result = Absent

Get(k) == result' = content[k] /\ UNCHANGED content
Put(k, v) == content' = [content EXCEPT ![k] = v] /\ UNCHANGED result
Empty == content' = [k \in Keys |-> Absent] /\ UNCHANGED result

Next == Empty \/ \E k \in Keys : Get(k) \/ \E v \in Vals : Put(k, v)

Spec == Init /\ [][Next]_vars
=============================================================================
