------------------------------ MODULE Batches -------------------------------
(***************************************************************************)
(* The batches that encode_chunks_gathered (src/src/batch.rs) is given.    *)
(* The output of a chunk does not depend on who encodes it or when, so a   *)
(* batch is known by its chunk outputs: size[i] tokens come out of chunk   *)
(* i, start[i] tokens of the batch come before them, and cap tokens are    *)
(* reserved up front.  Token k of chunk i is the pair <<i, k>>: no two     *)
(* tokens of a batch are alike.                                            *)
(***************************************************************************)
EXTENDS Integers, Sequences

CONSTANT Jobs   \* the batches considered

Chunks(j)  == 1..Len(j.size)
Total(j)   == j.start[Len(j.size) + 1]

(* start[i] is the running sum of the sizes before chunk i. *)
IsJob(j) ==
    /\ j.size \in Seq(Nat)
    /\ j.start \in [1..(Len(j.size) + 1) -> Nat]
    /\ j.start[1] = 0
    /\ \A i \in Chunks(j) : j.start[i + 1] = j.start[i] + j.size[i]
    /\ j.cap \in Nat

ASSUME JobsAssumption == \A j \in Jobs : IsJob(j)

(* Buffer f holds every token of chunk i where the batch wants it. *)
Placed(j, f, i) == \A k \in 1..j.size[i] : f[j.start[i] + k] = <<i, k>>

(* Buffer f is the concatenation of all chunk outputs, in chunk order. *)
InOrder(j, f) ==
    /\ DOMAIN f = 1..Total(j)
    /\ \A i \in Chunks(j) : Placed(j, f, i)
=============================================================================
