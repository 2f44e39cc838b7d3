--------------------------- MODULE GatherContract ---------------------------
(***************************************************************************)
(* What src/src/batch.rs promises for one batch: the chunks of a batch are *)
(* encoded once each, in any order and by any worker, and the caller gets  *)
(* the concatenation of their outputs in chunk order, or a panic when a    *)
(* chunk could not be encoded.  Nothing here says how the copy is done.    *)
(***************************************************************************)
EXTENDS Batches

VARIABLES
    job,       \* the batch, fixed from the start
    encoded,   \* chunks whose output exists
    status,    \* "running", "answered" or "failed"
    answer     \* the flat token buffer handed to the caller

vars == <<job, encoded, status, answer>>

Init ==
    /\ job \in Jobs
    /\ encoded = {}
    /\ status = "running"
    /\ answer = <<>>

Encode(i) ==
    /\ status = "running"
    /\ i \in Chunks(job) \ encoded
    /\ encoded' = encoded \cup {i}
    /\ UNCHANGED <<job, status, answer>>

Deliver ==
    /\ status = "running"
    /\ encoded = Chunks(job)
    /\ status' = "answered"
    /\ InOrder(job, answer')
    /\ UNCHANGED <<job, encoded>>

(* The batch fails only for a chunk that was never encoded. *)
Fail ==
    /\ status = "running"
    /\ encoded # Chunks(job)
    /\ status' = "failed"
    /\ UNCHANGED <<job, encoded, answer>>

Next == (\E i \in Chunks(job) : Encode(i)) \/ Deliver \/ Fail

Spec == Init /\ [][Next]_vars
=============================================================================
