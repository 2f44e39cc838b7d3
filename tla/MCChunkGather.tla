---------------------------- MODULE MCChunkGather ---------------------------
(* Small batches for the TLC run of ChunkGather. *)
EXTENDS ChunkGather, SequencesExt

JobOf(size, cap) ==
    [size  |-> size,
     start |-> [i \in 1..(Len(size) + 1) |-> FoldSeq(+, 0, SubSeq(size, 1, i - 1))],
     cap   |-> cap]

(* No chunk, a lone chunk, and three chunks of different sizes (one empty), each
   with no reservation, one that two chunks overrun, one that fits exactly and
   one with room to spare.  With MaxDrain = 2, three chunks can leave a backlog. *)
MCJobs ==
    { JobOf(s, c) : s \in {<<>>, <<2>>, <<1, 2, 0>>, <<2, 0, 1>>, <<2, 1, 1>>},
                    c \in {0, 2, 3, 5} }
=============================================================================
