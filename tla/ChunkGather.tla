----------------------------- MODULE ChunkGather ----------------------------
(***************************************************************************)
(* encode_chunks_gathered_with_cap and Committer of src/src/batch.rs: one  *)
(* pulling task per rayon thread claims chunks through an atomic counter,  *)
(* encodes them, and between chunks tries to copy the completed prefix     *)
(* into a buffer reserved up front, under a lock taken with try_lock.      *)
(* When the tasks have joined, the suffix is copied in parallel; when the  *)
(* reservation was refused or overrun, everything is copied again into a   *)
(* fresh buffer.                                                           *)
(*                                                                         *)
(* Relaxed memory: the counter is only ever used through fetch_add, outs   *)
(* is a OnceLock (release/acquire) and the cursor is behind a Mutex, so    *)
(* one atomic step per access is what the build can show.                  *)
(***************************************************************************)
EXTENDS Batches, FiniteSets

CONSTANTS
    Tasks,       \* the pulling tasks rayon can run, one per thread
    MaxDrain,    \* Committer::MAX_DRAIN
    MaxPanics,   \* bound: encodes that panic in one batch
    NoTask,      \* the commit lock is free
    Unset        \* a buffer entry that holds no token yet

ASSUME TasksAssumption == IsFiniteSet(Tasks) /\ Tasks # {} /\ NoTask \notin Tasks
ASSUME BoundsAssumption == MaxDrain \in Nat \ {0} /\ MaxPanics \in Nat
ASSUME UnsetAssumption ==
    \A j \in Jobs : \A i \in Chunks(j) : \A k \in 1..j.size[i] : Unset # <<i, k>>

VARIABLES
    job,         \* the batch, fixed from the start
    outs,        \* chunks whose OnceLock is filled
    status,      \* "running", "copying", "answered" or "failed"
    answer,      \* the flat token buffer handed to the caller
    committer,   \* Committer::try_new reserved a buffer
    next,        \* the AtomicUsize handing out chunks (1-based here)
    pc,          \* where each task is
    idx,         \* the index each task claimed last
    drained,     \* chunks copied by the task inside its current advance
    lock,        \* holder of Committer.cursor, or NoTask
    cursor,      \* CommitCursor
    flat,        \* the buffer being filled
    pending,     \* chunks still to copy after the join
    panics       \* encodes that panicked

call == <<job, outs, status, answer>>
run  == <<committer, next, pc, idx, drained, lock, cursor, flat, panics>>
vars == <<call, run, pending>>

N == Len(job.size)
PCs == {"claim", "encode", "advance", "drain", "bump", "unlock", "gone", "dead"}

(***************************************************************************)
(* encode_chunks_gathered_with_cap up to the scope: nothing to fan out for *)
(* one chunk or none; otherwise try_new may refuse (always for cap 0) and  *)
(* min(threads, chunks) tasks are spawned.                                 *)
(***************************************************************************)
TryNew ==
    /\ committer \in BOOLEAN
    /\ (job.cap = 0 \/ N <= 1) => ~committer
    /\ flat = [k \in 1..(IF committer THEN job.cap ELSE 0) |-> Unset]
    /\ cursor = [next |-> 1, offset |-> 0, overflowed |-> FALSE]

Init ==
    /\ job \in Jobs
    /\ outs = {} /\ status = "running" /\ answer = <<>>
    /\ TryNew
    /\ next = 1
    /\ \E spawned \in SUBSET Tasks :
          /\ N > 1 => IF Cardinality(Tasks) <= N THEN spawned = Tasks ELSE Cardinality(spawned) = N
          /\ N <= 1 => spawned = {}
          /\ pc = [t \in Tasks |-> IF t \in spawned THEN "claim" ELSE "gone"]
    /\ idx = [t \in Tasks |-> 0]
    /\ drained = [t \in Tasks |-> 0]
    /\ lock = NoTask
    /\ pending = {}
    /\ panics = 0

Goto(t, label) == pc' = [pc EXCEPT ![t] = label]

(* Bug: the last advance is repeated until the lock is won, or lost again. *)
AfterAdvanceRetries(t) == Goto(t, IF idx[t] > N THEN "advance" ELSE "claim")

(* After advance a task pulls again, unless it found the counter exhausted. *)
AfterAdvance(t) == Goto(t, IF idx[t] > N THEN "gone" ELSE "claim")

(* The lone chunk of a small batch: its buffer is the answer. *)
Serial ==
    /\ status = "running" /\ N <= 1
    /\ \/ /\ outs # Chunks(job)
          /\ outs' = Chunks(job)
          /\ UNCHANGED <<job, status, answer, run, pending>>
       \/ /\ outs = Chunks(job)
          /\ status' = "answered"
          /\ answer' = [k \in 1..Total(job) |-> <<1, k>>]
          /\ UNCHANGED <<job, outs, run, pending>>

(* The encode of the lone chunk panics: the caller runs it itself, so it is the one
   that panics. *)
SerialPanic ==
    /\ status = "running" /\ N <= 1 /\ outs # Chunks(job)
    /\ panics < MaxPanics
    /\ panics' = panics + 1
    /\ status' = "failed"
    /\ UNCHANGED <<job, outs, answer, committer, next, pc, idx, drained, lock,
                   cursor, flat, pending>>

(* next.fetch_add(1): past the last chunk only one last advance is left. *)
Claim(t) ==
    /\ pc[t] = "claim"
    /\ next' = next + 1
    /\ idx' = [idx EXCEPT ![t] = next]
    /\ Goto(t, CASE next <= N -> "encode"
                 [] next > N /\ committer -> "advance"
                 [] OTHER -> "gone")
    /\ UNCHANGED <<call, committer, drained, lock, cursor, flat, pending, panics>>

(* outs[i].set(encode(chunk)) *)
EncodeChunk(t) ==
    /\ pc[t] = "encode"
    /\ outs' = outs \cup {idx[t]}
    /\ Goto(t, IF committer THEN "advance" ELSE "claim")
    /\ UNCHANGED <<job, status, answer, committer, next, idx, drained, lock,
                   cursor, flat, pending, panics>>

(* The encode panics: rayon keeps the panic for the join, the task ends. *)
Panic(t) ==
    /\ pc[t] = "encode"
    /\ panics < MaxPanics
    /\ panics' = panics + 1
    /\ Goto(t, "dead")
    /\ UNCHANGED <<call, committer, next, idx, drained, lock, cursor, flat, pending>>

(* Bug: advance drains without having got the lock. *)
AdvanceUnlocked(t) ==
    /\ pc[t] = "advance"
    /\ lock' = t /\ drained' = [drained EXCEPT ![t] = 0] /\ Goto(t, "drain")
    /\ UNCHANGED <<call, committer, next, idx, cursor, flat, pending, panics>>

(* cursor.try_lock(): a busy lock sends the task straight back to work. *)
TryLock(t) ==
    /\ pc[t] = "advance"
    /\ IF lock = NoTask
       THEN lock' = t /\ drained' = [drained EXCEPT ![t] = 0] /\ Goto(t, "drain")
       ELSE AfterAdvance(t) /\ UNCHANGED <<lock, drained>>
    /\ UNCHANGED <<call, committer, next, idx, cursor, flat, pending, panics>>

CanDrain(t) ==
    /\ drained[t] < MaxDrain
    /\ ~cursor.overflowed
    /\ cursor.next \in outs

(* Bug: one token too many is let into the reservation. *)
FitsLoosely == job.cap - cursor.offset + 1 >= job.size[cursor.next]

Fits == job.cap - cursor.offset >= job.size[cursor.next]

(* buffer with the output of chunk i, as its OnceLock has it, copied after the
   first `off` tokens *)
Copy(buffer, i, off) ==
    [k \in DOMAIN buffer |->
        IF k \in (off + 1)..(off + job.size[i])
        THEN IF i \in outs THEN <<i, k - off>> ELSE Unset
        ELSE buffer[k]]

(* One turn of the drain loop: copy_nonoverlapping of the next chunk ... *)
Drain(t) ==
    /\ pc[t] = "drain"
    /\ CanDrain(t) /\ Fits
    /\ flat' = Copy(flat, cursor.next, cursor.offset)
    /\ Goto(t, "bump")
    /\ UNCHANGED <<call, committer, next, idx, drained, lock, cursor, pending, panics>>

(* Bug: the cursor moves on to the next chunk at the same offset. *)
BumpInPlace(t) ==
    /\ pc[t] = "bump"
    /\ cursor' = [cursor EXCEPT !.next = @ + 1]
    /\ drained' = [drained EXCEPT ![t] = @ + 1]
    /\ Goto(t, "drain")
    /\ UNCHANGED <<call, committer, next, idx, lock, flat, pending, panics>>

(* ... then cur.offset += len and cur.next += 1. *)
Bump(t) ==
    /\ pc[t] = "bump"
    /\ cursor' = [cursor EXCEPT !.offset = @ + job.size[cursor.next], !.next = @ + 1]
    /\ drained' = [drained EXCEPT ![t] = @ + 1]
    /\ Goto(t, "drain")
    /\ UNCHANGED <<call, committer, next, idx, lock, flat, pending, panics>>

(* The turn that stops: for good when the chunk does not fit. *)
StopDrain(t) ==
    /\ pc[t] = "drain"
    /\ ~(CanDrain(t) /\ Fits)
    /\ cursor' = [cursor EXCEPT !.overflowed = @ \/ CanDrain(t)]
    /\ Goto(t, "unlock")
    /\ UNCHANGED <<call, committer, next, idx, drained, lock, flat, pending, panics>>

(* The guard drops: chunks completed since the last check stay for later. *)
Unlock(t) ==
    /\ pc[t] = "unlock"
    /\ lock' = NoTask
    /\ AfterAdvance(t)
    /\ UNCHANGED <<call, committer, next, idx, drained, cursor, flat, pending, panics>>

(* Bug: an exhausted counter is taken for finished tasks. *)
JoinedEarly == \A t \in Tasks : pc[t] \in {"gone", "dead"} \/ next > N

Joined == \A t \in Tasks : pc[t] \in {"gone", "dead"}

(* Committer::finish gives the buffer up when the bound was overrun. *)
Finishable == committer /\ ~cursor.overflowed /\ Total(job) <= job.cap

(* Bug: the suffix starts one chunk late. *)
UncopiedSkips == IF Finishable THEN (cursor.next + 1)..N ELSE Chunks(job)

(* What is left to copy: the uncommitted suffix, or everything again. *)
Uncopied == IF Finishable THEN cursor.next..N ELSE Chunks(job)

(***************************************************************************)
(* The scope has joined.  A worker panic is rethrown and no output is      *)
(* collected; an empty OnceLock would panic too ("every claimed chunk was  *)
(* encoded").  Otherwise finish keeps the committed prefix and plans the   *)
(* suffix, or gather_flat starts over in a fresh buffer.                   *)
(***************************************************************************)
Join ==
    /\ N > 1 /\ status = "running" /\ Joined
    /\ IF panics > 0 \/ outs # Chunks(job)
       THEN status' = "failed" /\ UNCHANGED <<run, pending>>
       ELSE /\ status' = "copying"
            /\ pending' = Uncopied
            /\ flat' = IF Finishable THEN flat ELSE [k \in 1..Total(job) |-> Unset]
            /\ UNCHANGED <<committer, next, pc, idx, drained, lock, cursor, panics>>
    /\ UNCHANGED <<job, outs, answer>>

(* One of the parallel copies, at the offset its loop computed. *)
CopySuffix(i) ==
    /\ status = "copying"
    /\ i \in pending
    /\ pending' = pending \ {i}
    /\ flat' = Copy(flat, i,
                    IF Finishable THEN cursor.offset + (job.start[i] - job.start[cursor.next])
                                  ELSE job.start[i])
    /\ UNCHANGED <<call, committer, next, pc, idx, drained, lock, cursor, panics>>

(* set_len(total): the reservation beyond the tokens is given back. *)
SetLen ==
    /\ status = "copying"
    /\ pending = {}
    /\ status' = "answered"
    /\ answer' = [k \in 1..Total(job) |-> flat[k]]
    /\ UNCHANGED <<job, outs, run, pending>>

TaskStep(t) == Claim(t) \/ EncodeChunk(t) \/ Panic(t) \/ TryLock(t)
                  \/ Drain(t) \/ Bump(t) \/ StopDrain(t) \/ Unlock(t)
CallerStep == Serial \/ SerialPanic \/ Join \/ (\E i \in pending : CopySuffix(i)) \/ SetLen

(* The caller has its answer (or its panic): nothing is left to do. *)
Finished == status \in {"answered", "failed"} /\ UNCHANGED vars

Next == (\E t \in Tasks : TaskStep(t)) \/ CallerStep \/ Finished

(***************************************************************************)
(* rayon keeps running a task it has started and the caller blocks on the  *)
(* scope; try_lock never waits, so weak fairness of each is what an OS     *)
(* that schedules every thread gives.                                      *)
(***************************************************************************)
Fairness ==
    /\ \A t \in Tasks : WF_vars(TaskStep(t))
    /\ WF_vars(CallerStep)

Spec == Init /\ [][Next]_vars
FairSpec == Spec /\ Fairness
-----------------------------------------------------------------------------
Tokens == UNION { {<<i, k>> : k \in 1..job.size[i]} : i \in Chunks(job) }

(* Entries of the buffer being filled: the reservation, or the fresh buffer that
   gather_flat allocates when the reservation cannot be used. *)
BufferLen ==
    CASE N <= 1 -> 0
      [] N > 1 /\ (status \in {"running", "failed"} \/ Finishable) ->
            IF committer THEN job.cap ELSE 0
      [] OTHER -> Total(job)

TypeOK ==
    /\ job \in Jobs
    /\ outs \in SUBSET Chunks(job)
    /\ status \in {"running", "copying", "answered", "failed"}
    /\ committer \in BOOLEAN
    /\ next \in Nat \ {0}
    /\ pc \in [Tasks -> PCs]
    /\ idx \in [Tasks -> 0..(next - 1)]
    /\ drained \in [Tasks -> 0..MaxDrain]
    /\ lock \in Tasks \cup {NoTask}
    /\ cursor \in [next: 1..(N + 1), offset: 0..job.cap, overflowed: BOOLEAN]
    /\ flat \in [1..BufferLen -> Tokens \cup {Unset}]
    /\ pending \in SUBSET Chunks(job)
    /\ panics \in 0..MaxPanics

(***************************************************************************)
(* The buffer is filled strictly in order and within the reservation: what *)
(* the cursor says is committed is exactly the outputs of the first        *)
(* chunks, whoever copied them (the SAFETY comments of Committer).         *)
(***************************************************************************)
CommittedPrefix ==
    /\ cursor.offset = job.start[cursor.next]
    /\ status = "running" \/ Finishable =>
          \A i \in 1..(cursor.next - 1) : i \in outs /\ Placed(job, flat, i)

(***************************************************************************)
(* Each index is claimed exactly once, so `set` cannot already be filled.  *)
(***************************************************************************)
ClaimedOnce ==
    \A t \in Tasks : pc[t] = "encode" =>
        /\ idx[t] \in Chunks(job) \ outs
        /\ \A u \in Tasks : pc[u] = "encode" /\ idx[u] = idx[t] => u = t

(***************************************************************************)
(* No chunk is lost between tasks: the batch fails only when an encode     *)
(* panicked, never on "every claimed chunk was encoded".                   *)
(***************************************************************************)
FailsOnlyOnPanic == status = "failed" => panics > 0

(***************************************************************************)
(* What the caller gets is the in-order concatenation, whether it was      *)
(* committed while encoding, finished in parallel or gathered again.       *)
(***************************************************************************)
AnswerInOrder == status = "answered" => InOrder(job, answer)

(***************************************************************************)
(* No copy changes a token placed before: the copies of advance, of finish *)
(* and of gather_flat land in disjoint ranges of the buffer.               *)
(***************************************************************************)
NoOverwrite ==
    [][ DOMAIN flat' = DOMAIN flat =>
          \A k \in DOMAIN flat : flat[k] # Unset => flat'[k] = flat[k] ]_flat

Contract == INSTANCE GatherContract WITH
    encoded <- outs,
    status  <- IF status = "copying" THEN "running" ELSE status

(* The overlapped gather implements the contract of the batch: each chunk is
   encoded once and the caller gets one in-order answer or one failure. *)
ImplementsContract == Contract!Spec

(* Every batch comes to an answer or to the panic of one of its encodes. *)
Terminates == <>(status \in {"answered", "failed"})
=============================================================================
