---------------------------- MODULE BatchProofs -----------------------------
(* Theorems about the three parts of src/src/batch.rs: about ChunkGather, for every batch
   and every number of tasks, its invariants, that no copy overwrites another and that
   it implements GatherContract; about WorkerPool, for every number of threads and slots,
   its invariants; about DocChunks, for every set of inputs whose cuts are exact, that
   its chunks give the tokens and the rows of the documents, with the theorem of
   SafeSplit this rests on: a text cut at a safe place is encoded as it is whole. *)
EXTENDS ChunkGather, WorkerPool, DocChunks, FiniteSetTheorems, SequenceTheorems,
        WellFoundedInduction, TLAPS

-----------------------------------------------------------------------------
(* Facts about batches. *)

(* Every nonempty set of naturals has a least element. *)
LEMMA LeastNat ==
    ASSUME NEW S \in SUBSET Nat, S # {}
    PROVE  \E x \in S : \A y \in S : x <= y
<1>1. IsWellFoundedOn(OpToRel(<, Nat), Nat)
  BY NatLessThanWellFounded
<1>2. PICK x \in S : \A y \in S : ~(<<y, x>> \in OpToRel(<, Nat))
  BY <1>1, WFMin
<1>3. \A y \in S : ~(y < x)
  BY <1>2 DEF OpToRel
<1> QED
  BY <1>3

(* The chunks of a batch start in chunk order. *)
LEMMA StartMonotone ==
    ASSUME NEW j, IsJob(j),
           NEW a \in 1..(Len(j.size) + 1), NEW b \in a..(Len(j.size) + 1)
    PROVE  j.start[a] <= j.start[b]
<1> DEFINE L == Len(j.size)
           Bad == {c \in a..(L + 1) : ~(j.start[a] <= j.start[c])}
<1>1. L \in Nat /\ j.size \in [1..L -> Nat] /\ j.start \in [1..(L + 1) -> Nat]
  BY DEF IsJob
<1>2. SUFFICES ASSUME Bad # {} PROVE FALSE
  BY <1>1
<1>3. Bad \in SUBSET Nat
  BY <1>1
<1>4. PICK c \in Bad : \A d \in Bad : c <= d
  BY <1>2, <1>3, LeastNat
<1>5. c # a /\ c \in (a + 1)..(L + 1)
  BY <1>1, <1>4
<1>6. c - 1 \in a..(L + 1) /\ c - 1 \in 1..L /\ c - 1 \notin Bad
  BY <1>1, <1>4, <1>5
<1>7. j.start[a] <= j.start[c - 1]
  BY <1>6
<1>8. j.start[c] = j.start[c - 1] + j.size[c - 1]
  BY <1>5, <1>6 DEF IsJob, Chunks
<1>9. /\ j.start[a] \in Nat /\ j.start[c] \in Nat
      /\ j.start[c - 1] \in Nat /\ j.size[c - 1] \in Nat
  <2>1. c \in 1..(L + 1) /\ c - 1 \in 1..(L + 1) /\ a \in 1..(L + 1)
    BY <1>1, <1>5, <1>6
  <2> QED
    BY <1>1, <1>6, <2>1
<1>10. j.start[a] <= j.start[c]
  BY <1>7, <1>8, <1>9, SMTT(30)
<1> QED
  BY <1>4, <1>10

(* What a job's fields are. *)
LEMMA JobFacts ==
    ASSUME NEW j, IsJob(j)
    PROVE  /\ Len(j.size) \in Nat
           /\ j.size \in [1..Len(j.size) -> Nat]
           /\ j.start \in [1..(Len(j.size) + 1) -> Nat]
           /\ j.cap \in Nat /\ Total(j) \in Nat
           /\ \A i \in Chunks(j) : /\ i \in Nat /\ i + 1 \in 1..(Len(j.size) + 1)
                                   /\ j.start[i + 1] = j.start[i] + j.size[i]
                                   /\ j.start[i] + j.size[i] <= Total(j)
<1>1. /\ Len(j.size) \in Nat
      /\ j.size \in [1..Len(j.size) -> Nat]
      /\ j.start \in [1..(Len(j.size) + 1) -> Nat]
      /\ j.cap \in Nat /\ Total(j) \in Nat
  BY SMTT(30) DEF IsJob, Total
<1>2. ASSUME NEW i \in Chunks(j)
      PROVE  /\ i \in Nat /\ i + 1 \in 1..(Len(j.size) + 1)
             /\ j.start[i + 1] = j.start[i] + j.size[i]
             /\ j.start[i] + j.size[i] <= Total(j)
  <2>1. i \in 1..Len(j.size)
    BY <1>2 DEF Chunks
  <2>2. i + 1 \in 1..(Len(j.size) + 1) /\ Len(j.size) + 1 \in (i + 1)..(Len(j.size) + 1)
    BY <2>1, <1>1
  <2>3. j.start[i + 1] = j.start[i] + j.size[i]
    BY DEF IsJob
  <2>4. j.start[i + 1] <= Total(j)
    BY <2>2, StartMonotone DEF Total
  <2> QED
    BY <1>1, <2>1, <2>2, <2>3, <2>4
<1> QED
  BY <1>1, <1>2

(* Different chunks occupy different entries of the answer. *)
LEMMA Disjoint ==
    ASSUME NEW j, IsJob(j), NEW a \in Chunks(j), NEW b \in Chunks(j), a < b
    PROVE  j.start[a] + j.size[a] <= j.start[b]
<1>1. /\ a + 1 \in 1..(Len(j.size) + 1) /\ b \in (a + 1)..(Len(j.size) + 1)
  BY JobFacts DEF Chunks
<1>2. j.start[a + 1] <= j.start[b]
  BY <1>1, StartMonotone
<1> QED
  BY <1>2, JobFacts

-----------------------------------------------------------------------------
(* The inductive invariant. *)

InCommit == {"drain", "bump", "unlock"}

(* The commit lock is held by exactly the task inside advance. *)
LockHeld == \A t \in Tasks : pc[t] \in InCommit <=> lock = t

(* Between the two halves of a commit the copied chunk is in the buffer. *)
HalfCommitted ==
    \A t \in Tasks : pc[t] = "bump" =>
        /\ cursor.next \in outs
        /\ cursor.offset + job.size[cursor.next] <= job.cap
        /\ drained[t] < MaxDrain
        /\ Placed(job, flat, cursor.next)

(* A claimed chunk is encoded, being encoded, or lost to a panic. *)
Accounted ==
    /\ \A i \in outs : N > 1 => i < next
    /\ \A i \in Chunks(job) : i < next =>
          i \in outs \/ panics > 0 \/ \E t \in Tasks : pc[t] = "encode" /\ idx[t] = i

(* Some task still pulls until the counter is exhausted. *)
Pulling ==
    N > 1 => next > N \/ panics > 0 \/ ~Joined

(* Without a reservation nobody commits; a small batch spawns nobody. *)
Commits == (\E t \in Tasks : pc[t] \in InCommit \cup {"advance"}) => committer
Fanned  == N <= 1 => /\ Joined /\ next = 1 /\ ~committer
                     /\ status # "copying" /\ pending = {}

(* After the join: every chunk is in the buffer or still to be copied. *)
Gathered ==
    /\ status # "running" => Joined
    /\ status \in {"running", "failed", "answered"} => pending = {}
    /\ status = "running" /\ cursor.next > 1 => committer
    /\ status \in {"copying", "answered"} /\ N > 1 =>
          /\ outs = Chunks(job)
          /\ Finishable => pending \subseteq cursor.next..N
          /\ \A i \in Chunks(job) \ pending : Placed(job, flat, i)

IInv ==
    /\ TypeOK
    /\ CommittedPrefix /\ ClaimedOnce /\ FailsOnlyOnPanic /\ AnswerInOrder
    /\ LockHeld /\ HalfCommitted /\ Accounted /\ Pulling /\ Commits /\ Fanned /\ Gathered

-----------------------------------------------------------------------------
(* Facts the step proofs share. *)

LEMMA BatchFacts ==
    ASSUME TypeOK
    PROVE  /\ IsJob(job) /\ N \in Nat /\ Chunks(job) = 1..N
           /\ job.size \in [1..N -> Nat] /\ job.start \in [1..(N + 1) -> Nat]
           /\ job.cap \in Nat /\ Total(job) \in Nat
BY JobsAssumption, JobFacts DEF TypeOK, N, Chunks

(* Copying a chunk where the batch wants it places it and disturbs no other. *)
LEMMA CopyPlaces ==
    ASSUME TypeOK, NEW n \in Nat, NEW f \in [1..n -> Tokens \cup {Unset}],
           NEW i \in outs, job.start[i] + job.size[i] <= n
    PROVE  LET g == Copy(f, i, job.start[i])
           IN  /\ g \in [1..n -> Tokens \cup {Unset}]
               /\ Placed(job, g, i)
               /\ \A m \in Chunks(job) :
                     Placed(job, f, m) /\ job.start[m] + job.size[m] <= n
                        => Placed(job, g, m)
<1> DEFINE g == Copy(f, i, job.start[i])
<1>0. IsJob(job) /\ Chunks(job) = 1..N /\ N \in Nat /\ i \in 1..N
  BY BatchFacts DEF TypeOK
<1>1. job.size[i] \in Nat /\ job.start[i] \in Nat
  BY <1>0, BatchFacts, SMTT(30)
<1>2. g = [k \in 1..n |-> IF k \in (job.start[i] + 1)..(job.start[i] + job.size[i])
                          THEN <<i, k - job.start[i]>> ELSE f[k]]
  BY DEF Copy
<1>3. \A k \in 1..n : k \in (job.start[i] + 1)..(job.start[i] + job.size[i])
         => k - job.start[i] \in 1..job.size[i]
  BY <1>1
<1>4. \A k \in 1..job.size[i] : <<i, k>> \in Tokens
  BY <1>0 DEF Tokens
<1>5. g \in [1..n -> Tokens \cup {Unset}]
  BY <1>2, <1>3, <1>4
<1>6. Placed(job, g, i)
  <2> SUFFICES ASSUME NEW k \in 1..job.size[i] PROVE g[job.start[i] + k] = <<i, k>>
    BY DEF Placed
  <2>1. /\ job.start[i] + k \in 1..n
        /\ job.start[i] + k \in (job.start[i] + 1)..(job.start[i] + job.size[i])
        /\ (job.start[i] + k) - job.start[i] = k
    BY <1>1
  <2> QED
    BY <1>2, <2>1
<1>7. ASSUME NEW m \in Chunks(job), Placed(job, f, m), job.start[m] + job.size[m] <= n, m # i
      PROVE  Placed(job, g, m)
  <2> SUFFICES ASSUME NEW k \in 1..job.size[m] PROVE g[job.start[m] + k] = <<m, k>>
    BY DEF Placed
  <2>0. m \in 1..N /\ m \in 1..(N + 1)
    BY <1>0
  <2>1. job.size[m] \in Nat /\ job.start[m] \in Nat /\ m \in 1..N
    BY <2>0, BatchFacts
  <2>2. job.start[m] + k \in 1..n
    BY <1>7, <2>1
  <2>3. job.start[m] + k \notin (job.start[i] + 1)..(job.start[i] + job.size[i])
    <3>1. CASE m < i
      <4>1. job.start[m] + job.size[m] <= job.start[i]
        BY <1>0, <3>1, Disjoint
      <4> QED
        BY <1>1, <2>1, <4>1, SMTT(30)
    <3>2. CASE i < m
      <4>1. job.start[i] + job.size[i] <= job.start[m]
        BY <1>0, <3>2, Disjoint
      <4> QED
        BY <1>1, <2>1, <4>1
    <3> QED
      BY <1>0, <1>7, <2>1, <3>1, <3>2
  <2>4. f[job.start[m] + k] = <<m, k>>
    BY <1>7 DEF Placed
  <2> QED
    BY <1>2, <2>2, <2>3, <2>4
<1> QED
  BY <1>5, <1>6, <1>7

(* Fields of the state that no step of a task touches. *)
LEMMA TaskKeeps ==
    ASSUME NEW t \in Tasks, TaskStep(t)
    PROVE  UNCHANGED <<job, status, answer, committer, pending>>
BY DEF TaskStep, Claim, EncodeChunk, Panic, TryLock, Drain, Bump, StopDrain, Unlock, call

-----------------------------------------------------------------------------
(* The invariant holds initially and every step keeps it. *)

LEMMA InitInv == Init => IInv
<1> SUFFICES ASSUME Init PROVE IInv
  OBVIOUS
<1>1. IsJob(job) /\ N \in Nat /\ job.cap \in Nat /\ Chunks(job) = 1..N
  BY JobsAssumption, JobFacts DEF Init, N, Chunks
<1>2. job.start[1] = 0
  BY <1>1 DEF IsJob
<1>3. BufferLen = IF committer THEN job.cap ELSE 0
  BY <1>1 DEF Init, TryNew, BufferLen
<1>4. PICK spawned \in SUBSET Tasks :
          /\ N > 1 => IF Cardinality(Tasks) <= N THEN spawned = Tasks ELSE Cardinality(spawned) = N
          /\ N <= 1 => spawned = {}
          /\ pc = [t \in Tasks |-> IF t \in spawned THEN "claim" ELSE "gone"]
  BY DEF Init
<1>5. TypeOK
  BY <1>1, <1>3, <1>4, BoundsAssumption DEF Init, TryNew, TypeOK, PCs
<1>6. \A t \in Tasks : pc[t] \in {"claim", "gone"}
  BY <1>4
<1>7. CommittedPrefix /\ ClaimedOnce /\ FailsOnlyOnPanic /\ AnswerInOrder
  BY <1>1, <1>2, <1>6 DEF Init, TryNew, CommittedPrefix, ClaimedOnce, FailsOnlyOnPanic,
     AnswerInOrder
<1>8. LockHeld /\ HalfCommitted /\ Accounted /\ Commits /\ Fanned /\ Gathered
  BY <1>1, <1>4, <1>6, TasksAssumption DEF Init, TryNew, LockHeld, HalfCommitted, Accounted,
     Commits, Fanned, Gathered, InCommit, Joined
<1>9. Pulling
  <2> SUFFICES ASSUME N > 1, Joined PROVE FALSE
    BY DEF Pulling
  <2>1. spawned = {}
    BY <1>4 DEF Joined
  <2>2. CASE Cardinality(Tasks) <= N
    BY <1>4, <2>1, <2>2, TasksAssumption
  <2>3. CASE ~(Cardinality(Tasks) <= N)
    <3>1. Cardinality(spawned) = N
      BY <1>4, <2>3
    <3>2. Cardinality(spawned) = 0
      BY <2>1, FS_EmptySet
    <3> QED
      BY <1>1, <3>1, <3>2
  <2> QED
    BY <2>2, <2>3
<1> QED
  BY <1>5, <1>7, <1>8, <1>9 DEF IInv

LEMMA ClaimInv == ASSUME IInv, NEW t \in Tasks, Claim(t) PROVE IInv'
<1> USE DEF IInv
<1>1. IsJob(job) /\ N \in Nat /\ Chunks(job) = 1..N
  BY BatchFacts
<1>2. UNCHANGED <<job, outs, status, answer, committer, drained, lock, cursor, flat, pending,
                  panics>>
  BY DEF Claim, call
<1>3. /\ N' = N /\ BufferLen' = BufferLen /\ Tokens' = Tokens /\ Finishable' = Finishable
      /\ Chunks(job)' = Chunks(job)
  BY <1>2 DEF N, BufferLen, Tokens, Finishable
<1>4. /\ next' = next + 1 /\ idx' = [idx EXCEPT ![t] = next]
      /\ pc' \in [Tasks -> PCs] /\ pc[t] = "claim"
      /\ \A u \in Tasks \ {t} : pc'[u] = pc[u] /\ idx'[u] = idx[u]
      /\ idx'[t] = next
      /\ pc'[t] = IF next <= N THEN "encode" ELSE IF committer THEN "advance" ELSE "gone"
  BY <1>1 DEF Claim, Goto, TypeOK, PCs
<1>5. N > 1 /\ status = "running"
  BY <1>1, <1>4 DEF Fanned, Gathered, Joined
<1>6. TypeOK'
  <2>1. idx' \in [Tasks -> 0..(next' - 1)]
    BY <1>4 DEF TypeOK
  <2> QED
    BY <1>2, <1>3, <1>4, <2>1 DEF TypeOK
<1>7. ClaimedOnce'
  <2>1. next <= N => next \in Chunks(job) \ outs
    BY <1>1, <1>5 DEF Accounted, TypeOK
  <2>2. \A u \in Tasks \ {t} : idx[u] # next
    BY DEF TypeOK
  <2> QED
    BY <1>2, <1>3, <1>4, <2>1, <2>2 DEF ClaimedOnce
<1>8. Accounted'
  <2>1. \A i \in outs : i < next'
    BY <1>1, <1>4, <1>5 DEF Accounted, TypeOK
  <2>2. ASSUME NEW i \in Chunks(job), i < next', i \notin outs, ~(panics > 0)
        PROVE  \E u \in Tasks : pc'[u] = "encode" /\ idx'[u] = i
    <3>1. CASE i = next
      BY <1>1, <1>4, <3>1
    <3>2. CASE i < next
      <4>1. PICK u \in Tasks : pc[u] = "encode" /\ idx[u] = i
        BY <2>2, <3>2 DEF Accounted
      <4> QED
        BY <1>4, <4>1
    <3> QED
      BY <1>1, <1>4, <2>2, <3>1, <3>2 DEF TypeOK
  <2> QED
    BY <1>2, <1>3, <2>1, <2>2 DEF Accounted
<1>9. Pulling'
  <2>1. next <= N => ~Joined'
    BY <1>4 DEF Joined
  <2>2. ~(next <= N) => next' > N'
    BY <1>1, <1>3, <1>4 DEF TypeOK
  <2> QED
    BY <2>1, <2>2 DEF Pulling
<1>10. LockHeld' /\ HalfCommitted' /\ Commits'
  BY <1>2, <1>3, <1>4 DEF LockHeld, HalfCommitted, Commits, InCommit, Placed
<1>11. CommittedPrefix' /\ FailsOnlyOnPanic' /\ AnswerInOrder'
  BY <1>2, <1>3 DEF CommittedPrefix, FailsOnlyOnPanic, AnswerInOrder, Placed, InOrder
<1>12. Fanned' /\ Gathered'
  BY <1>1, <1>2, <1>3, <1>5 DEF Fanned, Gathered, Placed
<1> QED
  BY <1>6, <1>7, <1>8, <1>9, <1>10, <1>11, <1>12

LEMMA EncodeInv == ASSUME IInv, NEW t \in Tasks, EncodeChunk(t) PROVE IInv'
<1> USE DEF IInv
<1>1. IsJob(job) /\ N \in Nat /\ Chunks(job) = 1..N
  BY BatchFacts
<1>2. /\ UNCHANGED <<job, status, answer, committer, next, idx, drained, lock, cursor, flat,
                     pending, panics>>
      /\ outs' = outs \cup {idx[t]}
  BY DEF EncodeChunk
<1>3. /\ N' = N /\ BufferLen' = BufferLen /\ Tokens' = Tokens /\ Finishable' = Finishable
      /\ Chunks(job)' = Chunks(job)
  BY <1>2 DEF N, BufferLen, Tokens, Finishable
<1>4. /\ pc' \in [Tasks -> PCs] /\ pc[t] = "encode"
      /\ \A u \in Tasks \ {t} : pc'[u] = pc[u]
      /\ pc'[t] = IF committer THEN "advance" ELSE "claim"
  BY DEF EncodeChunk, Goto, TypeOK, PCs
<1>5. N > 1 /\ status = "running"
  BY <1>1, <1>4 DEF Fanned, Gathered, Joined
<1>6. idx[t] \in Chunks(job) \ outs /\ idx[t] < next
  BY <1>4 DEF ClaimedOnce, TypeOK
<1>7. TypeOK'
  BY <1>2, <1>3, <1>4, <1>6 DEF TypeOK
<1>8. ClaimedOnce'
  BY <1>2, <1>3, <1>4 DEF ClaimedOnce
<1>9. Accounted'
  <2>1. ASSUME NEW i \in Chunks(job), i < next, i \notin outs', ~(panics > 0)
        PROVE  \E u \in Tasks : pc'[u] = "encode" /\ idx'[u] = i
    <3>1. PICK u \in Tasks : pc[u] = "encode" /\ idx[u] = i
      BY <1>2, <2>1 DEF Accounted
    <3> QED
      BY <1>2, <1>4, <2>1, <3>1
  <2> QED
    BY <1>2, <1>3, <1>6, <2>1 DEF Accounted
<1>10. Pulling'
  BY <1>4 DEF Pulling, Joined
<1>11. LockHeld' /\ HalfCommitted' /\ Commits'
  BY <1>2, <1>3, <1>4 DEF LockHeld, HalfCommitted, Commits, InCommit, Placed
<1>12. CommittedPrefix' /\ FailsOnlyOnPanic' /\ AnswerInOrder'
  BY <1>2, <1>3 DEF CommittedPrefix, FailsOnlyOnPanic, AnswerInOrder, Placed, InOrder
<1>13. Fanned' /\ Gathered'
  BY <1>1, <1>2, <1>3, <1>5 DEF Fanned, Gathered, Placed
<1> QED
  BY <1>7, <1>8, <1>9, <1>10, <1>11, <1>12, <1>13

LEMMA PanicInv == ASSUME IInv, NEW t \in Tasks, Panic(t) PROVE IInv'
<1> USE DEF IInv
<1>1. IsJob(job) /\ N \in Nat /\ Chunks(job) = 1..N
  BY BatchFacts
<1>2. /\ UNCHANGED <<job, outs, status, answer, committer, next, idx, drained, lock, cursor,
                     flat, pending>>
      /\ panics' \in 0..MaxPanics /\ panics' > 0
  BY BoundsAssumption DEF Panic, call, TypeOK
<1>3. /\ N' = N /\ BufferLen' = BufferLen /\ Tokens' = Tokens /\ Finishable' = Finishable
      /\ Chunks(job)' = Chunks(job)
  BY <1>2 DEF N, BufferLen, Tokens, Finishable
<1>4. /\ pc' \in [Tasks -> PCs] /\ pc[t] = "encode"
      /\ \A u \in Tasks \ {t} : pc'[u] = pc[u]
      /\ pc'[t] = "dead"
  BY DEF Panic, Goto, TypeOK, PCs
<1>5. N > 1 /\ status = "running"
  BY <1>1, <1>4 DEF Fanned, Gathered, Joined
<1>6. TypeOK'
  BY <1>2, <1>3, <1>4 DEF TypeOK
<1>7. ClaimedOnce' /\ Accounted' /\ Pulling'
  BY <1>2, <1>3, <1>4 DEF ClaimedOnce, Accounted, Pulling
<1>8. LockHeld' /\ HalfCommitted' /\ Commits'
  BY <1>2, <1>3, <1>4 DEF LockHeld, HalfCommitted, Commits, InCommit, Placed
<1>9. CommittedPrefix' /\ FailsOnlyOnPanic' /\ AnswerInOrder'
  BY <1>2, <1>3 DEF CommittedPrefix, FailsOnlyOnPanic, AnswerInOrder, Placed, InOrder
<1>10. Fanned' /\ Gathered'
  BY <1>1, <1>2, <1>3, <1>5 DEF Fanned, Gathered, Placed
<1> QED
  BY <1>6, <1>7, <1>8, <1>9, <1>10

LEMMA TryLockInv == ASSUME IInv, NEW t \in Tasks, TryLock(t) PROVE IInv'
<1> USE DEF IInv
<1>1. IsJob(job) /\ N \in Nat /\ Chunks(job) = 1..N
  BY BatchFacts
<1>2. UNCHANGED <<job, outs, status, answer, committer, next, idx, cursor, flat, pending, panics>>
  BY DEF TryLock, call
<1>3. /\ N' = N /\ BufferLen' = BufferLen /\ Tokens' = Tokens /\ Finishable' = Finishable
      /\ Chunks(job)' = Chunks(job)
  BY <1>2 DEF N, BufferLen, Tokens, Finishable
<1>4. /\ pc' \in [Tasks -> PCs] /\ pc[t] = "advance"
      /\ \A u \in Tasks \ {t} : pc'[u] = pc[u]
      /\ drained' \in [Tasks -> 0..MaxDrain]
      /\ \A u \in Tasks \ {t} : drained'[u] = drained[u]
      /\ \/ lock = NoTask /\ lock' = t /\ pc'[t] = "drain"
         \/ lock # NoTask /\ lock' = lock /\ pc'[t] = "claim"
         \/ lock # NoTask /\ lock' = lock /\ pc'[t] = "gone" /\ idx[t] > N
  <2>1. CASE lock = NoTask
    <3>1. /\ lock' = t /\ drained' = [drained EXCEPT ![t] = 0]
          /\ pc[t] = "advance" /\ pc' = [pc EXCEPT ![t] = "drain"]
      BY <2>1 DEF TryLock, Goto
    <3>2. drained \in [Tasks -> 0..MaxDrain] /\ pc \in [Tasks -> PCs] /\ "drain" \in PCs
      BY DEF TypeOK, PCs
    <3>3. 0 \in 0..MaxDrain
      BY BoundsAssumption
    <3> QED
      BY <2>1, <3>1, <3>2, <3>3
  <2>2. CASE lock # NoTask
    BY <2>2 DEF TryLock, AfterAdvance, Goto, TypeOK, PCs
  <2> QED
    BY <2>1, <2>2
<1>5. N > 1 /\ status = "running"
  BY <1>1, <1>4 DEF Fanned, Gathered, Joined
<1>6. TypeOK'
  BY <1>2, <1>3, <1>4 DEF TypeOK
<1>7. ClaimedOnce' /\ Accounted'
  BY <1>2, <1>3, <1>4 DEF ClaimedOnce, Accounted
<1>8. Pulling'
  <2>1. pc'[t] = "gone" => next > N
    BY <1>1, <1>4 DEF TypeOK
  <2>2. pc'[t] # "gone" => ~Joined'
    BY <1>4 DEF Joined
  <2> QED
    BY <1>2, <1>3, <2>1, <2>2 DEF Pulling
<1>9. LockHeld'
  BY <1>2, <1>4, TasksAssumption DEF LockHeld, InCommit, TypeOK
<1>10. HalfCommitted' /\ Commits'
  BY <1>2, <1>3, <1>4 DEF HalfCommitted, Commits, InCommit, Placed
<1>11. CommittedPrefix' /\ FailsOnlyOnPanic' /\ AnswerInOrder'
  BY <1>2, <1>3 DEF CommittedPrefix, FailsOnlyOnPanic, AnswerInOrder, Placed, InOrder
<1>12. Fanned' /\ Gathered'
  BY <1>1, <1>2, <1>3, <1>5 DEF Fanned, Gathered, Placed
<1> QED
  BY <1>6, <1>7, <1>8, <1>9, <1>10, <1>11, <1>12

LEMMA DrainInv == ASSUME IInv, NEW t \in Tasks, Drain(t) PROVE IInv'
<1> USE DEF IInv
<1>1. IsJob(job) /\ N \in Nat /\ Chunks(job) = 1..N /\ job.cap \in Nat
  BY BatchFacts
<1>2. /\ UNCHANGED <<job, outs, status, answer, committer, next, idx, drained, lock, cursor,
                     pending, panics>>
      /\ flat' = Copy(flat, cursor.next, cursor.offset)
  BY DEF Drain, call
<1>3. /\ N' = N /\ BufferLen' = BufferLen /\ Tokens' = Tokens /\ Finishable' = Finishable
      /\ Chunks(job)' = Chunks(job)
  BY <1>2 DEF N, BufferLen, Tokens, Finishable
<1>4. /\ pc' \in [Tasks -> PCs] /\ pc[t] = "drain" /\ pc'[t] = "bump"
      /\ \A u \in Tasks \ {t} : pc'[u] = pc[u]
  BY DEF Drain, Goto, TypeOK, PCs
<1>5. N > 1 /\ status = "running" /\ committer
  BY <1>1, <1>4 DEF Fanned, Gathered, Joined, Commits, InCommit
<1>6. BufferLen = job.cap
  BY <1>1, <1>5 DEF BufferLen
<1>7. /\ cursor.next \in outs /\ cursor.next \in 1..N
      /\ cursor.offset = job.start[cursor.next]
      /\ drained[t] < MaxDrain
  BY <1>1 DEF Drain, CanDrain, CommittedPrefix, TypeOK
<1>8. cursor.offset + job.size[cursor.next] <= job.cap
  <2>1. job.size[cursor.next] \in Nat /\ cursor.offset \in Nat
    BY <1>7, BatchFacts
  <2> QED
    BY <1>1, <2>1 DEF Drain, Fits
<1>9. /\ flat' \in [1..job.cap -> Tokens \cup {Unset}]
      /\ Placed(job, flat', cursor.next)
      /\ \A m \in Chunks(job) :
            Placed(job, flat, m) /\ job.start[m] + job.size[m] <= job.cap
               => Placed(job, flat', m)
  <2>1. flat \in [1..job.cap -> Tokens \cup {Unset}]
    BY <1>6 DEF TypeOK
  <2> QED
    BY <1>1, <1>2, <1>7, <1>8, <2>1, CopyPlaces
<1>10. TypeOK'
  BY <1>2, <1>3, <1>4, <1>6, <1>9 DEF TypeOK
<1>11. ClaimedOnce' /\ Accounted'
  BY <1>2, <1>3, <1>4 DEF ClaimedOnce, Accounted
<1>12. Pulling'
  BY <1>4 DEF Pulling, Joined
<1>13. LockHeld' /\ Commits'
  BY <1>2, <1>4, <1>5 DEF LockHeld, InCommit, Commits
<1>14. HalfCommitted'
  <2>1. \A u \in Tasks \ {t} : pc[u] # "bump"
    BY <1>4 DEF LockHeld, InCommit
  <2> QED
    BY <1>2, <1>4, <1>7, <1>8, <1>9, <2>1 DEF HalfCommitted
<1>15. CommittedPrefix'
  <2>1. ASSUME NEW i \in 1..(cursor.next - 1) PROVE i \in outs /\ Placed(job, flat', i)
    <3>1. i \in outs /\ Placed(job, flat, i) /\ i \in Chunks(job) /\ i < cursor.next
      BY <1>1, <1>5, <1>7 DEF CommittedPrefix
    <3>2. job.start[i] + job.size[i] <= cursor.offset
      BY <1>1, <1>7, <3>1, Disjoint
    <3>3. job.start[i] + job.size[i] <= job.cap
      <4>1. i \in 1..N /\ i \in 1..(N + 1)
        BY <1>1, <3>1
      <4>2. job.start[i] \in Nat /\ job.size[i] \in Nat /\ cursor.offset \in 0..job.cap
        BY <4>1, BatchFacts DEF TypeOK
      <4> QED
        BY <1>1, <3>2, <4>2
    <3> QED
      BY <1>9, <3>1, <3>3
  <2> QED
    BY <1>2, <1>3, <2>1 DEF CommittedPrefix
<1>16. FailsOnlyOnPanic' /\ AnswerInOrder'
  BY <1>2, <1>3, <1>5 DEF FailsOnlyOnPanic, AnswerInOrder
<1>17. Fanned' /\ Gathered'
  BY <1>1, <1>2, <1>3, <1>5 DEF Fanned, Gathered
<1> QED
  BY <1>10, <1>11, <1>12, <1>13, <1>14, <1>15, <1>16, <1>17

LEMMA BumpInv == ASSUME IInv, NEW t \in Tasks, Bump(t) PROVE IInv'
<1> USE DEF IInv
<1>1. IsJob(job) /\ N \in Nat /\ Chunks(job) = 1..N /\ job.cap \in Nat
  BY BatchFacts
<1>2. UNCHANGED <<job, outs, status, answer, committer, next, idx, lock, flat, pending, panics>>
  BY DEF Bump, call
<1>3. /\ N' = N /\ Tokens' = Tokens /\ Chunks(job)' = Chunks(job)
  BY <1>2 DEF N, Tokens
<1>4. /\ pc' \in [Tasks -> PCs] /\ pc[t] = "bump" /\ pc'[t] = "drain"
      /\ \A u \in Tasks \ {t} : pc'[u] = pc[u]
  BY DEF Bump, Goto, TypeOK, PCs
<1>5. N > 1 /\ status = "running" /\ committer
  BY <1>1, <1>4 DEF Fanned, Gathered, Joined, Commits, InCommit
<1>6. /\ cursor.next \in outs /\ cursor.next \in 1..N
      /\ cursor.offset + job.size[cursor.next] <= job.cap
      /\ drained[t] < MaxDrain
      /\ Placed(job, flat, cursor.next)
      /\ cursor.offset = job.start[cursor.next]
      /\ job.size[cursor.next] \in Nat /\ cursor.offset \in Nat
  BY <1>1, <1>4, BatchFacts DEF HalfCommitted, CommittedPrefix, TypeOK
<1>7. /\ cursor'.next = cursor.next + 1 /\ cursor'.offset = cursor.offset + job.size[cursor.next]
      /\ cursor'.overflowed = cursor.overflowed
      /\ cursor' \in [next: 1..(N + 1), offset: 0..job.cap, overflowed: BOOLEAN]
  <2>1. cursor' = [next |-> cursor.next + 1,
                   offset |-> cursor.offset + job.size[cursor.next],
                   overflowed |-> cursor.overflowed]
    BY DEF Bump, TypeOK
  <2>2. cursor.next + 1 \in 1..(N + 1) /\ cursor.overflowed \in BOOLEAN
    BY <1>1, <1>6, SMTT(30) DEF TypeOK
  <2>3. cursor.offset + job.size[cursor.next] \in 0..job.cap
    BY <1>1, <1>6
  <2> QED
    BY <2>1, <2>2, <2>3
<1>8. Finishable' = Finishable /\ BufferLen' = BufferLen
  BY <1>2, <1>3, <1>7 DEF Finishable, BufferLen
<1>9. drained' \in [Tasks -> 0..MaxDrain]
  BY <1>6, BoundsAssumption, SMTT(30) DEF Bump, TypeOK
<1>10. TypeOK'
  BY <1>2, <1>3, <1>4, <1>7, <1>8, <1>9 DEF TypeOK
<1>11. ClaimedOnce' /\ Accounted'
  BY <1>2, <1>3, <1>4 DEF ClaimedOnce, Accounted
<1>12. Pulling'
  BY <1>4 DEF Pulling, Joined
<1>13. LockHeld' /\ Commits'
  BY <1>2, <1>4, <1>5 DEF LockHeld, InCommit, Commits
<1>14. HalfCommitted'
  BY <1>4 DEF HalfCommitted, LockHeld, InCommit
<1>15. CommittedPrefix'
  <2>1. cursor'.offset = job.start[cursor'.next]
    <3>1. job.start[cursor.next + 1] = job.start[cursor.next] + job.size[cursor.next]
      BY <1>1, <1>6 DEF IsJob
    <3> QED
      BY <1>6, <1>7, <3>1
  <2>2. \A i \in 1..cursor.next : i \in outs /\ Placed(job, flat, i)
    <3>1. \A i \in 1..(cursor.next - 1) : i \in outs /\ Placed(job, flat, i)
      BY <1>5 DEF CommittedPrefix
    <3> QED
      BY <1>1, <1>6, <3>1
  <2>3. 1..(cursor'.next - 1) = 1..cursor.next
    BY <1>6, <1>7
  <2> QED
    BY <1>2, <2>1, <2>2, <2>3 DEF CommittedPrefix
<1>16. FailsOnlyOnPanic' /\ AnswerInOrder'
  BY <1>2, <1>5 DEF FailsOnlyOnPanic, AnswerInOrder
<1>17. Fanned' /\ Gathered'
  BY <1>1, <1>2, <1>3, <1>5 DEF Fanned, Gathered
<1> QED
  BY <1>10, <1>11, <1>12, <1>13, <1>14, <1>15, <1>16, <1>17

LEMMA StopDrainInv == ASSUME IInv, NEW t \in Tasks, StopDrain(t) PROVE IInv'
<1> USE DEF IInv
<1>1. IsJob(job) /\ N \in Nat /\ Chunks(job) = 1..N /\ job.cap \in Nat
  BY BatchFacts
<1>2. UNCHANGED <<job, outs, status, answer, committer, next, idx, drained, lock, flat,
                  pending, panics>>
  BY DEF StopDrain, call
<1>3. /\ N' = N /\ Tokens' = Tokens /\ Chunks(job)' = Chunks(job)
  BY <1>2 DEF N, Tokens
<1>4. /\ pc' \in [Tasks -> PCs] /\ pc[t] = "drain" /\ pc'[t] = "unlock"
      /\ \A u \in Tasks \ {t} : pc'[u] = pc[u]
  BY DEF StopDrain, Goto, TypeOK, PCs
<1>5. N > 1 /\ status = "running" /\ committer
  BY <1>1, <1>4 DEF Fanned, Gathered, Joined, Commits, InCommit
<1>6. /\ cursor'.next = cursor.next /\ cursor'.offset = cursor.offset
      /\ cursor' \in [next: 1..(N + 1), offset: 0..job.cap, overflowed: BOOLEAN]
  <2>1. CanDrain(t) \in BOOLEAN
    BY DEF CanDrain
  <2> QED
    BY <2>1 DEF StopDrain, TypeOK
<1>7. BufferLen' = BufferLen
  BY <1>1, <1>2, <1>3, <1>5 DEF BufferLen
<1>8. TypeOK'
  BY <1>2, <1>3, <1>4, <1>6, <1>7 DEF TypeOK
<1>9. ClaimedOnce' /\ Accounted'
  BY <1>2, <1>3, <1>4 DEF ClaimedOnce, Accounted
<1>10. Pulling'
  BY <1>4 DEF Pulling, Joined
<1>11. LockHeld' /\ Commits'
  BY <1>2, <1>4, <1>5 DEF LockHeld, InCommit, Commits
<1>12. HalfCommitted'
  BY <1>2, <1>4 DEF HalfCommitted, LockHeld, InCommit
<1>13. CommittedPrefix'
  BY <1>2, <1>5, <1>6 DEF CommittedPrefix
<1>14. FailsOnlyOnPanic' /\ AnswerInOrder'
  BY <1>2, <1>5 DEF FailsOnlyOnPanic, AnswerInOrder
<1>15. Fanned' /\ Gathered'
  BY <1>1, <1>2, <1>3, <1>5 DEF Fanned, Gathered
<1> QED
  BY <1>8, <1>9, <1>10, <1>11, <1>12, <1>13, <1>14, <1>15

LEMMA UnlockInv == ASSUME IInv, NEW t \in Tasks, Unlock(t) PROVE IInv'
<1> USE DEF IInv
<1>1. IsJob(job) /\ N \in Nat /\ Chunks(job) = 1..N
  BY BatchFacts
<1>2. UNCHANGED <<job, outs, status, answer, committer, next, idx, drained, cursor, flat,
                  pending, panics>>
  BY DEF Unlock, call
<1>3. /\ N' = N /\ BufferLen' = BufferLen /\ Tokens' = Tokens /\ Finishable' = Finishable
      /\ Chunks(job)' = Chunks(job)
  BY <1>2 DEF N, BufferLen, Tokens, Finishable
<1>4. /\ pc' \in [Tasks -> PCs] /\ pc[t] = "unlock" /\ lock' = NoTask
      /\ \A u \in Tasks \ {t} : pc'[u] = pc[u]
      /\ \/ pc'[t] = "claim"
         \/ pc'[t] = "gone" /\ idx[t] > N
  BY DEF Unlock, AfterAdvance, Goto, TypeOK, PCs
<1>5. N > 1 /\ status = "running"
  BY <1>1, <1>4 DEF Fanned, Gathered, Joined
<1>6. TypeOK'
  BY <1>2, <1>3, <1>4 DEF TypeOK
<1>7. ClaimedOnce' /\ Accounted'
  BY <1>2, <1>3, <1>4 DEF ClaimedOnce, Accounted
<1>8. Pulling'
  <2>1. pc'[t] = "gone" => next > N
    BY <1>1, <1>4 DEF TypeOK
  <2>2. pc'[t] # "gone" => ~Joined'
    BY <1>4 DEF Joined
  <2> QED
    BY <1>2, <1>3, <2>1, <2>2 DEF Pulling
<1>9. LockHeld'
  <2>1. \A u \in Tasks \ {t} : pc[u] \notin InCommit
    BY <1>4 DEF LockHeld, InCommit
  <2> QED
    BY <1>4, <2>1, TasksAssumption DEF LockHeld, InCommit
<1>10. HalfCommitted' /\ Commits'
  BY <1>2, <1>3, <1>4 DEF HalfCommitted, Commits, InCommit, Placed
<1>11. CommittedPrefix' /\ FailsOnlyOnPanic' /\ AnswerInOrder'
  BY <1>2, <1>3 DEF CommittedPrefix, FailsOnlyOnPanic, AnswerInOrder, Placed, InOrder
<1>12. Fanned' /\ Gathered'
  BY <1>1, <1>2, <1>3, <1>5 DEF Fanned, Gathered, Placed
<1> QED
  BY <1>6, <1>7, <1>8, <1>9, <1>10, <1>11, <1>12

LEMMA SerialInv == ASSUME IInv, Serial PROVE IInv'
<1> USE DEF IInv
<1>1. IsJob(job) /\ N \in Nat /\ Chunks(job) = 1..N
  BY BatchFacts
<1>2. /\ UNCHANGED <<job, committer, next, pc, idx, drained, lock, cursor, flat, pending, panics>>
      /\ N <= 1 /\ status = "running"
      /\ outs' \in SUBSET Chunks(job)
      /\ \/ status' = status /\ answer' = answer
         \/ status' = "answered" /\ answer' = [k \in 1..Total(job) |-> <<1, k>>]
  BY DEF Serial, run, TypeOK
<1>3. N' = N /\ Tokens' = Tokens /\ Chunks(job)' = Chunks(job) /\ Finishable' = Finishable
  BY <1>2 DEF N, Tokens, Finishable
<1>4. BufferLen = 0 /\ BufferLen' = 0
  BY <1>1, <1>2, <1>3 DEF BufferLen
<1>5. Joined /\ next = 1 /\ ~committer /\ ~(N > 1) /\ pending = {}
  BY <1>1, <1>2 DEF Fanned
<1>6. Joined' /\ \A t \in Tasks : pc[t] \in {"gone", "dead"}
  BY <1>2, <1>5 DEF Joined
<1>7. TypeOK'
  BY <1>2, <1>3, <1>4 DEF TypeOK
<1>8. CommittedPrefix'
  <2>1. cursor.next = 1
    BY <1>2, <1>5 DEF Gathered, TypeOK
  <2> QED
    BY <1>2, <1>3, <2>1 DEF CommittedPrefix, Placed
<1>9. FailsOnlyOnPanic'
  BY <1>2 DEF FailsOnlyOnPanic
<1>10. AnswerInOrder'
  <2> SUFFICES ASSUME answer' = [k \in 1..Total(job) |-> <<1, k>>] PROVE InOrder(job, answer')
    BY <1>2, <1>3 DEF AnswerInOrder
  <2>1. ASSUME NEW i \in Chunks(job) PROVE Placed(job, answer', i)
    <3>1. i = 1 /\ job.start[i] = 0
      BY <1>1, <1>2, <2>1 DEF IsJob
    <3>2. job.size[i] \in Nat /\ job.size[i] <= Total(job) /\ Total(job) \in Nat
      <4>1. i \in 1..N /\ job.start[i] + job.size[i] <= Total(job)
        BY <1>1, <2>1, JobFacts
      <4> QED
        BY <3>1, <4>1, BatchFacts
    <3> QED
      BY <3>1, <3>2 DEF Placed
  <2> QED
    BY <2>1 DEF InOrder
<1>11. ClaimedOnce' /\ LockHeld' /\ HalfCommitted' /\ Accounted' /\ Pulling' /\ Commits'
  BY <1>1, <1>2, <1>3, <1>5, <1>6
     DEF ClaimedOnce, LockHeld, HalfCommitted, Accounted, Pulling, Commits, InCommit
<1>12. Fanned' /\ Gathered'
  BY <1>2, <1>3, <1>5, <1>6 DEF Fanned, Gathered
<1> QED
  BY <1>7, <1>8, <1>9, <1>10, <1>11, <1>12

(* The two outcomes of the join. *)
LEMMA SerialPanicInv == ASSUME IInv, SerialPanic PROVE IInv'
<1> USE DEF IInv
<1>1. IsJob(job) /\ N \in Nat /\ Chunks(job) = 1..N
  BY BatchFacts
<1>2. /\ UNCHANGED <<job, outs, answer, committer, next, pc, idx, drained, lock, cursor,
                     flat, pending>>
      /\ N <= 1 /\ status = "running" /\ status' = "failed"
      /\ panics' \in 0..MaxPanics /\ panics' > 0
  BY BoundsAssumption DEF SerialPanic, TypeOK
<1>3. /\ N' = N /\ BufferLen' = BufferLen /\ Tokens' = Tokens /\ Finishable' = Finishable
      /\ Chunks(job)' = Chunks(job)
  BY <1>2 DEF N, BufferLen, Tokens, Finishable
<1>4. Joined /\ Joined' /\ next = 1 /\ ~committer /\ ~(N > 1) /\ pending = {}
  BY <1>1, <1>2 DEF Fanned, Joined
<1>5. TypeOK'
  BY <1>2, <1>3 DEF TypeOK
<1>6. ClaimedOnce' /\ Accounted' /\ Pulling'
  BY <1>2, <1>3, <1>4 DEF ClaimedOnce, Accounted, Pulling
<1>7. LockHeld' /\ HalfCommitted' /\ Commits'
  BY <1>2, <1>3 DEF LockHeld, HalfCommitted, Commits, InCommit, Placed
<1>8. CommittedPrefix' /\ FailsOnlyOnPanic' /\ AnswerInOrder'
  BY <1>2, <1>3 DEF CommittedPrefix, FailsOnlyOnPanic, AnswerInOrder, Placed, InOrder
<1>9. Fanned' /\ Gathered'
  BY <1>2, <1>3, <1>4 DEF Fanned, Gathered
<1> QED
  BY <1>5, <1>6, <1>7, <1>8, <1>9

LEMMA JoinInv == ASSUME IInv, Join PROVE IInv'
<1> USE DEF IInv
<1>1. IsJob(job) /\ N \in Nat /\ Chunks(job) = 1..N /\ job.cap \in Nat /\ Total(job) \in Nat
  BY BatchFacts
<1>2. /\ UNCHANGED <<job, outs, answer, committer, next, pc, idx, drained, lock, cursor, panics>>
      /\ N > 1 /\ status = "running" /\ Joined
  BY DEF Join, Uncopied, run
<1>3. /\ N' = N /\ Tokens' = Tokens /\ Chunks(job)' = Chunks(job) /\ Finishable' = Finishable
      /\ Joined' /\ \A t \in Tasks : pc[t] \in {"gone", "dead"}
  BY <1>2 DEF N, Tokens, Finishable, Joined
<1>4. panics > 0 \/ outs = Chunks(job)
  <2>1. panics > 0 \/ next > N
    BY <1>2 DEF Pulling
  <2>2. ASSUME ~(panics > 0), NEW i \in Chunks(job) PROVE i \in outs
    <3>1. i < next
      BY <1>1, <2>1, <2>2 DEF TypeOK
    <3>2. \A t \in Tasks : pc[t] # "encode"
      BY <1>3
    <3> QED
      BY <2>2, <3>1, <3>2 DEF Accounted
  <2> QED
    BY <2>2 DEF TypeOK
<1>5. ClaimedOnce' /\ LockHeld' /\ HalfCommitted' /\ Accounted' /\ Pulling' /\ Commits'
  BY <1>2, <1>3 DEF ClaimedOnce, LockHeld, HalfCommitted, Accounted, Pulling, Commits, InCommit
<1>6. CASE panics > 0 \/ outs # Chunks(job)
  <2>1. status' = "failed" /\ flat' = flat /\ pending' = pending
    BY <1>6 DEF Join, Uncopied, run
  <2>2. BufferLen' = BufferLen
    BY <1>1, <1>2, <1>3, <2>1 DEF BufferLen
  <2>3. TypeOK' /\ FailsOnlyOnPanic' /\ AnswerInOrder'
    BY <1>2, <1>3, <1>4, <1>6, <2>1, <2>2 DEF TypeOK, FailsOnlyOnPanic, AnswerInOrder
  <2>4. CommittedPrefix'
    BY <1>2, <1>3, <2>1 DEF CommittedPrefix, Placed
  <2>5. Fanned' /\ Gathered'
    BY <1>1, <1>2, <1>3, <2>1 DEF Fanned, Gathered
  <2> QED
    BY <1>5, <2>3, <2>4, <2>5
<1>7. CASE ~(panics > 0) /\ outs = Chunks(job)
  <2>1. /\ status' = "copying"
        /\ pending' = IF Finishable THEN cursor.next..N ELSE Chunks(job)
        /\ flat' = IF Finishable THEN flat ELSE [k \in 1..Total(job) |-> Unset]
    BY <1>7 DEF Join, Uncopied
  <2>2. /\ Finishable => BufferLen = job.cap /\ BufferLen' = job.cap
        /\ ~Finishable => BufferLen' = Total(job)
    BY <1>1, <1>2, <1>3, <2>1 DEF BufferLen, Finishable
  <2>3. flat' \in [1..BufferLen' -> Tokens' \cup {Unset}]
    BY <1>3, <2>1, <2>2 DEF TypeOK
  <2>4. pending' \in SUBSET Chunks(job)
    BY <1>1, <2>1 DEF TypeOK
  <2>5. TypeOK'
    BY <1>2, <1>3, <2>1, <2>3, <2>4 DEF TypeOK
  <2>6. FailsOnlyOnPanic' /\ AnswerInOrder'
    BY <2>1 DEF FailsOnlyOnPanic, AnswerInOrder
  <2>7. CommittedPrefix'
    BY <1>2, <1>3, <2>1 DEF CommittedPrefix, Placed
  <2>8. \A i \in Chunks(job) \ pending' : Placed(job, flat', i)
    <3>1. CASE Finishable
      <4>1. \A i \in Chunks(job) \ pending' : i \in 1..(cursor.next - 1)
        BY <1>1, <2>1, <3>1 DEF TypeOK
      <4> QED
        BY <2>1, <3>1, <4>1 DEF CommittedPrefix
    <3>2. CASE ~Finishable
      BY <2>1, <3>2
    <3> QED
      BY <3>1, <3>2
  <2>9. Fanned' /\ Gathered'
    BY <1>1, <1>2, <1>3, <1>7, <2>1, <2>8 DEF Fanned, Gathered
  <2> QED
    BY <1>5, <2>5, <2>6, <2>7, <2>9
<1> QED
  BY <1>4, <1>6, <1>7

(* Where the parallel copies put a chunk is where the batch wants it. *)
LEMMA CopyOffset ==
    ASSUME IInv, status = "copying", NEW i \in Chunks(job)
    PROVE  (IF Finishable THEN cursor.offset + (job.start[i] - job.start[cursor.next])
                          ELSE job.start[i]) = job.start[i]
<1>1. /\ job.start[i] \in Nat /\ job.start[cursor.next] \in Nat
      /\ cursor.offset = job.start[cursor.next]
  <2>1. i \in 1..(N + 1) /\ cursor.next \in 1..(N + 1)
    BY BatchFacts DEF IInv, TypeOK
  <2> QED
    BY <2>1, BatchFacts DEF IInv, CommittedPrefix
<1> QED
  BY <1>1

LEMMA CopySuffixInv == ASSUME IInv, NEW i \in pending, CopySuffix(i) PROVE IInv'
<1> USE DEF IInv
<1>1. IsJob(job) /\ N \in Nat /\ Chunks(job) = 1..N /\ job.cap \in Nat /\ Total(job) \in Nat
  BY BatchFacts
<1>2. /\ UNCHANGED <<job, outs, status, answer, committer, next, pc, idx, drained, lock, cursor,
                     panics>>
      /\ status = "copying" /\ pending' = pending \ {i} /\ i \in Chunks(job)
  BY DEF CopySuffix, call, TypeOK
<1>3. /\ N' = N /\ Tokens' = Tokens /\ Chunks(job)' = Chunks(job) /\ Finishable' = Finishable
      /\ BufferLen' = BufferLen /\ Joined' = Joined
  BY <1>2 DEF N, Tokens, Finishable, BufferLen, Joined
<1>4. flat' = Copy(flat, i, job.start[i])
  BY <1>2, CopyOffset DEF CopySuffix
<1>5. N > 1 /\ Joined /\ outs = Chunks(job)
  BY <1>1, <1>2 DEF Fanned, Gathered
<1>6. BufferLen \in Nat /\ Total(job) <= BufferLen
  BY <1>1, <1>2, <1>5 DEF BufferLen, Finishable
<1>7. \A m \in Chunks(job) : job.start[m] + job.size[m] <= BufferLen
  <2> TAKE m \in Chunks(job)
  <2>1. m \in 1..N /\ m \in 1..(N + 1) /\ job.start[m] + job.size[m] <= Total(job)
    BY <1>1, JobFacts, SMTT(30)
  <2>2. job.start[m] \in Nat /\ job.size[m] \in Nat
    BY <2>1, BatchFacts
  <2> QED
    BY <1>1, <1>6, <2>1, <2>2
<1>8. /\ flat' \in [1..BufferLen -> Tokens \cup {Unset}]
      /\ Placed(job, flat', i)
      /\ \A m \in Chunks(job) : Placed(job, flat, m) => Placed(job, flat', m)
  <2>1. flat \in [1..BufferLen -> Tokens \cup {Unset}]
    BY DEF TypeOK
  <2> QED
    BY <1>2, <1>4, <1>5, <1>6, <1>7, <2>1, CopyPlaces
<1>9. TypeOK'
  BY <1>2, <1>3, <1>8 DEF TypeOK
<1>10. CommittedPrefix'
  <2>1. \A m \in 1..(cursor.next - 1) : m \in Chunks(job)
    BY <1>1 DEF TypeOK
  <2> QED
    BY <1>2, <1>3, <1>8, <2>1 DEF CommittedPrefix
<1>11. FailsOnlyOnPanic' /\ AnswerInOrder'
  BY <1>2 DEF FailsOnlyOnPanic, AnswerInOrder
<1>12. /\ ClaimedOnce' /\ LockHeld' /\ HalfCommitted' /\ Accounted' /\ Pulling' /\ Commits'
  BY <1>2, <1>3, <1>5 DEF ClaimedOnce, LockHeld, HalfCommitted, Accounted, Pulling, Commits,
     InCommit, Joined
<1>13. Fanned' /\ Gathered'
  BY <1>1, <1>2, <1>3, <1>5, <1>8 DEF Fanned, Gathered
<1> QED
  BY <1>9, <1>10, <1>11, <1>12, <1>13

LEMMA SetLenInv == ASSUME IInv, SetLen PROVE IInv' /\ InOrder(job, answer')
<1> USE DEF IInv
<1>1. IsJob(job) /\ N \in Nat /\ Chunks(job) = 1..N /\ Total(job) \in Nat
  BY BatchFacts
<1>2. /\ UNCHANGED <<job, outs, committer, next, pc, idx, drained, lock, cursor, flat, panics,
                     pending>>
      /\ status = "copying" /\ pending = {} /\ status' = "answered"
      /\ answer' = [k \in 1..Total(job) |-> flat[k]]
  BY DEF SetLen, run
<1>3. /\ N' = N /\ Tokens' = Tokens /\ Chunks(job)' = Chunks(job) /\ Finishable' = Finishable
      /\ Joined' = Joined
  BY <1>2 DEF N, Tokens, Finishable, Joined
<1>4. N > 1 /\ Joined /\ outs = Chunks(job)
  BY <1>1, <1>2 DEF Fanned, Gathered
<1>5. BufferLen' = BufferLen
  BY <1>2, <1>3, <1>4 DEF BufferLen
<1>6. InOrder(job, answer')
  <2>1. ASSUME NEW i \in Chunks(job) PROVE Placed(job, answer', i)
    <3>1. Placed(job, flat, i)
      BY <1>2, <1>4 DEF Gathered
    <3>2. /\ i \in 1..N /\ i \in 1..(N + 1) /\ job.start[i] + job.size[i] <= Total(job)
      BY <1>1, JobFacts
    <3>3. job.start[i] \in Nat /\ job.size[i] \in Nat
      BY <3>2, BatchFacts
    <3>4. \A k \in 1..job.size[i] : job.start[i] + k \in 1..Total(job)
      BY <1>1, <3>2, <3>3
    <3> QED
      BY <1>2, <3>1, <3>4 DEF Placed
  <2> QED
    BY <1>2, <2>1 DEF InOrder
<1>7. TypeOK'
  BY <1>2, <1>3, <1>5 DEF TypeOK
<1>8. CommittedPrefix'
  BY <1>2, <1>3 DEF CommittedPrefix, Placed
<1>9. FailsOnlyOnPanic' /\ AnswerInOrder'
  BY <1>2, <1>6 DEF FailsOnlyOnPanic, AnswerInOrder
<1>10. /\ ClaimedOnce' /\ LockHeld' /\ HalfCommitted' /\ Accounted' /\ Pulling' /\ Commits'
  BY <1>2, <1>3, <1>4 DEF ClaimedOnce, LockHeld, HalfCommitted, Accounted, Pulling, Commits,
     InCommit, Joined
<1>11. Fanned' /\ Gathered'
  BY <1>1, <1>2, <1>3, <1>4 DEF Fanned, Gathered, Placed
<1> QED
  BY <1>6, <1>7, <1>8, <1>9, <1>10, <1>11

LEMMA StutterInv == ASSUME IInv, UNCHANGED vars PROVE IInv'
<1> USE DEF IInv
<1>1. UNCHANGED <<job, outs, status, answer, committer, next, pc, idx, drained, lock, cursor,
                  flat, pending, panics>>
  BY DEF vars, call, run
<1>2. /\ N' = N /\ Tokens' = Tokens /\ Finishable' = Finishable /\ Joined' = Joined
      /\ Total(job)' = Total(job) /\ Chunks(job)' = Chunks(job)
  BY <1>1 DEF N, Tokens, Finishable, Joined
<1>3. BufferLen' = BufferLen
  BY <1>1, <1>2 DEF BufferLen
<1>4. TypeOK'
  BY <1>1, <1>2, <1>3 DEF TypeOK
<1>5. /\ CommittedPrefix' /\ ClaimedOnce' /\ FailsOnlyOnPanic' /\ AnswerInOrder'
  BY <1>1, <1>2 DEF CommittedPrefix, ClaimedOnce, FailsOnlyOnPanic, AnswerInOrder, InOrder, Placed
<1>6. /\ LockHeld' /\ HalfCommitted' /\ Accounted' /\ Pulling'
  BY <1>1, <1>2 DEF LockHeld, HalfCommitted, Accounted, Pulling, InCommit, Placed
<1>7. Commits' /\ Fanned' /\ Gathered'
  BY <1>1, <1>2 DEF Commits, Fanned, Gathered, InCommit, Placed
<1> QED
  BY <1>4, <1>5, <1>6, <1>7

LEMMA NextInv == IInv /\ [Next]_vars => IInv'
<1> SUFFICES ASSUME IInv, [Next]_vars PROVE IInv'
  OBVIOUS
<1>1. CASE \E t \in Tasks : TaskStep(t)
  BY <1>1, ClaimInv, EncodeInv, PanicInv, TryLockInv, DrainInv, BumpInv, StopDrainInv,
     UnlockInv DEF TaskStep
<1>2. CASE CallerStep
  BY <1>2, SerialInv, SerialPanicInv, JoinInv, CopySuffixInv, SetLenInv DEF CallerStep
<1>3. CASE Finished \/ UNCHANGED vars
  BY <1>3, StutterInv DEF Finished
<1> QED
  BY <1>1, <1>2, <1>3 DEF Next

LEMMA Invariance == Spec => []IInv
BY InitInv, NextInv, PTL DEF Spec

-----------------------------------------------------------------------------
(* Type correctness of ChunkGather for every batch, task set and drain bound. *)
THEOREM TypeCorrect == Spec => []TypeOK
<1>1. IInv => TypeOK
  BY DEF IInv
<1> QED
  BY <1>1, Invariance, PTL

(* The commit cursor never runs ahead of, or beside, what is in the buffer. *)
THEOREM CommitsInOrder == Spec => []CommittedPrefix
<1>1. IInv => CommittedPrefix
  BY DEF IInv
<1> QED
  BY <1>1, Invariance, PTL

(* No OnceLock is set twice, so the result of `set` may be dropped. *)
THEOREM EveryIndexClaimedOnce == Spec => []ClaimedOnce
<1>1. IInv => ClaimedOnce
  BY DEF IInv
<1> QED
  BY <1>1, Invariance, PTL

(* The join never finds an empty OnceLock unless an encode panicked. *)
THEOREM NoChunkLost == Spec => []FailsOnlyOnPanic
<1>1. IInv => FailsOnlyOnPanic
  BY DEF IInv
<1> QED
  BY <1>1, Invariance, PTL

(* The caller gets the in-order concatenation of all chunk outputs. *)
THEOREM GatherCorrect == Spec => []AnswerInOrder
<1>1. IInv => AnswerInOrder
  BY DEF IInv
<1> QED
  BY <1>1, Invariance, PTL

-----------------------------------------------------------------------------
(* No copy overwrites another, and the engine implements GatherContract: both for
   every batch, on top of the invariant above. *)


(* A dead task takes its chunk with it: nobody else encodes that chunk. *)
Lost ==
    /\ N > 1 => (panics > 0 <=> \E t \in Tasks : pc[t] = "dead")
    /\ \A t \in Tasks : pc[t] = "dead" =>
          /\ idx[t] \in Chunks(job) \ outs
          /\ \A u \in Tasks : pc[u] = "encode" => idx[u] # idx[t]

(* Every token in the buffer is already where the answer wants it. *)
WellPlaced ==
    \A k \in DOMAIN flat : flat[k] # Unset =>
        \E i \in Chunks(job) : /\ k \in (job.start[i] + 1)..(job.start[i] + job.size[i])
                               /\ flat[k] = <<i, k - job.start[i]>>

-----------------------------------------------------------------------------
LEMMA LostInit == Init => Lost
<1> SUFFICES ASSUME Init PROVE Lost
  OBVIOUS
<1>1. \A t \in Tasks : pc[t] \in {"claim", "gone"}
  BY DEF Init
<1>2. panics = 0
  BY DEF Init
<1> QED
  BY <1>1, <1>2 DEF Lost

LEMMA LostNext == ASSUME IInv, Lost, [Next]_vars PROVE Lost'
<1>1. IsJob(job) /\ N \in Nat /\ Chunks(job) = 1..N /\ panics \in Nat
  BY BatchFacts, BoundsAssumption DEF IInv, TypeOK
<1>2. TypeOK /\ ClaimedOnce
  BY DEF IInv
<1>3. CASE \E t \in Tasks : TaskStep(t)
  <2> PICK t \in Tasks : TaskStep(t)
    BY <1>3
  <2>1. job' = job /\ Chunks(job)' = Chunks(job)
    BY TaskKeeps
  <2>2. CASE Claim(t)
    <3>1. /\ UNCHANGED <<outs, panics>> /\ pc[t] = "claim"
          /\ \A u \in Tasks \ {t} : pc'[u] = pc[u] /\ idx'[u] = idx[u]
          /\ pc'[t] \in {"encode", "advance", "gone"} /\ idx'[t] = next
      BY <2>2, <1>1, <1>2 DEF Claim, Goto, call, TypeOK
    <3>2. \A u \in Tasks : idx[u] # next
      BY <1>2 DEF TypeOK
    <3> QED
      BY <2>1, <3>1, <3>2 DEF Lost, N
  <2>3. CASE EncodeChunk(t)
    <3>1. /\ outs' = outs \cup {idx[t]} /\ panics' = panics /\ idx' = idx
          /\ pc[t] = "encode" /\ pc'[t] \in {"advance", "claim"}
          /\ \A u \in Tasks \ {t} : pc'[u] = pc[u]
      BY <2>3, <1>2 DEF EncodeChunk, Goto, TypeOK
    <3> QED
      BY <2>1, <3>1 DEF Lost, N
  <2>4. CASE Panic(t)
    <3>1. /\ UNCHANGED <<outs, idx>> /\ panics' = panics + 1
          /\ pc[t] = "encode" /\ pc'[t] = "dead"
          /\ \A u \in Tasks \ {t} : pc'[u] = pc[u]
      BY <2>4, <1>2 DEF Panic, Goto, TypeOK, call
    <3>2. panics' > 0
      BY <1>1, <3>1
    <3>3. ASSUME NEW u \in Tasks, pc'[u] = "dead"
          PROVE  /\ idx'[u] \in Chunks(job) \ outs
                 /\ \A v \in Tasks : pc'[v] = "encode" => idx'[v] # idx'[u]
      <4>1. CASE u = t
        BY <3>1, <3>3, <4>1, <1>2 DEF ClaimedOnce
      <4>2. CASE u # t
        BY <3>1, <3>3, <4>2 DEF Lost
      <4> QED
        BY <4>1, <4>2
    <3> QED
      BY <2>1, <3>1, <3>2, <3>3 DEF Lost
  <2>5. CASE TryLock(t) \/ Drain(t) \/ Bump(t) \/ StopDrain(t) \/ Unlock(t)
    <3>1. /\ UNCHANGED <<outs, panics, idx>>
          /\ pc[t] \notin {"encode", "dead"} /\ pc'[t] \notin {"encode", "dead"}
          /\ \A u \in Tasks \ {t} : pc'[u] = pc[u]
      BY <2>5, <1>2 DEF TryLock, Drain, Bump, StopDrain, Unlock, AfterAdvance, Goto, TypeOK, call
    <3> QED
      BY <2>1, <3>1 DEF Lost, N
  <2> QED
    BY <2>2, <2>3, <2>4, <2>5 DEF TaskStep
<1>4. CASE Serial
  <2>1. Joined /\ N <= 1 /\ ~(N > 1)
    BY <1>1, <1>4 DEF IInv, Fanned, Serial
  <2>2. UNCHANGED <<job, pc, idx, panics>> /\ outs' \in SUBSET Chunks(job)
    BY <1>2, <1>4 DEF Serial, run, TypeOK
  <2>3. \A t \in Tasks : pc[t] # "dead"
    BY <1>1, <1>2, <1>4 DEF Lost, Fanned, IInv, Serial, TypeOK
  <2> QED
    BY <2>1, <2>2, <2>3 DEF Lost, N
<1>5. CASE SerialPanic
  <2>1. ~(N > 1) /\ UNCHANGED <<job, outs, pc, idx>>
    BY <1>1, <1>5 DEF SerialPanic
  <2> QED
    BY <2>1 DEF Lost, N
<1>6. CASE Join \/ (\E i \in pending : CopySuffix(i)) \/ SetLen \/ Finished \/ UNCHANGED vars
  <2>1. UNCHANGED <<job, outs, pc, idx, panics>>
    BY <1>6 DEF Join, CopySuffix, SetLen, Finished, vars, call, run
  <2> QED
    BY <2>1 DEF Lost, N
<1> QED
  BY <1>3, <1>4, <1>5, <1>6 DEF Next, CallerStep

LEMMA LostAlways == Spec => []Lost
BY Invariance, LostInit, LostNext, PTL DEF Spec

-----------------------------------------------------------------------------
(* Copying chunk i at its place keeps every token that is in the buffer. *)
LEMMA CopyKeeps ==
    ASSUME IInv, WellPlaced, NEW i \in outs
    PROVE  LET g == Copy(flat, i, job.start[i])
           IN  /\ \A k \in DOMAIN flat : flat[k] # Unset => g[k] = flat[k]
               /\ \A k \in DOMAIN flat : g[k] # Unset =>
                     \E m \in Chunks(job) :
                        /\ k \in (job.start[m] + 1)..(job.start[m] + job.size[m])
                        /\ g[k] = <<m, k - job.start[m]>>
<1> DEFINE g == Copy(flat, i, job.start[i])
           Place(m) == (job.start[m] + 1)..(job.start[m] + job.size[m])
<1>0. IsJob(job) /\ Chunks(job) = 1..N /\ N \in Nat /\ i \in Chunks(job)
  BY BatchFacts DEF IInv, TypeOK
<1>1. g = [k \in DOMAIN flat |-> IF k \in Place(i) THEN <<i, k - job.start[i]>> ELSE flat[k]]
  BY DEF Copy
<1>2. ASSUME NEW m \in Chunks(job), NEW k \in Place(m), k \in Place(i) PROVE m = i
  <2>1. \A c \in Chunks(job) : job.start[c] \in Nat /\ job.size[c] \in Nat
    <3> TAKE c \in Chunks(job)
    <3>1. c \in 1..N /\ c \in 1..(N + 1)
      BY <1>0
    <3> QED
      BY <3>1, <1>0, JobFacts DEF N
  <2>2. m < i => job.start[m] + job.size[m] <= job.start[i]
    BY <1>0, Disjoint
  <2>3. i < m => job.start[i] + job.size[i] <= job.start[m]
    BY <1>0, Disjoint
  <2> QED
    BY <1>0, <1>2, <2>1, <2>2, <2>3, SMTT(30)
<1>3. ASSUME NEW k \in DOMAIN flat, flat[k] # Unset PROVE g[k] = flat[k]
  <2>1. PICK m \in Chunks(job) : k \in Place(m) /\ flat[k] = <<m, k - job.start[m]>>
    BY <1>3 DEF WellPlaced
  <2> QED
    BY <1>1, <1>2, <1>3, <2>1
<1>4. ASSUME NEW k \in DOMAIN flat, g[k] # Unset
      PROVE  \E m \in Chunks(job) : k \in Place(m) /\ g[k] = <<m, k - job.start[m]>>
  <2>1. CASE k \in Place(i)
    BY <1>0, <1>1, <2>1
  <2>2. CASE k \notin Place(i)
    BY <1>1, <1>4, <2>2 DEF WellPlaced
  <2> QED
    BY <2>1, <2>2
<1> QED
  BY <1>3, <1>4

(* What a step may do to the buffer: nothing, a copy of a chunk to the chunk's
   own place, or, at the join, a fresh buffer. *)
LEMMA StepCopies ==
    ASSUME IInv, [Next]_vars
    PROVE  \/ flat' = flat
           \/ Join /\ flat' = [k \in 1..Total(job) |-> Unset]
           \/ \E i \in outs : flat' = Copy(flat, i, job.start[i])
<1>1. CASE \E t \in Tasks : TaskStep(t)
  <2> PICK t \in Tasks : TaskStep(t)
    BY <1>1
  <2>1. CASE Drain(t)
    BY <2>1 DEF Drain, CanDrain, IInv, CommittedPrefix
  <2>2. CASE ~Drain(t)
    BY <2>2 DEF TaskStep, Claim, EncodeChunk, Panic, TryLock, Bump, StopDrain, Unlock
  <2> QED
    BY <2>1, <2>2
<1>2. CASE \E i \in pending : CopySuffix(i)
  <2>1. PICK i \in pending : CopySuffix(i)
    BY <1>2
  <2>2. i \in Chunks(job) /\ status = "copying" /\ N \in Nat
    BY <2>1, BatchFacts DEF CopySuffix, IInv, TypeOK
  <2>3. i \in outs
    BY <2>2 DEF IInv, Gathered, Fanned
  <2> QED
    BY <2>1, <2>2, <2>3, CopyOffset DEF CopySuffix
<1>3. CASE Join
  BY <1>3 DEF Join, run
<1>4. CASE Serial \/ SerialPanic \/ SetLen \/ Finished \/ UNCHANGED vars
  BY <1>4 DEF Serial, SerialPanic, SetLen, Finished, vars, run
<1> QED
  BY <1>1, <1>2, <1>3, <1>4 DEF Next, CallerStep

LEMMA JobFixed == [Next]_vars => job' = job
BY TaskKeeps DEF Next, CallerStep, Serial, SerialPanic, Join, CopySuffix, SetLen, Finished, vars, call

LEMMA WellPlacedNext == ASSUME IInv, WellPlaced, [Next]_vars PROVE WellPlaced'
<1>1. job' = job
  BY JobFixed
<1>2. CASE flat' = flat
  BY <1>1, <1>2 DEF WellPlaced
<1>3. CASE flat' = [k \in 1..Total(job) |-> Unset]
  BY <1>1, <1>3 DEF WellPlaced
<1>4. CASE \E i \in outs : flat' = Copy(flat, i, job.start[i])
  <2>1. PICK i \in outs : flat' = Copy(flat, i, job.start[i])
    BY <1>4
  <2>2. DOMAIN flat' = DOMAIN flat
    BY <2>1 DEF Copy
  <2> QED
    BY <1>1, <2>1, <2>2, CopyKeeps, ZenonT(60) DEF WellPlaced
<1> QED
  BY <1>2, <1>3, <1>4, StepCopies

(* Draining stops for good only at a chunk the reservation cannot hold. *)
Overrun == cursor.overflowed => Total(job) > job.cap

LEMMA OverrunNext == ASSUME IInv, Overrun, [Next]_vars PROVE Overrun'
<1>1. job' = job
  BY JobFixed
<1>2. CASE \E t \in Tasks : StopDrain(t)
  <2>1. SUFFICES ASSUME ~cursor.overflowed, cursor'.overflowed PROVE Total(job) > job.cap
    BY <1>1 DEF Overrun
  <2>2. PICK t \in Tasks : StopDrain(t)
    BY <1>2
  <2>3. cursor'.overflowed = (cursor.overflowed \/ CanDrain(t)) /\ ~(CanDrain(t) /\ Fits)
    BY <2>2 DEF StopDrain, IInv, TypeOK
  <2>4. CanDrain(t) /\ ~Fits
    BY <2>1, <2>3
  <2>5. /\ cursor.next \in Chunks(job) /\ cursor.next \in 1..N /\ cursor.next \in 1..(N + 1)
        /\ cursor.offset = job.start[cursor.next]
    BY <2>4, BatchFacts DEF CanDrain, IInv, TypeOK, CommittedPrefix
  <2>6. /\ job.size[cursor.next] \in Nat /\ job.start[cursor.next] \in Nat /\ job.cap \in Nat
        /\ Total(job) \in Nat
        /\ job.start[cursor.next] + job.size[cursor.next] <= Total(job)
    BY <2>5, BatchFacts, JobFacts DEF IInv
  <2> QED
    BY <2>4, <2>5, <2>6 DEF Fits
<1>3. CASE \E t \in Tasks : Bump(t)
  <2>1. PICK t \in Tasks : Bump(t)
    BY <1>3
  <2>2. cursor'.overflowed = cursor.overflowed
    BY <2>1 DEF Bump, IInv, TypeOK
  <2> QED
    BY <1>1, <2>2 DEF Overrun
<1>4. CASE /\ \A t \in Tasks : ~StopDrain(t) /\ ~Bump(t)
  <2>1. cursor' = cursor
    BY <1>4 DEF Next, CallerStep, TaskStep, Claim, EncodeChunk, Panic, TryLock, Drain, Unlock,
       Serial, SerialPanic, Join, CopySuffix, SetLen, Finished, vars, run
  <2> QED
    BY <1>1, <2>1 DEF Overrun
<1> QED
  BY <1>2, <1>3, <1>4

(* The fresh buffer of gather_flat is not the reservation under another name. *)
LEMMA FreshBuffer ==
    ASSUME IInv, Overrun, Join, flat' # flat
    PROVE  DOMAIN flat' # DOMAIN flat \/ \A k \in DOMAIN flat : flat[k] = Unset
<1>1. /\ N > 1 /\ ~Finishable /\ status = "running" /\ flat' = [k \in 1..Total(job) |-> Unset]
  BY DEF Join, run
<1>2. DOMAIN flat = 1..(IF committer THEN job.cap ELSE 0)
  BY <1>1, BatchFacts DEF IInv, TypeOK, BufferLen
<1>3. job.cap \in Nat /\ Total(job) \in Nat
  BY BatchFacts DEF IInv
<1>4. CASE committer
  <2>1. Total(job) > job.cap
    BY <1>1, <1>3, <1>4 DEF Finishable, Overrun
  <2>2. Total(job) \in 1..Total(job) /\ Total(job) \notin 1..job.cap
    BY <1>3, <2>1
  <2> QED
    BY <1>1, <1>2, <1>4, <2>2
<1>5. CASE ~committer
  BY <1>2, <1>5
<1> QED
  BY <1>4, <1>5

LEMMA NoOverwriteStep ==
    ASSUME IInv, WellPlaced, Overrun, [Next]_vars
    PROVE  [DOMAIN flat' = DOMAIN flat =>
               \A k \in DOMAIN flat : flat[k] # Unset => flat'[k] = flat[k]]_flat
<1>1. CASE flat' = flat
  BY <1>1
<1>2. CASE flat' # flat /\ Join
  BY <1>2, FreshBuffer
<1>3. CASE \E i \in outs : flat' = Copy(flat, i, job.start[i])
  BY <1>3, CopyKeeps
<1> QED
  BY <1>1, <1>2, <1>3, StepCopies

-----------------------------------------------------------------------------
LEMMA BufferInit == Init => WellPlaced /\ Overrun
BY DEF Init, TryNew, WellPlaced, Overrun

(* Whoever copies, and whichever buffer is in use, a token placed stays: the
   ranges that the unsafe copies of Committer write are disjoint. *)
THEOREM CopiesDisjoint == Spec => NoOverwrite
<1>1. IInv /\ WellPlaced /\ Overrun /\ [Next]_vars => WellPlaced' /\ Overrun'
  BY WellPlacedNext, OverrunNext
<1>2. Spec => [](WellPlaced /\ Overrun)
  BY <1>1, Invariance, BufferInit, PTL DEF Spec
<1>3. IInv /\ WellPlaced /\ Overrun /\ [Next]_vars =>
         [DOMAIN flat' = DOMAIN flat =>
             \A k \in DOMAIN flat : flat[k] # Unset => flat'[k] = flat[k]]_flat
  BY NoOverwriteStep
<1> QED
  BY <1>2, <1>3, Invariance, PTL DEF Spec, NoOverwrite

-----------------------------------------------------------------------------
LEMMA ContractBatches ==
    /\ \A j : Contract!Chunks(j) = Chunks(j)
    /\ \A j, f : Contract!InOrder(j, f) <=> InOrder(j, f)
BY DEF Contract!Chunks, Chunks, Contract!InOrder, InOrder, Contract!Placed, Placed,
   Contract!Total, Total

(* Every step of the gather is a step of the contract, or is invisible to it. *)
LEMMA ContractStep ==
    ASSUME IInv, Lost, [Next]_vars
    PROVE  [Contract!Next]_Contract!vars
<1>0. /\ Contract!Chunks(job) = Chunks(job)
      /\ InOrder(job, answer') => Contract!InOrder(job, answer')
  BY ContractBatches
<1>1. IsJob(job) /\ N \in Nat /\ Chunks(job) = 1..N /\ TypeOK /\ job' = job
  BY BatchFacts, JobFixed DEF IInv
<1>2. CASE \E t \in Tasks : TaskStep(t)
  <2> PICK t \in Tasks : TaskStep(t)
    BY <1>2
  <2>0. UNCHANGED <<job, status, answer>>
    BY TaskKeeps
  <2>1. CASE EncodeChunk(t)
    <3>1. outs' = outs \cup {idx[t]} /\ pc[t] = "encode" /\ idx[t] \in Chunks(job) \ outs
      BY <2>1 DEF EncodeChunk, IInv, ClaimedOnce
    <3>2. status = "running"
      BY <3>1 DEF IInv, Gathered, Joined
    <3> QED
      BY <1>0, <2>0, <3>1, <3>2 DEF Contract!Next, Contract!Encode
  <2>2. CASE ~EncodeChunk(t)
    <3>1. outs' = outs
      BY <2>2 DEF TaskStep, Claim, Panic, TryLock, Drain, Bump, StopDrain, Unlock, call
    <3> QED
      BY <2>0, <3>1 DEF Contract!vars
  <2> QED
    BY <2>1, <2>2
<1>3. CASE Serial
  <2>1. CASE outs # Chunks(job)
    <3>1. /\ N = 1 /\ outs = {} /\ status = "running" /\ outs' = {1}
          /\ UNCHANGED <<job, status, answer>>
      <4>1. /\ N <= 1 /\ status = "running" /\ outs' = Chunks(job) /\ outs \subseteq Chunks(job)
            /\ UNCHANGED <<job, status, answer>>
        BY <1>1, <1>3, <2>1 DEF Serial, TypeOK
      <4>2. N = 1
        <5>1. N # 0
          BY <1>1, <2>1, <4>1
        <5> QED
          BY <1>1, <4>1, <5>1
      <4>3. Chunks(job) = {1}
        BY <1>1, <4>2
      <4> QED
        BY <2>1, <4>1, <4>2, <4>3
    <3> QED
      BY <1>0, <1>1, <3>1 DEF Contract!Next, Contract!Encode
  <2>2. CASE outs = Chunks(job)
    <3>1. /\ status = "running" /\ status' = "answered" /\ outs' = outs
      BY <1>3, <2>2 DEF Serial
    <3>2. InOrder(job, answer')
      BY <1>1, <1>3, <3>1, SerialInv DEF IInv, AnswerInOrder
    <3> QED
      BY <1>0, <1>1, <2>2, <3>1, <3>2 DEF Contract!Next, Contract!Deliver
  <2> QED
    BY <2>1, <2>2
<1>4. CASE Join
  <2>1. CASE panics > 0 \/ outs # Chunks(job)
    <3>1. /\ status = "running" /\ status' = "failed" /\ UNCHANGED <<job, outs, answer>>
      BY <1>4, <2>1 DEF Join
    <3>2. outs # Chunks(job)
      BY <1>4, <2>1 DEF Lost, Join
    <3> QED
      BY <1>0, <3>1, <3>2 DEF Contract!Next, Contract!Fail
  <2>2. CASE ~(panics > 0 \/ outs # Chunks(job))
    <3>1. /\ status = "running" /\ status' = "copying" /\ UNCHANGED <<job, outs, answer>>
      BY <1>4, <2>2 DEF Join
    <3> QED
      BY <3>1 DEF Contract!vars
  <2> QED
    BY <2>1, <2>2
<1>5. CASE SetLen
  <2>1. /\ status = "copying" /\ status' = "answered" /\ outs' = outs
    BY <1>5 DEF SetLen
  <2>2. outs = Chunks(job)
    BY <1>1, <2>1 DEF IInv, Gathered, Fanned
  <2>3. InOrder(job, answer')
    BY <1>5, SetLenInv
  <2> QED
    BY <1>0, <1>1, <2>1, <2>2, <2>3 DEF Contract!Next, Contract!Deliver
<1>6. CASE SerialPanic
  <2>1. /\ status = "running" /\ status' = "failed" /\ outs # Chunks(job)
        /\ UNCHANGED <<job, outs, answer>>
    BY <1>6 DEF SerialPanic
  <2> QED
    BY <1>0, <2>1 DEF Contract!Next, Contract!Fail
<1>7. CASE (\E i \in pending : CopySuffix(i)) \/ Finished \/ UNCHANGED vars
  <2>1. UNCHANGED <<job, outs, status, answer>>
    BY <1>7 DEF CopySuffix, Finished, vars, call
  <2> QED
    BY <2>1 DEF Contract!vars
<1> QED
  BY <1>2, <1>3, <1>4, <1>5, <1>6, <1>7 DEF Next, CallerStep

(* Encoding, committing and copying as they do, the tasks and the caller behave
   as the contract of a batch allows. *)
THEOREM ImplementsGatherContract == Spec => ImplementsContract
<1>1. Init => Contract!Init
  BY DEF Init, Contract!Init
<1>2. IInv /\ Lost /\ [Next]_vars => [Contract!Next]_Contract!vars
  BY ContractStep
<1> QED
  BY <1>1, <1>2, Invariance, LostAlways, PTL DEF Spec, Contract!Spec, ImplementsContract

-----------------------------------------------------------------------------
(* WorkerPool. *)

(* A slot's mutex is held by exactly the thread that works on it, and a thread
   is where its control point says. *)
Held ==
    \A t \in Threads :
        /\ \A k \in Slots : holder[k] = t <=> stage[t] = "work" /\ pos[t] = k
        /\ stage[t] \in {"idle", "blocked"} => pos[t] = 0
        /\ stage[t] = "scan" => pos[t] # 0
        /\ stage[t] = "work" => pos[t] \in Slots

(* A worker left in the middle of an encode sits behind a poisoned mutex that
   nobody holds. *)
TornIsPoisoned ==
    \A k \in Slots : worker[k] = "torn" => poisoned[k] /\ holder[k] = Nobody

(* Only the threads that encode ever touch the pool. *)
Outside == \A t \in Threads \ callers : stage[t] = "idle" /\ pos[t] = 0

PoolInv == PoolTypeOK /\ Held /\ TornIsPoisoned /\ Outside

(* The threads of with_worker that have got as far as slot k. *)
AtOrPast(k) == {t \in Threads : pos[t] >= k}

(* At every slot there is room for all the threads that can still come to it. *)
Room == EnoughSlots => \A k \in 1..(NumSlots + 1) : Cardinality(AtOrPast(k)) <= NumSlots - k + 1

-----------------------------------------------------------------------------
LEMMA PoolInvInit == PoolInit => PoolInv
<1> SUFFICES ASSUME PoolInit PROVE PoolInv
  OBVIOUS
<1>1. PoolTypeOK
  <2>1. pos \in [Threads -> 0..(NumSlots + 1)]
    BY SlotsAssumption DEF PoolInit
  <2>2. sized \in BOOLEAN /\ poisoned \in [Slots -> BOOLEAN]
    BY DEF PoolInit
  <2>3. /\ callers \in (SUBSET Threads) \ {{}}
        /\ stage \in [Threads -> {"idle", "scan", "blocked", "work"}]
        /\ holder \in [Slots -> Threads \cup {Nobody}]
        /\ worker \in [Slots -> {"none", "cold", "warm", "torn"}]
    BY DEF PoolInit
  <2> QED
    BY <2>1, <2>2, <2>3 DEF PoolTypeOK
<1>2. Held
  BY ThreadsAssumption DEF PoolInit, Held
<1>3. TornIsPoisoned
  BY DEF PoolInit, TornIsPoisoned
<1>4. Outside
  BY DEF PoolInit, Outside
<1> QED
  BY <1>1, <1>2, <1>3, <1>4 DEF PoolInv

(* What granting a lock does, wherever the thread waited for it. *)
LEMMA TakeKeeps ==
    ASSUME PoolInv, NEW t \in callers, NEW k \in Slots, Take(t, k), pos[t] = k, stage[t] # "work",
           UNCHANGED <<callers, pos, sized, poisoned>>
    PROVE  PoolInv'
<1> USE DEF PoolInv
<1>0. t \in Threads
  BY DEF PoolTypeOK
<1>1. /\ holder[k] = Nobody
      /\ holder' \in [Slots -> Threads \cup {Nobody}] /\ stage' \in [Threads -> {"idle", "scan", "blocked", "work"}]
      /\ holder'[k] = t /\ \A m \in Slots \ {k} : holder'[m] = holder[m]
      /\ stage'[t] = "work" /\ \A u \in Threads \ {t} : stage'[u] = stage[u]
  BY <1>0 DEF Take, PoolTypeOK
<1>2. worker' = [worker EXCEPT ![k] = IF poisoned[k] \/ worker[k] = "none" THEN "cold" ELSE worker[k]]
  BY DEF Take
<1>3. /\ worker' \in [Slots -> {"none", "cold", "warm", "torn"}]
      /\ \A m \in Slots \ {k} : worker'[m] = worker[m]
      /\ worker'[k] # "torn"
  BY <1>2 DEF PoolTypeOK, TornIsPoisoned
<1>4. PoolTypeOK'
  BY <1>1, <1>3 DEF PoolTypeOK
<1>5. Held'
  BY <1>0, <1>1, ThreadsAssumption DEF Held, PoolTypeOK
<1>6. TornIsPoisoned'
  BY <1>1, <1>3 DEF TornIsPoisoned
<1>7. Outside'
  BY <1>0, <1>1 DEF Outside
<1> QED
  BY <1>4, <1>5, <1>6, <1>7

(* What giving a slot back does, after a result and after a panic. *)
LEMMA LeaveKeeps ==
    ASSUME PoolInv, NEW t \in callers, Leave(t), callers' = callers, NEW w \in {"warm", "torn"},
           worker' = [worker EXCEPT ![pos[t]] = w],
           poisoned' \in [Slots -> BOOLEAN],
           \A k \in Slots \ {pos[t]} : poisoned'[k] = poisoned[k],
           w = "torn" => poisoned'[pos[t]]
    PROVE  PoolInv'
<1> USE DEF PoolInv
<1>0. t \in Threads
  BY DEF PoolTypeOK
<1>1. /\ stage[t] = "work" /\ pos[t] \in Slots /\ holder[pos[t]] = t /\ sized' = sized
      /\ stage' \in [Threads -> {"idle", "scan", "blocked", "work"}]
      /\ pos' \in [Threads -> 0..(NumSlots + 1)]
      /\ stage'[t] = "idle" /\ pos'[t] = 0
      /\ \A u \in Threads \ {t} : stage'[u] = stage[u] /\ pos'[u] = pos[u]
  BY <1>0, SlotsAssumption DEF Leave, Held, PoolTypeOK
<1>2. /\ holder' \in [Slots -> Threads \cup {Nobody}]
      /\ holder'[pos[t]] = Nobody /\ \A m \in Slots \ {pos[t]} : holder'[m] = holder[m]
      /\ worker' \in [Slots -> {"none", "cold", "warm", "torn"}]
      /\ worker'[pos[t]] = w /\ \A m \in Slots \ {pos[t]} : worker'[m] = worker[m]
  BY <1>1 DEF Leave, PoolTypeOK
<1>3. PoolTypeOK'
  BY <1>1, <1>2 DEF PoolTypeOK
<1>4. Held'
  BY <1>0, <1>1, <1>2, ThreadsAssumption DEF Held
<1>5. TornIsPoisoned'
  BY <1>1, <1>2 DEF TornIsPoisoned
<1>6. Outside'
  BY <1>0, <1>1 DEF Outside
<1> QED
  BY <1>3, <1>4, <1>5, <1>6

LEMMA PoolInvNext == PoolInv /\ [PoolNext]_poolVars => PoolInv'
<1> SUFFICES ASSUME PoolInv, [PoolNext]_poolVars PROVE PoolInv'
  OBVIOUS
<1> USE DEF PoolInv
<1>1. CASE UNCHANGED poolVars
  BY <1>1 DEF poolVars, PoolTypeOK, Held, TornIsPoisoned, Outside
<1>2. CASE PoolNext
  <2> PICK t \in callers : CallPool(t) \/ CallSerial(t) \/ Work(t) \/ LockSerial(t)
    BY <1>2 DEF PoolNext
  <2>0. t \in Threads /\ callers' = callers
    BY <1>2 DEF PoolNext, PoolTypeOK
  <2>1. CASE CallPool(t) \/ CallSerial(t)
    <3>0. sized' \in BOOLEAN
      BY <2>1, ZenonT(30) DEF CallPool, CallSerial, PoolTypeOK
    <3>1. /\ UNCHANGED <<holder, poisoned, worker>>
          /\ stage[t] = "idle"
          /\ stage' \in [Threads -> {"idle", "scan", "blocked", "work"}]
          /\ pos' \in [Threads -> 0..(NumSlots + 1)]
          /\ \/ stage'[t] = "scan" /\ pos'[t] = 1
             \/ stage'[t] = "blocked" /\ pos'[t] = pos[t]
          /\ \A u \in Threads \ {t} : stage'[u] = stage[u] /\ pos'[u] = pos[u]
      BY <2>0, <2>1, SlotsAssumption DEF CallPool, CallSerial, PoolTypeOK
    <3>2. PoolTypeOK' /\ TornIsPoisoned'
      BY <2>0, <3>0, <3>1 DEF PoolTypeOK, TornIsPoisoned
    <3>3. Held' /\ Outside'
      BY <2>0, <3>1 DEF Held, Outside
    <3> QED
      BY <3>2, <3>3
  <2>2. CASE Probe(t)
    <3>1. CASE Take(t, pos[t]) /\ UNCHANGED <<pos, sized, poisoned>>
      <4>1. pos[t] \in Slots /\ stage[t] # "work"
        BY <2>2 DEF Probe, Slots
      <4> QED
        BY <2>0, <3>1, <4>1, TakeKeeps
    <3>2. CASE pos' = [pos EXCEPT ![t] = pos[t] + 1] /\ UNCHANGED <<stage, sized, holder, poisoned, worker>>
      <4>1. /\ stage[t] = "scan" /\ pos[t] \in 1..NumSlots
            /\ pos' \in [Threads -> 0..(NumSlots + 1)] /\ pos'[t] = pos[t] + 1
            /\ \A u \in Threads \ {t} : pos'[u] = pos[u]
        BY <2>0, <2>2, <3>2, SlotsAssumption DEF Probe, PoolSlots, PoolTypeOK
      <4>2. pos'[t] # 0
        BY <4>1, SlotsAssumption
      <4> QED
        BY <2>0, <3>2, <4>1, <4>2 DEF PoolTypeOK, Held, TornIsPoisoned, Outside
    <3> QED
      BY <2>2, <3>1, <3>2 DEF Probe
  <2>3. CASE Yield(t)
    <3>1. /\ stage[t] = "scan" /\ UNCHANGED <<stage, sized, holder, poisoned, worker>>
          /\ pos' \in [Threads -> 0..(NumSlots + 1)] /\ pos'[t] = 1
          /\ \A u \in Threads \ {t} : pos'[u] = pos[u]
      BY <2>0, <2>3, SlotsAssumption DEF Yield, PoolTypeOK
    <3> QED
      BY <2>0, <3>1 DEF PoolTypeOK, Held, TornIsPoisoned, Outside
  <2>4. CASE LockSerial(t)
    BY <2>0, <2>4, TakeKeeps DEF LockSerial, Held, Slots, SerialSlot
  <2>5. CASE Return(t)
    <3>1. poisoned' \in [Slots -> BOOLEAN] /\ \A k \in Slots : poisoned'[k] = poisoned[k]
      BY <2>5 DEF Return, PoolTypeOK
    <3> QED
      BY <2>0, <2>5, <3>1, LeaveKeeps DEF Return
  <2>6. CASE PoolPanic(t)
    <3>1. pos[t] \in Slots
      BY <2>0, <2>6 DEF PoolPanic, Leave, Held
    <3>2. /\ poisoned' \in [Slots -> BOOLEAN] /\ poisoned'[pos[t]]
          /\ \A k \in Slots \ {pos[t]} : poisoned'[k] = poisoned[k]
      BY <2>6, <3>1 DEF PoolPanic, PoolTypeOK
    <3> QED
      BY <2>0, <2>6, <3>2, LeaveKeeps DEF PoolPanic
  <2> QED
    BY <2>1, <2>2, <2>3, <2>4, <2>5, <2>6 DEF Work
<1> QED
  BY <1>1, <1>2

LEMMA PoolInvariance == PoolSpec => []PoolInv
BY PoolInvInit, PoolInvNext, PTL DEF PoolSpec

-----------------------------------------------------------------------------
LEMMA RoomInit == PoolInit => Room
<1> SUFFICES ASSUME PoolInit, EnoughSlots, NEW k \in 1..(NumSlots + 1)
             PROVE  Cardinality(AtOrPast(k)) <= NumSlots - k + 1
  BY DEF Room
<1>1. AtOrPast(k) = {}
  BY SlotsAssumption DEF PoolInit, AtOrPast
<1> QED
  BY <1>1, FS_EmptySet, SlotsAssumption

LEMMA AtOrPastFinite ==
    ASSUME NEW k \in Nat
    PROVE  IsFiniteSet(AtOrPast(k)) /\ Cardinality(AtOrPast(k)) \in Nat
BY FS_Subset, FS_CardinalityType, ThreadsAssumption DEF AtOrPast

(* A thread that passes slot k leaves behind the thread that holds it. *)
LEMMA RoomNext ==
    ASSUME PoolInv, Room, [PoolNext]_poolVars
    PROVE  Room'
<1>a. callers' = callers /\ callers \in SUBSET Threads
  BY DEF PoolNext, poolVars, PoolInv, PoolTypeOK
<1> SUFFICES ASSUME EnoughSlots, NEW k \in 1..(NumSlots + 1)
             PROVE  Cardinality(AtOrPast(k)') <= NumSlots - k + 1
  BY <1>a DEF Room, AtOrPast, EnoughSlots
<1>0. NumSlots \in Nat /\ k \in Nat /\ PoolTypeOK /\ Held
  BY SlotsAssumption DEF PoolInv
<1>1. CASE AtOrPast(k)' \subseteq AtOrPast(k)
  <2>1. Cardinality(AtOrPast(k)') <= Cardinality(AtOrPast(k))
    BY <1>0, <1>1, AtOrPastFinite, FS_Subset
  <2>2. IsFiniteSet(AtOrPast(k)') /\ Cardinality(AtOrPast(k)') \in Nat
    BY <1>0, <1>1, AtOrPastFinite, FS_Subset, FS_CardinalityType
  <2> QED
    BY <1>0, <2>1, <2>2, AtOrPastFinite DEF Room
<1>2. CASE k = 1
  <2>1. AtOrPast(k)' \subseteq callers
    <3>1. Outside'
      BY PoolInvNext DEF PoolInv
    <3> QED
      BY <1>a, <1>2, <3>1 DEF AtOrPast, Outside
  <2>2. IsFiniteSet(callers)
    BY <1>0, <1>a, FS_Subset, ThreadsAssumption
  <2>3. /\ Cardinality(AtOrPast(k)') <= Cardinality(callers)
        /\ Cardinality(AtOrPast(k)') \in Nat /\ Cardinality(callers) \in Nat
    BY <2>1, <2>2, FS_Subset, FS_CardinalityType
  <2> QED
    BY <1>0, <1>2, <2>3 DEF EnoughSlots
<1>3. CASE k # 1 /\ ~(AtOrPast(k)' \subseteq AtOrPast(k))
  <2>1. PICK t \in Threads : pos'[t] >= k /\ ~(pos[t] >= k)
    BY <1>3 DEF AtOrPast
  <2>2. CASE pos' = [pos EXCEPT ![t] = pos[t] + 1] /\ stage[t] = "scan" /\ pos[t] \in PoolSlots
             /\ holder[pos[t]] # Nobody
    <3> DEFINE u == holder[pos[t]]
    <3>1. u \in Threads /\ stage[u] = "work" /\ pos[u] = pos[t] /\ u # t
      BY <1>0, <2>2 DEF PoolTypeOK, Held, Slots
    <3>2. pos[t] = k - 1 /\ k - 1 \in 1..NumSlots
      BY <1>0, <2>1, <2>2 DEF PoolTypeOK, PoolSlots
    <3>3. u \in AtOrPast(k - 1) /\ AtOrPast(k)' \subseteq AtOrPast(k - 1) \ {u}
      BY <1>0, <2>2, <3>1, <3>2 DEF AtOrPast, PoolTypeOK
    <3>4. /\ IsFiniteSet(AtOrPast(k - 1)) /\ Cardinality(AtOrPast(k - 1)) \in Nat
      BY <1>0, <3>2, AtOrPastFinite
    <3>5. /\ IsFiniteSet(AtOrPast(k - 1) \ {u})
          /\ Cardinality(AtOrPast(k - 1) \ {u}) = Cardinality(AtOrPast(k - 1)) - 1
      BY <3>3, <3>4, FS_RemoveElement
    <3>6. /\ Cardinality(AtOrPast(k)') <= Cardinality(AtOrPast(k - 1) \ {u})
          /\ Cardinality(AtOrPast(k)') \in Nat
      BY <3>3, <3>5, FS_Subset, FS_CardinalityType
    <3>7. Cardinality(AtOrPast(k - 1)) <= NumSlots - (k - 1) + 1
      BY <1>0, <3>2 DEF Room
    <3> QED
      BY <1>0, <3>4, <3>5, <3>6, <3>7
  <2>3. CASE ~(pos' = [pos EXCEPT ![t] = pos[t] + 1] /\ stage[t] = "scan" /\ pos[t] \in PoolSlots
               /\ holder[pos[t]] # Nobody)
    <3>1. pos' # pos
      BY <2>1
    <3>2. PICK v \in callers : \/ CallPool(v) \/ Yield(v) \/ Leave(v)
                               \/ /\ Probe(v) /\ pos' = [pos EXCEPT ![v] = pos[v] + 1]
                                  /\ holder[pos[v]] # Nobody
      BY <3>1 DEF PoolNext, Work, Return, PoolPanic, LockSerial, CallSerial, Probe, poolVars
    <3>3. CASE CallPool(v) \/ Yield(v) \/ Leave(v)
      <4>1. pos'[t] \in {0, 1, pos[t]}
        BY <1>0, <1>a, <3>3 DEF CallPool, Yield, Leave, PoolTypeOK
      <4> QED
        BY <1>0, <1>3, <2>1, <4>1 DEF PoolTypeOK
    <3>4. CASE /\ Probe(v) /\ pos' = [pos EXCEPT ![v] = pos[v] + 1] /\ holder[pos[v]] # Nobody
      <4>1. v = t
        BY <1>0, <1>a, <2>1, <3>4 DEF PoolTypeOK
      <4> QED
        BY <2>3, <3>4, <4>1 DEF Probe
    <3> QED
      BY <3>2, <3>3, <3>4
  <2> QED
    BY <2>2, <2>3
<1> QED
  BY <1>1, <1>2, <1>3

-----------------------------------------------------------------------------
(* Type correctness of WorkerPool for every number of threads and slots. *)
THEOREM PoolTypeCorrect == PoolSpec => []PoolTypeOK
<1>1. PoolInv => PoolTypeOK
  BY DEF PoolInv
<1> QED
  BY <1>1, PoolInvariance, PTL

(* No two encodes ever run on one pooled worker. *)
THEOREM MutualExclusion == PoolSpec => []Exclusive
<1>1. PoolInv => Exclusive
  BY DEF PoolInv, Held, Exclusive
<1> QED
  BY <1>1, PoolInvariance, PTL

(* A worker that a panic interrupted is rebuilt before it is used again. *)
THEOREM TornNeverUsed == PoolSpec => []NoTornWorker
<1>1. PoolInv => NoTornWorker
  BY ThreadsAssumption DEF PoolInv, Held, TornIsPoisoned, NoTornWorker
<1> QED
  BY <1>1, PoolInvariance, PTL

(* The claim of with_worker: with one slot per encoding thread, a scan of the
   slots always finds a free one, however the others come and go meanwhile. *)
THEOREM FreeSlotExists == PoolSpec => []NoMissedScan
<1>1. PoolInit => Room
  BY RoomInit
<1>2. PoolInv /\ Room /\ [PoolNext]_poolVars => Room'
  BY RoomNext
<1>3. PoolInv /\ Room => NoMissedScan
  <2> SUFFICES ASSUME Room, EnoughSlots, NEW t \in Threads, pos[t] = NumSlots + 1 PROVE FALSE
    BY DEF NoMissedScan, PoolInv
  <2>1. t \in AtOrPast(NumSlots + 1) /\ NumSlots + 1 \in 1..(NumSlots + 1)
    BY SlotsAssumption DEF AtOrPast
  <2>2. Cardinality(AtOrPast(NumSlots + 1)) <= 0
    BY <2>1, SlotsAssumption DEF Room
  <2>3. IsFiniteSet(AtOrPast(NumSlots + 1)) /\ Cardinality(AtOrPast(NumSlots + 1)) \in Nat
    BY AtOrPastFinite, SlotsAssumption
  <2> QED
    BY <2>1, <2>2, <2>3, FS_EmptySet
<1> QED
  BY <1>1, <1>2, <1>3, PoolInvariance, PTL DEF PoolSpec
-----------------------------------------------------------------------------
(* Sequences over any set. *)
IsSeq(s) == \E S : s \in Seq(S)

LEMMA SeqFacts ==
    ASSUME NEW s, IsSeq(s)
    PROVE  /\ Len(s) \in Nat /\ DOMAIN s = 1..Len(s) /\ s = [k \in 1..Len(s) |-> s[k]]
BY DEF IsSeq

LEMMA FunSeq ==
    ASSUME NEW n \in Nat, NEW f, DOMAIN f = 1..n, f = [k \in 1..n |-> f[k]]
    PROVE  IsSeq(f) /\ Len(f) = n
<1>1. f \in [1..n -> {f[k] : k \in 1..n}]
  OBVIOUS
<1>2. f \in Seq({f[k] : k \in 1..n})
  BY <1>1
<1> QED
  BY <1>2, LenProperties DEF IsSeq

LEMMA SameSeq ==
    ASSUME NEW s, IsSeq(s), NEW t, IsSeq(t), Len(s) = Len(t), \A k \in 1..Len(s) : s[k] = t[k]
    PROVE  s = t
<1>1. s = [k \in 1..Len(s) |-> s[k]] /\ t = [k \in 1..Len(s) |-> t[k]]
  BY SeqFacts
<1>2. [k \in 1..Len(s) |-> s[k]] = [k \in 1..Len(s) |-> t[k]]
  OBVIOUS
<1> QED
  BY <1>1, <1>2

LEMMA Together ==
    ASSUME NEW s, IsSeq(s), NEW t, IsSeq(t)
    PROVE  \E S : s \in Seq(S) /\ t \in Seq(S)
<1>1. PICK A : s \in Seq(A)
  BY DEF IsSeq
<1>2. PICK B : t \in Seq(B)
  BY DEF IsSeq
<1>3. s \in Seq(A \cup B) /\ t \in Seq(A \cup B)
  <2>1. Len(s) \in Nat /\ s \in [1..Len(s) -> A] /\ Len(t) \in Nat /\ t \in [1..Len(t) -> B]
    BY <1>1, <1>2
  <2>2. s \in [1..Len(s) -> A \cup B] /\ t \in [1..Len(t) -> A \cup B]
    BY <2>1
  <2> QED
    BY <2>1, <2>2
<1> QED
  BY <1>3

LEMMA Joined2 ==
    ASSUME NEW s, IsSeq(s), NEW t, IsSeq(t)
    PROVE  /\ IsSeq(s \o t) /\ Len(s \o t) = Len(s) + Len(t)
           /\ \A k \in 1..Len(s) : (s \o t)[k] = s[k]
           /\ \A k \in 1..Len(t) : (s \o t)[Len(s) + k] = t[k]
<1>1. PICK S : s \in Seq(S) /\ t \in Seq(S)
  BY Together
<1>2. s \o t \in Seq(S) /\ Len(s \o t) = Len(s) + Len(t)
  BY <1>1, ConcatProperties
<1>3. Len(s) \in Nat /\ Len(t) \in Nat
  BY SeqFacts
<1>4. \A i \in 1..Len(s) + Len(t) : (s \o t)[i] = IF i <= Len(s) THEN s[i] ELSE t[i - Len(s)]
  BY <1>1, ConcatProperties
<1>5. ASSUME NEW k \in 1..Len(t) PROVE (s \o t)[Len(s) + k] = t[k]
  <2>1. Len(s) + k \in 1..(Len(s) + Len(t)) /\ ~(Len(s) + k <= Len(s)) /\ (Len(s) + k) - Len(s) = k
    BY <1>3
  <2> QED
    BY <1>4, <2>1
<1>6. \A k \in 1..Len(s) : (s \o t)[k] = s[k]
  BY <1>3, <1>4
<1> QED
  BY <1>2, <1>5, <1>6 DEF IsSeq

LEMMA Rejoined ==
    ASSUME NEW s, IsSeq(s), NEW t, IsSeq(t), NEW u, IsSeq(u)
    PROVE  (s \o t) \o u = s \o (t \o u)
<1> DEFINE l == (s \o t) \o u
           r == s \o (t \o u)
<1>1. /\ Len(s) \in Nat /\ Len(t) \in Nat /\ Len(u) \in Nat
      /\ IsSeq(s \o t) /\ IsSeq(t \o u) /\ Len(s \o t) = Len(s) + Len(t) /\ Len(t \o u) = Len(t) + Len(u)
  BY SeqFacts, Joined2
<1>2. /\ IsSeq(l) /\ IsSeq(r) /\ Len(l) = Len(s) + Len(t) + Len(u) /\ Len(r) = Len(s) + Len(t) + Len(u)
  BY <1>1, Joined2
<1>3. ASSUME NEW k \in 1..Len(l) PROVE l[k] = r[k]
  <2>1. CASE k <= Len(s)
    <3>1. k \in 1..Len(s) /\ k \in 1..Len(s \o t)
      BY <1>1, <1>2, <2>1
    <3>2. l[k] = (s \o t)[k] /\ (s \o t)[k] = s[k]
      BY <1>1, <3>1, Joined2
    <3>3. r[k] = s[k]
      BY <1>1, <3>1, Joined2
    <3> QED
      BY <3>2, <3>3
  <2>2. CASE Len(s) < k /\ k <= Len(s) + Len(t)
    <3> DEFINE j == k - Len(s)
    <3>1. j \in 1..Len(t) /\ k = Len(s) + j /\ k \in 1..Len(s \o t) /\ j \in 1..Len(t \o u)
      BY <1>1, <1>2, <2>2
    <3> HIDE DEF j
    <3>2. l[k] = (s \o t)[k] /\ (s \o t)[k] = t[j]
      BY <1>1, <3>1, Joined2
    <3>3. r[k] = (t \o u)[j] /\ (t \o u)[j] = t[j]
      BY <1>1, <3>1, Joined2
    <3> QED
      BY <3>2, <3>3
  <2>3. CASE Len(s) + Len(t) < k
    <3> DEFINE i == k - (Len(s) + Len(t))
               j == k - Len(s)
    <3>1. i \in 1..Len(u) /\ k = Len(s \o t) + i /\ j \in 1..Len(t \o u) /\ k = Len(s) + j /\ j = Len(t) + i
      BY <1>1, <1>2, <2>3
    <3> HIDE DEF i, j
    <3>2. l[k] = u[i]
      BY <1>1, <3>1, Joined2
    <3>3. r[k] = (t \o u)[j] /\ (t \o u)[j] = u[i]
      BY <1>1, <3>1, Joined2
    <3> QED
      BY <3>2, <3>3
  <2> QED
    BY <1>1, <1>2, <2>1, <2>2, <2>3
<1> HIDE DEF l, r
<1> QED
  BY <1>2, <1>3, SameSeq DEF l, r

(* Three joins, in two orders. *)
Regroups(s, t, u, v) == ((s \o t) \o u) \o v = s \o ((t \o u) \o v)
LEMMA Rejoined4 ==
    ASSUME NEW s, IsSeq(s), NEW t, IsSeq(t), NEW u, IsSeq(u), NEW v, IsSeq(v)
    PROVE  Regroups(s, t, u, v)
<1>1. (s \o t) \o u = s \o (t \o u)
  BY Rejoined
<1> DEFINE tu == t \o u
<1>2. IsSeq(tu)
  BY Joined2
<1> HIDE DEF tu
<1>3. (s \o tu) \o v = s \o (tu \o v)
  BY <1>2, Rejoined
<1> QED
  BY <1>1, <1>3 DEF tu, Regroups

LEMMA OneIsSeq ==
    ASSUME NEW x PROVE IsSeq(<<x>>) /\ Len(<<x>>) = 1 /\ <<x>>[1] = x
<1>1. <<x>> \in Seq({x})
  OBVIOUS
<1> QED
  BY <1>1 DEF IsSeq

LEMMA EmptyJoin ==
    /\ IsSeq(<<>>) /\ Len(<<>>) = 0
    /\ \A s : IsSeq(s) => s \o <<>> = s /\ <<>> \o s = s
<1>1. IsSeq(<<>>) /\ Len(<<>>) = 0
  BY DEF IsSeq
<1>2. ASSUME NEW s, IsSeq(s) PROVE s \o <<>> = s /\ <<>> \o s = s
  <2>1. Len(s) \in Nat
    BY <1>2, SeqFacts
  <2>2. IsSeq(s \o <<>>) /\ Len(s \o <<>>) = Len(s) /\ \A k \in 1..Len(s) : (s \o <<>>)[k] = s[k]
    BY <1>1, <1>2, <2>1, Joined2
  <2>3. IsSeq(<<>> \o s) /\ Len(<<>> \o s) = Len(s) /\ \A k \in 1..Len(s) : (<<>> \o s)[k] = s[k]
    <3>1. \A k \in 1..Len(s) : (<<>> \o s)[0 + k] = s[k]
      BY <1>1, <1>2, Joined2
    <3>2. \A k \in 1..Len(s) : 0 + k = k
      BY <2>1
    <3> QED
      BY <1>1, <1>2, <2>1, <3>1, <3>2, Joined2
  <2> QED
    BY <1>2, <2>2, <2>3, SameSeq
<1> QED
  BY <1>1, <1>2

LEMMA SliceFacts ==
    ASSUME NEW s, IsSeq(s), NEW a \in Nat, NEW b \in Nat, a <= b, b <= Len(s)
    PROVE  /\ IsSeq(Slice(s, a, b)) /\ Len(Slice(s, a, b)) = b - a
           /\ \A k \in 1..(b - a) : Slice(s, a, b)[k] = s[a + k]
<1>1. Slice(s, a, b) = [k \in 1..(b - a) |-> s[a + k]]
  <2>1. PICK S : s \in Seq(S)
    BY DEF IsSeq
  <2>2. SubSeq(s, a + 1, b) = [k \in 1..(b - (a + 1) + 1) |-> s[(a + 1) + k - 1]]
    OBVIOUS
  <2>3. b - (a + 1) + 1 = b - a
    OBVIOUS
  <2>4. \A k \in 1..(b - a) : (a + 1) + k - 1 = a + k
    OBVIOUS
  <2> QED
    BY <2>2, <2>3, <2>4 DEF Slice
<1> DEFINE f == [k \in 1..(b - a) |-> s[a + k]]
<1>2. b - a \in Nat /\ DOMAIN f = 1..(b - a) /\ f = [k \in 1..(b - a) |-> f[k]]
  OBVIOUS
<1>3. IsSeq(f) /\ Len(f) = b - a
  <2> HIDE DEF f
  <2> QED
    BY <1>2, FunSeq
<1> QED
  BY <1>1, <1>3

LEMMA SliceOfSlice ==
    ASSUME NEW s, IsSeq(s), NEW a \in Nat, NEW b \in Nat, a <= b, b <= Len(s),
           NEW x \in Nat, NEW y \in Nat, x <= y, y <= b - a
    PROVE  Slice(Slice(s, a, b), x, y) = Slice(s, a + x, a + y)
<1> DEFINE t == Slice(s, a, b)
           l == Slice(t, x, y)
           r == Slice(s, a + x, a + y)
<1>1. IsSeq(t) /\ Len(t) = b - a /\ \A k \in 1..(b - a) : t[k] = s[a + k]
  BY SliceFacts
<1>2. Len(s) \in Nat
  BY SeqFacts
<1> HIDE DEF t
<1>3. IsSeq(l) /\ Len(l) = y - x /\ \A k \in 1..(y - x) : l[k] = t[x + k]
  <2>1. IsSeq(t) /\ y <= Len(t)
    BY <1>1
  <2> QED
    BY <2>1, SliceFacts, Zenon
<1>4. IsSeq(r) /\ Len(r) = (a + y) - (a + x) /\ \A k \in 1..((a + y) - (a + x)) : r[k] = s[(a + x) + k]
  <2>1. a + x \in Nat /\ a + y \in Nat /\ a + x <= a + y /\ a + y <= Len(s)
    BY <1>2
  <2> QED
    BY <2>1, SliceFacts
<1>5. ASSUME NEW k \in 1..(y - x) PROVE l[k] = r[k]
  <2>1. x + k \in 1..(b - a) /\ a + (x + k) = (a + x) + k /\ k \in 1..((a + y) - (a + x))
    OBVIOUS
  <2> QED
    BY <1>1, <1>3, <1>4, <2>1
<1>6. (a + y) - (a + x) = y - x
  OBVIOUS
<1> HIDE DEF l, r
<1>7. l = r
  BY <1>3, <1>4, <1>5, <1>6, SameSeq
<1> QED
  BY <1>7 DEF l, r, t

LEMMA SliceJoins ==
    ASSUME NEW s, IsSeq(s), NEW a \in Nat, NEW b \in Nat, NEW c \in Nat, a <= b, b <= c, c <= Len(s)
    PROVE  Slice(s, a, b) \o Slice(s, b, c) = Slice(s, a, c)
<1> DEFINE l == Slice(s, a, b)
           r == Slice(s, b, c)
           w == Slice(s, a, c)
<1>1. Len(s) \in Nat /\ b <= Len(s) /\ a <= c
  BY SeqFacts
<1>2. IsSeq(l) /\ Len(l) = b - a /\ \A k \in 1..(b - a) : l[k] = s[a + k]
  BY <1>1, SliceFacts
<1>3. IsSeq(r) /\ Len(r) = c - b /\ \A k \in 1..(c - b) : r[k] = s[b + k]
  BY <1>1, SliceFacts
<1>4. IsSeq(w) /\ Len(w) = c - a /\ \A k \in 1..(c - a) : w[k] = s[a + k]
  BY <1>1, SliceFacts
<1> HIDE DEF l, r, w
<1>5. IsSeq(l \o r) /\ Len(l \o r) = Len(w)
  BY <1>2, <1>3, <1>4, Joined2
<1>6. ASSUME NEW k \in 1..Len(l \o r) PROVE (l \o r)[k] = w[k]
  <2>1. k \in 1..(c - a)
    BY <1>4, <1>5
  <2>2. CASE k <= b - a
    <3>1. k \in 1..Len(l)
      BY <1>2, <2>1, <2>2
    <3> QED
      BY <1>2, <1>3, <1>4, <2>1, <3>1, Joined2
  <2>3. CASE ~(k <= b - a)
    <3> DEFINE j == k - (b - a)
    <3>1. j \in 1..Len(r) /\ k = Len(l) + j /\ b + j = a + k
      BY <1>2, <1>3, <2>1, <2>3
    <3> HIDE DEF j
    <3>2. (l \o r)[k] = r[j]
      BY <1>2, <1>3, <3>1, Joined2
    <3> QED
      BY <1>3, <1>4, <2>1, <3>1, <3>2
  <2> QED
    BY <2>2, <2>3
<1>7. l \o r = w
  BY <1>4, <1>5, <1>6, SameSeq
<1> QED
  BY <1>7 DEF l, r, w

LEMMA SliceWhole ==
    ASSUME NEW s, IsSeq(s)
    PROVE  /\ Slice(s, 0, Len(s)) = s
           /\ \A a \in 0..Len(s) : Slice(s, a, a) = <<>>
<1>1. Len(s) \in Nat
  BY SeqFacts
<1>2. Slice(s, 0, Len(s)) = s
  <2>1. IsSeq(Slice(s, 0, Len(s))) /\ Len(Slice(s, 0, Len(s))) = Len(s) - 0
        /\ \A k \in 1..(Len(s) - 0) : Slice(s, 0, Len(s))[k] = s[0 + k]
    <3>1. 0 \in Nat /\ 0 <= Len(s) /\ Len(s) <= Len(s)
      BY <1>1
    <3> QED
      BY <1>1, <3>1, SliceFacts
  <2>2. \A k \in 1..Len(s) : Slice(s, 0, Len(s))[k] = s[k]
    BY <1>1, <2>1
  <2> QED
    BY <1>1, <2>1, <2>2, SameSeq
<1>3. ASSUME NEW a \in 0..Len(s) PROVE Slice(s, a, a) = <<>>
  <2>0. a \in Nat /\ a <= a /\ a <= Len(s) /\ a - a = 0 /\ 1..0 = {}
    BY <1>1
  <2>1. IsSeq(Slice(s, a, a)) /\ Len(Slice(s, a, a)) = 0
    BY <2>0, SliceFacts
  <2> QED
    BY <2>0, <2>1, EmptyJoin, SameSeq
<1> QED
  BY <1>2, <1>3

(* Min and Max of sets of numbers. *)
LEMMA LeastIs ==
    ASSUME NEW S \in SUBSET Nat, S # {}
    PROVE  Min(S) \in S /\ \A y \in S : Min(S) <= y
BY LeastNat DEF Min

LEMMA MostIs ==
    ASSUME NEW S \in SUBSET Nat, S # {}, NEW n \in Nat, \A y \in S : y <= n
    PROVE  Max(S) \in S /\ \A y \in S : y <= Max(S)
<1> DEFINE R == {n - y : y \in S}
<1>1. R \in SUBSET Nat /\ R # {}
  <2>1. \A y \in S : n - y \in Nat
    OBVIOUS
  <2> QED
    BY <2>1
<1>2. PICK x \in R : \A y \in R : x <= y
  BY <1>1, LeastNat
<1>3. PICK z \in S : x = n - z
  OBVIOUS
<1>4. ASSUME NEW y \in S PROVE z >= y
  <2>1. n - y \in R
    OBVIOUS
  <2> QED
    BY <1>2, <1>3, <2>1
<1>5. Max(S) \in S /\ \A y \in S : Max(S) >= y
  BY <1>4 DEF Max
<1> QED
  BY <1>5
-----------------------------------------------------------------------------
(* A text occurs at an offset. *)
At(s, t, p) == p \in Nat /\ p + Len(t) <= Len(s) /\ Slice(s, p, p + Len(t)) = t

LEMMA HitsAre ==
    ASSUME NEW s, IsSeq(s), NEW t, IsSeq(t), NEW a \in Nat, NEW b \in Nat, b <= Len(s)
    PROVE  \A p : p \in Hits(s, t, a, b) <=> At(s, t, p) /\ a <= p /\ p + Len(t) <= b
<1>1. Len(s) \in Nat /\ Len(t) \in Nat
  BY SeqFacts
<1> QED
  BY <1>1 DEF Hits, At

LEMMA AtBytes ==
    ASSUME NEW s, IsSeq(s), NEW t, IsSeq(t), NEW p, At(s, t, p)
    PROVE  \A k \in 1..Len(t) : s[p + k] = t[k]
<1>1. Len(s) \in Nat /\ Len(t) \in Nat /\ p \in Nat
  BY SeqFacts DEF At
<1>2. p + Len(t) \in Nat /\ p <= p + Len(t) /\ p + Len(t) <= Len(s) /\ (p + Len(t)) - p = Len(t)
  BY <1>1 DEF At
<1>3. \A k \in 1..((p + Len(t)) - p) : Slice(s, p, p + Len(t))[k] = s[p + k]
  BY <1>1, <1>2, SliceFacts
<1> QED
  BY <1>2, <1>3 DEF At

(* An occurrence in a part is one in the whole. *)
LEMMA AtSlice ==
    ASSUME NEW s, IsSeq(s), NEW t, IsSeq(t), NEW a \in Nat, NEW b \in Nat, a <= b, b <= Len(s), NEW p
    PROVE  At(Slice(s, a, b), t, p) <=> p \in Nat /\ At(s, t, a + p) /\ a + p + Len(t) <= b
<1>1. Len(s) \in Nat /\ Len(t) \in Nat /\ Len(Slice(s, a, b)) = b - a
  BY SeqFacts, SliceFacts
<1> SUFFICES ASSUME p \in Nat
    PROVE At(Slice(s, a, b), t, p) <=> At(s, t, a + p) /\ a + p + Len(t) <= b
  BY DEF At
<1> SUFFICES ASSUME a + p + Len(t) <= b PROVE At(Slice(s, a, b), t, p) <=> At(s, t, a + p)
  BY <1>1 DEF At
<1>2. Slice(Slice(s, a, b), p, p + Len(t)) = Slice(s, a + p, a + (p + Len(t)))
  BY <1>1, SliceOfSlice
<1>3. a + (p + Len(t)) = (a + p) + Len(t)
  BY <1>1
<1> QED
  BY <1>1, <1>2, <1>3 DEF At
-----------------------------------------------------------------------------
(* A recursive function that goes on, at each place, at a later one. *)
Chain(w, n, stop, out, onto) ==
    w = [p \in 0..n |-> IF stop[p] THEN out[p] ELSE out[p] \o w[onto[p]]]

LEMMA ChainExists ==
    ASSUME NEW n \in Nat, NEW stop, NEW out, NEW onto,
           \A p \in 0..n : ~stop[p] => onto[p] \in (p + 1)..n
    PROVE  \E w : Chain(w, n, stop, out, onto)
<1> DEFINE Body(f, p) == IF stop[p] THEN out[p] ELSE out[p] \o f[onto[p]]
           From(f, a) == f = [p \in a..n |-> Body(f, p)]
           bad == {a \in 0..n : ~ \E f : From(f, a)}
<1>1. bad = {}
  <2> SUFFICES ASSUME bad # {} PROVE FALSE
    OBVIOUS
  <2> DEFINE a == Max(bad)
  <2>1. a \in bad /\ \A y \in bad : y <= a
    <3> HIDE DEF From
    <3>1. \A y \in bad : y \in 0..n
      OBVIOUS
    <3>2. bad \in SUBSET Nat /\ \A y \in bad : y <= n
      BY <3>1
    <3> HIDE DEF bad
    <3> QED
      BY <3>2, MostIs
  <2>2. a \in 0..n /\ ~ \E f : From(f, a)
    BY <2>1
  <2> HIDE DEF a
  <2>3. PICK h : a < n => From(h, a + 1)
    <3>1. CASE a = n
      <4>1. ~(a < n)
        BY <3>1
      <4> QED
        BY <4>1
    <3>2. CASE a # n
      <4>1. a + 1 \in 0..n /\ a + 1 \notin bad
        <5> HIDE DEF bad
        <5> QED
          BY <2>1, <2>2, <3>2
      <4> QED
        BY <4>1
    <3> QED
      BY <3>1, <3>2
  <2> DEFINE w == [p \in a..n |-> Body(h, p)]
  <2>4. ASSUME NEW p \in a..n PROVE Body(w, p) = Body(h, p)
    <3> SUFFICES ASSUME ~stop[p] PROVE w[onto[p]] = h[onto[p]]
      OBVIOUS
    <3> DEFINE q == onto[p]
    <3>1. q \in (p + 1)..n
      BY <2>2
    <3> HIDE DEF q
    <3>2. q \in (a + 1)..n /\ q \in a..n /\ a < n
      BY <2>2, <3>1
    <3>3. h[q] = Body(h, q)
      BY <2>3, <3>2
    <3>4. w[q] = Body(h, q)
      BY <3>2
    <3> QED
      BY <3>3, <3>4 DEF q
  <2>5. [p \in a..n |-> Body(w, p)] = [p \in a..n |-> Body(h, p)]
    <3> HIDE DEF Body, w
    <3> QED
      BY <2>4
  <2>6. w = [p \in a..n |-> Body(w, p)]
    BY <2>5
  <2>7. From(w, a)
    <3> HIDE DEF w, Body
    <3> QED
      BY <2>6
  <2> HIDE DEF From
  <2> QED
    BY <2>2, <2>7
<1>2. \E f : From(f, 0)
  <2>1. 0 \in 0..n
    OBVIOUS
  <2> QED
    BY <1>1, <2>1
<1> QED
  BY <1>2 DEF Chain

LEMMA ChainIsSeq ==
    ASSUME NEW n \in Nat, NEW stop, NEW out, NEW onto, NEW w, Chain(w, n, stop, out, onto),
           \A p \in 0..n : ~stop[p] => onto[p] \in (p + 1)..n,
           \A p \in 0..n : IsSeq(out[p])
    PROVE  \A p \in 0..n : IsSeq(w[p])
<1> DEFINE bad == {a \in 0..n : ~IsSeq(w[a])}
<1> SUFFICES ASSUME bad # {} PROVE FALSE
  OBVIOUS
<1> DEFINE a == Max(bad)
<1>1. a \in bad /\ \A y \in bad : y <= a
  <2>1. bad \in SUBSET Nat /\ bad # {} /\ \A y \in bad : y <= n
    OBVIOUS
  <2> HIDE DEF bad
  <2> QED
    BY <2>1, MostIs
<1>2. a \in 0..n /\ ~IsSeq(w[a])
  BY <1>1
<1> HIDE DEF a
<1>3. w[a] = IF stop[a] THEN out[a] ELSE out[a] \o w[onto[a]]
  BY <1>2 DEF Chain
<1>4. ~stop[a] /\ onto[a] \in (a + 1)..n
  BY <1>2, <1>3
<1>5. onto[a] \in 0..n /\ onto[a] \notin bad
  <2> HIDE DEF bad
  <2> QED
    BY <1>1, <1>2, <1>4
<1>6. IsSeq(w[onto[a]])
  BY <1>5
<1> QED
  BY <1>2, <1>3, <1>4, <1>6, Joined2
-----------------------------------------------------------------------------
(* Where the finder of safe_split_ranges stops. *)
Taken(f, hits, len, lo, hi) ==
    f = [p \in lo..hi |-> p \in hits /\ \A q \in hits : q < p /\ p < q + len => ~f[q]]

LEMMA TakenExists ==
    ASSUME NEW lo \in Nat, NEW hi \in Nat, lo <= hi, NEW len \in Nat, NEW hits \in SUBSET (lo..hi)
    PROVE  \E f : Taken(f, hits, len, lo, hi)
<1> DEFINE bad == {m \in lo..hi : ~ \E f : Taken(f, hits, len, lo, m)}
<1>1. bad = {}
  <2> SUFFICES ASSUME bad # {} PROVE FALSE
    OBVIOUS
  <2>0. bad \in SUBSET Nat
    OBVIOUS
  <2>1. PICK m \in bad : \A y \in bad : m <= y
    <3> HIDE DEF bad
    <3> QED
      BY <2>0, LeastNat
  <2>2. m \in lo..hi /\ ~ \E f : Taken(f, hits, len, lo, m)
    OBVIOUS
  <2>3. PICK h : lo < m => Taken(h, hits, len, lo, m - 1)
    <3>1. CASE lo = m
      BY <3>1
    <3>2. CASE lo # m
      <4>1. m - 1 \in lo..hi /\ m - 1 \notin bad
        <5> HIDE DEF bad
        <5> QED
          BY <2>1, <2>2, <3>2
      <4> QED
        BY <4>1
    <3> QED
      BY <3>1, <3>2
  <2> HIDE DEF bad
  <2> DEFINE Body(f, p) == p \in hits /\ \A q \in hits : q < p /\ p < q + len => ~f[q]
             w == [p \in lo..m |-> Body(h, p)]
  <2>4. ASSUME NEW p \in lo..m PROVE Body(w, p) = Body(h, p)
    <3>1. ASSUME NEW q \in hits, q < p PROVE w[q] = h[q]
      <4>1. q \in lo..(m - 1) /\ q \in lo..m /\ lo < m
        BY <2>2, <3>1
      <4>2. h = [x \in lo..(m - 1) |-> Body(h, x)]
        BY <2>3, <4>1 DEF Taken
      <4>3. h[q] = Body(h, q)
        <5> HIDE DEF Body
        <5> QED
          BY <4>1, <4>2
      <4>4. w[q] = Body(h, q)
        <5> HIDE DEF Body
        <5> QED
          BY <4>1
      <4> QED
        BY <4>3, <4>4
    <3> HIDE DEF w
    <3> QED
      BY <3>1
  <2>5. [p \in lo..m |-> Body(w, p)] = [p \in lo..m |-> Body(h, p)]
    <3> HIDE DEF Body, w
    <3> QED
      BY <2>4
  <2>6. w = [p \in lo..m |-> Body(w, p)]
    BY <2>5
  <2>7. Taken(w, hits, len, lo, m)
    <3> HIDE DEF w
    <3> QED
      BY <2>6 DEF Taken
  <2> QED
    BY <2>2, <2>7
<1>2. hi \in lo..hi
  OBVIOUS
<1> QED
  BY <1>1, <1>2

(* The finder stops at every occurrence that overlaps no earlier one. *)
LEMMA FinderStops ==
    ASSUME NEW s, IsSeq(s), NEW t, IsSeq(t), NEW lo \in Nat, NEW hi \in Nat, lo <= hi, hi <= Len(s),
           NEW p \in Hits(s, t, lo, hi), \A q \in Hits(s, t, lo, hi) : q < p => q + Len(t) <= p
    PROVE  p \in FindIter(s, t, lo, hi)
<1> DEFINE hits == Hits(s, t, lo, hi)
           f == CHOOSE f : Taken(f, hits, Len(t), lo, hi)
<1>1. Len(s) \in Nat /\ Len(t) \in Nat
  BY SeqFacts
<1>2. hits \in SUBSET (lo..hi)
  <2>1. \A h \in hits : h \in lo..(hi - Len(t))
    BY DEF Hits
  <2> QED
    BY <1>1, <2>1
<1>3. Taken(f, hits, Len(t), lo, hi)
  BY <1>1, <1>2, TakenExists
<1>4. FindIter(s, t, lo, hi) = {x \in hits : f[x]}
  BY DEF FindIter, Taken
<1> HIDE DEF f, hits
<1>5. p \in hits
  BY DEF hits
<1>6. f[p] = (p \in hits /\ \A q \in hits : q < p /\ p < q + Len(t) => ~f[q])
  BY <1>2, <1>3, <1>5 DEF Taken
<1>7. \A q \in hits : ~(q < p /\ p < q + Len(t))
  BY <1>1, <1>2, <1>5 DEF hits
<1>8. f[p]
  BY <1>5, <1>6, <1>7
<1> QED
  BY <1>4, <1>5, <1>8

LEMMA FiniteBounded ==
    ASSUME NEW T, IsFiniteSet(T), NEW f, \A t \in T : f[t] \in Nat
    PROVE  \E n \in Nat : \A t \in T : f[t] <= n
<1> DEFINE Bounded(U) == \E n \in Nat : \A t \in U : f[t] <= n
           bad == {k \in Nat : \E U \in SUBSET T : Cardinality(U) = k /\ ~Bounded(U)}
<1>1. bad = {}
  <2> SUFFICES ASSUME bad # {} PROVE FALSE
    OBVIOUS
  <2>1. PICK k \in bad : \A y \in bad : k <= y
    <3>1. bad \in SUBSET Nat
      OBVIOUS
    <3> HIDE DEF bad
    <3> QED
      BY <3>1, LeastNat
  <2>2. k \in Nat
    OBVIOUS
  <2>3. PICK U \in SUBSET T : Cardinality(U) = k /\ ~Bounded(U)
    OBVIOUS
  <2>4. U # {}
    <3>1. ASSUME U = {} PROVE Bounded(U)
      <4>1. 0 \in Nat /\ \A t \in U : f[t] <= 0
        BY <3>1
      <4> QED
        BY <4>1
    <3> QED
      BY <2>3, <3>1
  <2>5. PICK x \in U : TRUE
    BY <2>4
  <2> DEFINE V == U \ {x}
  <2>6. IsFiniteSet(U) /\ Cardinality(V) = k - 1 /\ Cardinality(V) \in Nat
    <3>1. IsFiniteSet(U)
      BY FS_Subset
    <3>2. Cardinality(V) = Cardinality(U) - 1 /\ IsFiniteSet(V)
      BY <2>5, <3>1, FS_RemoveElement
    <3> QED
      BY <2>3, <3>1, <3>2, FS_CardinalityType
  <2>7. Bounded(V)
    <3>1. k - 1 \notin bad
      <4> HIDE DEF bad, V
      <4> QED
        BY <2>1, <2>2
    <3>2. V \in SUBSET T
      OBVIOUS
    <3> HIDE DEF V, Bounded
    <3> QED
      BY <2>2, <2>6, <3>1, <3>2
  <2>8. PICK n \in Nat : \A t \in V : f[t] <= n
    BY <2>7
  <2>9. \E m \in Nat : n <= m /\ f[x] <= m
    <3> DEFINE m == IF n <= f[x] THEN f[x] ELSE n
    <3>1. f[x] \in Nat
      BY <2>5
    <3>2. m \in Nat /\ n <= m /\ f[x] <= m
      BY <3>1
    <3> QED
      BY <3>2
  <2>10. PICK m \in Nat : n <= m /\ f[x] <= m
    BY <2>9
  <2>11. \A t \in U : f[t] <= m
    <3>1. ASSUME NEW t \in U, t # x PROVE f[t] <= m
      <4>1. t \in V /\ f[t] \in Nat
        BY <3>1
      <4> HIDE DEF V
      <4> QED
        BY <2>8, <2>10, <4>1
    <3> QED
      BY <2>10, <3>1
  <2> QED
    BY <2>3, <2>11
<1>2. IsFiniteSet(T) /\ Cardinality(T) \in Nat
  BY FS_CardinalityType
<1>3. T \in SUBSET T
  OBVIOUS
<1>4. Bounded(T)
  <2> HIDE DEF Bounded
  <2> QED
    BY <1>1, <1>2, <1>3
<1> QED
  BY <1>4
-----------------------------------------------------------------------------
(* Added tokens: of distinct texts, none of them empty. *)
TokensOK(tokens) ==
    /\ IsFiniteSet(tokens)
    /\ \A t \in tokens : IsSeq(t.text) /\ Len(t.text) > 0
    /\ \A t, u \in tokens : t.text = u.text => t = u

(* A cut that no added token of the text minds: none is on both sides, and the space
   behind it is taken by none. *)
Clean(s, tokens, c) ==
    /\ c \in 1..(Len(s) - 1) /\ s[c + 1] = Space /\ s[c] # Space
    /\ \A t \in tokens : \A p : At(s, t.text, p) =>
          ~(p < c /\ c < p + Len(t.text)) /\ (t.rstrip => p + Len(t.text) # c)

LEMMA LongestIs ==
    ASSUME NEW tokens, TokensOK(tokens), NEW b \in Blockers(tokens)
    PROVE  IsSeq(b) /\ Len(b) \in Nat /\ Longest(Blockers(tokens)) \in Nat /\ Len(b) <= Longest(Blockers(tokens))
<1> DEFINE f == [t \in tokens |-> Len(t.text)]
           lens == {0} \cup {Len(x) : x \in Blockers(tokens)}
<1>1. \A x \in Blockers(tokens) : \E t \in tokens : x = t.text
  BY DEF Blockers
<1>2. \A x \in Blockers(tokens) : IsSeq(x) /\ Len(x) \in Nat
  BY <1>1, SeqFacts DEF TokensOK
<1>3. \A t \in tokens : f[t] \in Nat
  BY SeqFacts DEF TokensOK
<1>4. PICK n \in Nat : \A t \in tokens : f[t] <= n
  <2> HIDE DEF f
  <2> QED
    BY <1>3, FiniteBounded DEF TokensOK
<1>5. \A x \in Blockers(tokens) : Len(x) <= n
  <2>1. ASSUME NEW x \in Blockers(tokens) PROVE Len(x) <= n
    <3>1. PICK t \in tokens : x = t.text
      BY <1>1
    <3>2. f[t] <= n /\ f[t] = Len(t.text)
      BY <1>4
    <3> QED
      BY <3>1, <3>2
  <2> QED
    BY <2>1
<1>6. lens \in SUBSET Nat /\ lens # {} /\ \A y \in lens : y <= n
  BY <1>2, <1>5
<1>7. Len(b) \in lens
  OBVIOUS
<1>8. Max(lens) \in lens /\ \A y \in lens : y <= Max(lens)
  <2> HIDE DEF lens
  <2> QED
    BY <1>6, MostIs
<1>9. Longest(Blockers(tokens)) = Max(lens)
  BY DEF Longest
<1> HIDE DEF lens
<1> QED
  BY <1>2, <1>6, <1>7, <1>8, <1>9

LEMMA MaxTwo ==
    ASSUME NEW a \in Int, NEW b \in Int
    PROVE  Max({a, b}) = (IF a >= b THEN a ELSE b)
<1>1. \A x \in {a, b} : (\A y \in {a, b} : x >= y) => x = (IF a >= b THEN a ELSE b)
  OBVIOUS
<1>2. \E x \in {a, b} : \A y \in {a, b} : x >= y
  OBVIOUS
<1> QED
  BY <1>1, <1>2 DEF Max

LEMMA MinTwo ==
    ASSUME NEW a \in Int, NEW b \in Int
    PROVE  Min({a, b}) = (IF a <= b THEN a ELSE b)
<1>1. \A x \in {a, b} : (\A y \in {a, b} : x <= y) => x = (IF a <= b THEN a ELSE b)
  OBVIOUS
<1>2. \E x \in {a, b} : \A y \in {a, b} : x <= y
  OBVIOUS
<1> QED
  BY <1>1, <1>2 DEF Min

(* A token with a space on both sides of a place is found there. *)
LEMMA StraddleFound ==
    ASSUME NEW s, IsSeq(s), NEW tokens, TokensOK(tokens), Findable(tokens), NEW b \in Blockers(tokens),
           NEW p \in Nat, NEW x, At(s, b, x), x < p, p < x + Len(b)
    PROVE  CutsAddedToken(s, tokens, p)
<1> DEFINE long == Longest(Blockers(tokens))
           reach == Max({0, long - 1})
           lo == Max({0, p - reach})
           hi == Min({Len(s), p + reach})
           hits == Hits(s, b, lo, hi)
           L == Len(b)
<1>1. IsSeq(b) /\ L \in Nat /\ long \in Nat /\ L <= long /\ Len(s) \in Nat
      /\ x \in Nat /\ x + L <= Len(s)
  BY LongestIs, SeqFacts DEF At
<1> HIDE DEF long, L
<1>2. reach = long - 1 /\ reach \in Nat
  <2>1. long - 1 >= 0
    BY <1>1 DEF L
  <2>2. Max({0, long - 1}) = IF 0 >= long - 1 THEN 0 ELSE long - 1
    BY <1>1, MaxTwo
  <2> QED
    BY <1>1, <2>1, <2>2
<1> HIDE DEF reach
<1>3. lo = (IF 0 >= p - reach THEN 0 ELSE p - reach) /\ hi = (IF Len(s) <= p + reach THEN Len(s) ELSE p + reach)
  BY <1>1, <1>2, MaxTwo, MinTwo
<1> HIDE DEF lo, hi
<1>4. lo \in Nat /\ hi \in Nat /\ lo <= hi /\ hi <= Len(s) /\ lo <= x /\ x + L <= hi
  BY <1>1, <1>2, <1>3 DEF L
<1>5. \A q : q \in hits <=> At(s, b, q) /\ lo <= q /\ q + L <= hi
  BY <1>1, <1>4, HitsAre DEF L
<1>6. x \in hits
  BY <1>4, <1>5
<1> HIDE DEF hits
<1>7. \E h \in hits : h < p /\ h + L > p /\ \A q \in hits : q < h => q + L <= h
  <2>1. CASE L = long
    <3>1. hits \in SUBSET Nat /\ hits # {}
      BY <1>5, <1>6 DEF At
    <3>2. PICK h \in hits : \A y \in hits : h <= y
      BY <3>1, LeastNat
    <3>3. h \in Nat /\ lo <= h /\ h <= x
      BY <1>5, <1>6, <3>1, <3>2
    <3>4. h < p /\ h + L > p
      BY <1>1, <1>2, <1>3, <2>1, <3>3 DEF L
    <3>5. \A q \in hits : ~(q < h)
      BY <3>1, <3>2
    <3> QED
      BY <3>4, <3>5
  <2>2. CASE TextAlone(b)
    <3>1. ASSUME NEW q \in hits, q < x, ~(q + L <= x) PROVE FALSE
      <4> DEFINE d == x - q
      <4>1. At(s, b, q) /\ q \in Nat
        BY <1>5, <3>1 DEF At
      <4>2. d \in 1..(L - 1)
        BY <1>1, <3>1, <4>1
      <4> HIDE DEF d
      <4>3. PICK j \in 1..(L - d) : b[d + j] # b[j]
        BY <2>2, <4>2 DEF TextAlone, L
      <4>4. d + j \in 1..L /\ j \in 1..L
        BY <1>1, <4>2
      <4>5. s[q + (d + j)] = b[d + j] /\ s[x + j] = b[j]
        BY <1>1, <4>1, <4>4, AtBytes DEF L
      <4>6. q + (d + j) = x + j
        BY <1>1, <4>1, <4>2 DEF d
      <4> QED
        BY <4>3, <4>5, <4>6
    <3> QED
      BY <1>6, <3>1 DEF L
  <2> QED
    BY <2>1, <2>2 DEF Findable, L, long
<1>8. PICK h \in hits : h < p /\ h + L > p /\ \A q \in hits : q < h => q + L <= h
  BY <1>7
<1>9. h \in FindIter(s, b, lo, hi)
  BY <1>1, <1>4, <1>8, FinderStops DEF hits, L
<1> QED
  BY <1>8, <1>9 DEF CutsAddedToken, lo, hi, reach, long, L

LEMMA SafeIsClean ==
    ASSUME NEW s, IsSeq(s), NEW tokens, TokensOK(tokens), Findable(tokens),
           NEW c \in 1..(Len(s) - 2), SafeAt(s, tokens, c)
    PROVE  Clean(s, tokens, c)
<1>1. Len(s) \in Nat /\ c \in 1..(Len(s) - 1) /\ c \in Nat
  BY SeqFacts
<1>2. s[c + 1] = Space /\ s[c] \in Letters \cup Digits /\ s[c] # Space
  BY BytesAssumption DEF SafeAt
<1>3. ASSUME NEW t \in tokens, NEW p, At(s, t.text, p), p < c, c < p + Len(t.text) PROVE FALSE
  <2>1. IsSeq(t.text) /\ Len(t.text) \in Nat /\ p \in Nat /\ DOMAIN t.text = 1..Len(t.text)
    BY <1>3, SeqFacts DEF TokensOK, At
  <2>2. (c + 1) - p \in 1..Len(t.text) /\ p + ((c + 1) - p) = c + 1
    BY <1>1, <1>3, <2>1
  <2>3. t.text[(c + 1) - p] = Space
    <3>1. \A k \in 1..Len(t.text) : s[p + k] = t.text[k]
      BY <1>3, <2>1, AtBytes
    <3> QED
      BY <1>2, <2>2, <3>1
  <2>4. t.text \in Blockers(tokens)
    BY <2>1, <2>2, <2>3 DEF Blockers
  <2>5. CutsAddedToken(s, tokens, c)
    BY <1>1, <1>3, <2>4, StraddleFound
  <2> QED
    BY <2>5 DEF SafeAt
<1>4. ASSUME NEW t \in tokens, NEW p, At(s, t.text, p), t.rstrip, p + Len(t.text) = c PROVE FALSE
  <2>1. IsSeq(t.text) /\ Len(t.text) \in Nat /\ Len(t.text) > 0 /\ p \in Nat
    BY <1>4, SeqFacts DEF TokensOK, At
  <2>2. t.text[Len(t.text)] = s[c]
    <3>1. Len(t.text) \in 1..Len(t.text)
      BY <2>1
    <3> QED
      BY <1>4, <2>1, <3>1, AtBytes
  <2>3. t \in EndBlockers(tokens)
    BY <1>2, <1>4, <2>2 DEF EndBlockers
  <2>4. Len(t.text) <= c /\ c - Len(t.text) = p
    BY <1>1, <1>4, <2>1
  <2>5. Slice(s, c - Len(t.text), c) = t.text
    BY <1>4, <2>4 DEF At
  <2> QED
    BY <2>3, <2>4, <2>5 DEF SafeAt, EndsRstripToken
<1> QED
  BY <1>1, <1>2, <1>3, <1>4 DEF Clean
-----------------------------------------------------------------------------
(* What trimming finds. *)
EndAt(s, p, x, e) == e \in p..x /\ (e = p \/ s[e] # Space) /\ \A j \in (e + 1)..x : s[j] = Space
StartAt(s, e, n, v) == v \in e..n /\ (v = n \/ s[v + 1] # Space) /\ \A j \in e..(v - 1) : s[j + 1] = Space

LEMMA TrimEndIs ==
    ASSUME NEW s, NEW p \in Nat, NEW x \in Nat, p <= x
    PROVE  EndAt(s, p, x, TrimEnd(s, p, x)) /\ \A e : EndAt(s, p, x, e) => e = TrimEnd(s, p, x)
<1> DEFINE ends == {p} \cup {e \in (p + 1)..x : s[e] # Space}
           m == Max(ends)
<1>1. ends \in SUBSET Nat /\ ends # {} /\ \A y \in ends : y <= x
  OBVIOUS
<1>2. m \in ends /\ \A y \in ends : y <= m
  <2> HIDE DEF ends
  <2> QED
    BY <1>1, MostIs
<1>3. TrimEnd(s, p, x) = m
  BY DEF TrimEnd
<1> HIDE DEF m
<1>4. EndAt(s, p, x, m)
  <2>1. m \in p..x /\ (m = p \/ s[m] # Space)
    BY <1>2
  <2>2. ASSUME NEW j \in (m + 1)..x, s[j] # Space PROVE FALSE
    <3>1. j \in ends /\ ~(j <= m)
      BY <2>1, <2>2
    <3> QED
      BY <1>2, <3>1
  <2> QED
    BY <2>1, <2>2 DEF EndAt
<1>5. ASSUME NEW e, EndAt(s, p, x, e) PROVE e = m
  <2>1. e \in p..x /\ m \in p..x
    BY <1>4, <1>5 DEF EndAt
  <2>2. ~(e < m)
    <3>1. ASSUME e < m PROVE FALSE
      <4>1. m \in (e + 1)..x /\ m # p
        BY <2>1, <3>1
      <4> QED
        BY <1>4, <1>5, <4>1 DEF EndAt
    <3> QED
      BY <3>1
  <2>3. ~(m < e)
    <3>1. ASSUME m < e PROVE FALSE
      <4>1. e \in (m + 1)..x /\ e # p
        BY <2>1, <3>1
      <4> QED
        BY <1>4, <1>5, <4>1 DEF EndAt
    <3> QED
      BY <3>1
  <2> QED
    BY <2>1, <2>2, <2>3
<1> QED
  BY <1>3, <1>4, <1>5

LEMMA TrimStartIs ==
    ASSUME NEW s, IsSeq(s), NEW e \in 0..Len(s)
    PROVE  /\ StartAt(s, e, Len(s), TrimStart(s, e))
           /\ \A v : StartAt(s, e, Len(s), v) => v = TrimStart(s, e)
<1> DEFINE n == Len(s)
           starts == {n} \cup {x \in e..(n - 1) : s[x + 1] # Space}
           m == Min(starts)
<1>0. n \in Nat /\ e \in 0..n
  BY SeqFacts
<1>1. TrimStart(s, e) = m
  BY DEF TrimStart
<1> HIDE DEF n
<1>2. starts \in SUBSET Nat /\ starts # {} /\ \A y \in starts : y \in e..n
  BY <1>0
<1>3. m \in starts /\ \A y \in starts : m <= y
  <2> HIDE DEF starts
  <2> QED
    BY <1>2, LeastIs
<1> HIDE DEF m
<1>4. StartAt(s, e, n, m)
  <2>1. m \in e..n /\ (m = n \/ s[m + 1] # Space)
    BY <1>2, <1>3
  <2>2. ASSUME NEW j \in e..(m - 1), s[j + 1] # Space PROVE FALSE
    <3>1. j \in starts /\ ~(m <= j)
      BY <1>0, <2>1, <2>2
    <3> QED
      BY <1>3, <3>1
  <2> QED
    BY <2>1, <2>2 DEF StartAt
<1>5. ASSUME NEW v, StartAt(s, e, n, v) PROVE v = m
  <2>1. v \in e..n /\ m \in e..n
    BY <1>4, <1>5 DEF StartAt
  <2>2. ~(v < m)
    <3>1. ASSUME v < m PROVE FALSE
      <4>1. v \in e..(m - 1) /\ v # n
        BY <1>0, <2>1, <3>1
      <4> QED
        BY <1>4, <1>5, <4>1 DEF StartAt
    <3> QED
      BY <3>1
  <2>3. ~(m < v)
    <3>1. ASSUME m < v PROVE FALSE
      <4>1. m \in e..(v - 1) /\ m # n
        BY <1>0, <2>1, <3>1
      <4> QED
        BY <1>4, <1>5, <4>1 DEF StartAt
    <3> QED
      BY <3>1
  <2> QED
    BY <1>0, <2>1, <2>2, <2>3
<1> QED
  BY <1>1, <1>4, <1>5 DEF n
-----------------------------------------------------------------------------
(* The match from an offset on. *)
Best(m, all) ==
    m \in all /\ \A n \in all : m.at < n.at \/ (m.at = n.at /\ Len(m.token.text) >= Len(n.token.text))

LEMMA OccurrenceIs ==
    ASSUME NEW s, IsSeq(s), NEW tokens, TokensOK(tokens), NEW p \in 0..Len(s)
    PROVE  \A m : m \in Occurrences(s, tokens, p) <=>
               m \in [at: p..Len(s), token: tokens] /\ At(s, m.token.text, m.at)
<1>1. Len(s) \in Nat /\ p \in Nat
  BY SeqFacts
<1>2. ASSUME NEW m \in [at: p..Len(s), token: tokens]
      PROVE  m.at \in Hits(s, m.token.text, p, Len(s)) <=> At(s, m.token.text, m.at)
  <2>1. IsSeq(m.token.text) /\ m.at \in p..Len(s)
    BY DEF TokensOK
  <2>2. m.at \in Hits(s, m.token.text, p, Len(s))
        <=> At(s, m.token.text, m.at) /\ p <= m.at /\ m.at + Len(m.token.text) <= Len(s)
    BY <1>1, <2>1, HitsAre
  <2> QED
    BY <1>1, <2>1, <2>2 DEF At
<1> QED
  BY <1>2 DEF Occurrences

LEMMA BestIsOne ==
    ASSUME NEW s, IsSeq(s), NEW tokens, TokensOK(tokens), NEW p \in 0..Len(s),
           NEW m, Best(m, Occurrences(s, tokens, p))
    PROVE  Found(s, tokens, p) = m
<1> DEFINE all == Occurrences(s, tokens, p)
           f == Found(s, tokens, p)
<1>1. f = CHOOSE x \in all : \A n \in all : x.at < n.at \/ (x.at = n.at /\ Len(x.token.text) >= Len(n.token.text))
  BY DEF Found
<1> HIDE DEF f
<1>2. Best(f, all)
  <2> HIDE DEF all
  <2> QED
    BY <1>1 DEF Best, all
<1>3. /\ m \in [at: p..Len(s), token: tokens] /\ At(s, m.token.text, m.at)
      /\ f \in [at: p..Len(s), token: tokens] /\ At(s, f.token.text, f.at)
  BY <1>2, OccurrenceIs DEF Best
<1>4. /\ m.token \in tokens /\ f.token \in tokens /\ m.at \in p..Len(s) /\ f.at \in p..Len(s)
      /\ Len(s) \in Nat /\ Len(m.token.text) \in Nat /\ Len(f.token.text) \in Nat
  BY <1>3, SeqFacts DEF TokensOK
<1>5. m.at = f.at /\ Len(m.token.text) = Len(f.token.text)
  BY <1>2, <1>4 DEF Best
<1>6. m.token = f.token
  BY <1>3, <1>4, <1>5 DEF At, TokensOK
<1> QED
  BY <1>3, <1>5, <1>6 DEF f

LEMMA FoundIsBest ==
    ASSUME NEW s, IsSeq(s), NEW tokens, TokensOK(tokens), NEW p \in 0..Len(s),
           Occurrences(s, tokens, p) # {}
    PROVE  Best(Found(s, tokens, p), Occurrences(s, tokens, p))
<1> DEFINE all == Occurrences(s, tokens, p)
           n == Len(s)
<1>1. n \in Nat
  BY SeqFacts
<1>2. ASSUME NEW m \in all
      PROVE  m.at \in Nat /\ Len(m.token.text) \in Nat /\ Len(m.token.text) <= n /\ m.at <= n
  <2>1. m \in [at: p..Len(s), token: tokens] /\ At(s, m.token.text, m.at)
    BY OccurrenceIs
  <2>2. m.at \in p..Len(s) /\ m.token \in tokens /\ Len(m.token.text) \in Nat
    BY <2>1, SeqFacts DEF TokensOK
  <2> QED
    BY <1>1, <2>1, <2>2 DEF At
<1> HIDE DEF all, n
<1>3. PICK a \in {m.at : m \in all} : \A y \in {m.at : m \in all} : a <= y
  <2>1. {m.at : m \in all} \in SUBSET Nat /\ {m.at : m \in all} # {}
    BY <1>2 DEF all
  <2> QED
    BY <2>1, LeastNat
<1> DEFINE first == {m \in all : m.at = a}
           lens == {n - Len(m.token.text) : m \in first}
<1>4. first # {}
  OBVIOUS
<1>5. PICK k \in lens : \A y \in lens : k <= y
  <2>1. \A m \in first : n - Len(m.token.text) \in Nat
    BY <1>1, <1>2
  <2>2. lens \in SUBSET Nat /\ lens # {}
    <3> HIDE DEF first
    <3> QED
      BY <1>4, <2>1
  <2> HIDE DEF lens
  <2> QED
    BY <2>2, LeastNat
<1>6. PICK m \in first : k = n - Len(m.token.text)
  OBVIOUS
<1>7. Best(m, all)
  <2>1. ASSUME NEW x \in all, ~(m.at < x.at)
        PROVE  m.at = x.at /\ Len(m.token.text) >= Len(x.token.text)
    <3>1. a <= x.at /\ m.at = a /\ x.at \in Nat /\ a \in Nat
      BY <1>2, <1>3, <1>6
    <3>2. x \in first
      BY <2>1, <3>1
    <3>3. k <= n - Len(x.token.text)
      BY <1>5, <3>2
    <3>4. Len(m.token.text) \in Nat /\ Len(x.token.text) \in Nat
      BY <1>2
    <3> QED
      BY <1>1, <1>6, <2>1, <3>1, <3>2, <3>3, <3>4
  <2> QED
    BY <2>1 DEF Best
<1> QED
  BY <1>7, BestIsOne DEF all
-----------------------------------------------------------------------------
(* The walk of for_each_piece, as a function. *)
StopsAt(s, tokens, p) == Occurrences(s, tokens, p) = {}
MatchFrom(s, tokens, p) == Found(s, tokens, p)
MatchEnd(m) == m.at + Len(m.token.text)
TextEnd(s, m, p) == IF m.token.lstrip THEN TrimEnd(s, p, m.at) ELSE m.at
GoesOn(s, m) == IF m.token.rstrip THEN TrimStart(s, MatchEnd(m)) ELSE MatchEnd(m)
OutAt(s, tokens, prefix, p) ==
    IF StopsAt(s, tokens, p) THEN Segment(s, prefix, p, Len(s))
    ELSE Segment(s, prefix, p, TextEnd(s, Found(s, tokens, p), p)) \o <<Found(s, tokens, p).token>>
IsPieces(w, s, tokens, prefix) ==
    w = [p \in 0..Len(s) |->
            IF Occurrences(s, tokens, p) = {} THEN Segment(s, prefix, p, Len(s))
            ELSE LET m == Found(s, tokens, p)
                     end == m.at + Len(m.token.text)
                 IN  Segment(s, prefix, p, IF m.token.lstrip THEN TrimEnd(s, p, m.at) ELSE m.at)
                        \o <<m.token>> \o w[IF m.token.rstrip THEN TrimStart(s, end) ELSE end]]
PiecesFrom(s, tokens, prefix) == CHOOSE w : IsPieces(w, s, tokens, prefix)

LEMMA FoundFacts ==
    ASSUME NEW s, IsSeq(s), NEW tokens, TokensOK(tokens), NEW p \in 0..Len(s), ~StopsAt(s, tokens, p),
           NEW m, m = Found(s, tokens, p)
    PROVE  /\ Best(m, Occurrences(s, tokens, p)) /\ m \in [at: p..Len(s), token: tokens]
           /\ At(s, m.token.text, m.at) /\ m.token \in tokens
           /\ m.at \in p..Len(s) /\ m.at \in Nat /\ Len(m.token.text) \in Nat /\ Len(m.token.text) > 0
           /\ MatchEnd(m) \in (m.at + 1)..Len(s) /\ MatchEnd(m) \in (p + 1)..Len(s)
           /\ TextEnd(s, m, p) \in p..m.at /\ GoesOn(s, m) \in MatchEnd(m)..Len(s)
           /\ GoesOn(s, m) \in (p + 1)..Len(s)
<1>1. Best(m, Occurrences(s, tokens, p))
  BY FoundIsBest DEF StopsAt
<1>2. m \in [at: p..Len(s), token: tokens] /\ At(s, m.token.text, m.at)
  BY <1>1, OccurrenceIs DEF Best
<1>3. /\ m.token \in tokens /\ m.at \in p..Len(s) /\ m.at \in Nat /\ Len(m.token.text) \in Nat
      /\ Len(m.token.text) > 0 /\ Len(s) \in Nat /\ m.at + Len(m.token.text) <= Len(s)
  BY <1>2, SeqFacts DEF TokensOK, At
<1>4. MatchEnd(m) \in (m.at + 1)..Len(s) /\ MatchEnd(m) \in (p + 1)..Len(s)
  BY <1>3 DEF MatchEnd
<1>5. TextEnd(s, m, p) \in p..m.at
  <2>1. p \in Nat /\ p <= m.at
    BY <1>3
  <2>2. TrimEnd(s, p, m.at) \in p..m.at
    BY <1>3, <2>1, TrimEndIs DEF EndAt
  <2> QED
    BY <1>3, <2>1, <2>2 DEF TextEnd
<1>6. GoesOn(s, m) \in MatchEnd(m)..Len(s)
  <2>1. MatchEnd(m) \in 0..Len(s)
    BY <1>3, <1>4
  <2>2. TrimStart(s, MatchEnd(m)) \in MatchEnd(m)..Len(s)
    BY <2>1, TrimStartIs DEF StartAt
  <2> QED
    BY <1>3, <2>1, <2>2 DEF GoesOn
<1>7. GoesOn(s, m) \in (p + 1)..Len(s)
  BY <1>3, <1>4, <1>6
<1> QED
  BY <1>1, <1>2, <1>3, <1>4, <1>5, <1>6, <1>7

LEMMA SegmentIsSeq ==
    ASSUME NEW s, IsSeq(s), NEW prefix, NEW p \in Nat, NEW x \in Nat, p <= x, x <= Len(s)
    PROVE  IsSeq(Segment(s, prefix, p, x))
<1>1. IsSeq(Slice(s, p, x))
  BY SliceFacts
<1>2. IsSeq(<<Space>>)
  BY OneIsSeq
<1> QED
  BY <1>1, <1>2, Joined2 DEF Segment

LEMMA OutIsSeq ==
    ASSUME NEW s, IsSeq(s), NEW tokens, TokensOK(tokens), NEW prefix, NEW p \in 0..Len(s)
    PROVE  IsSeq(OutAt(s, tokens, prefix, p))
<1>1. Len(s) \in Nat /\ p \in Nat
  BY SeqFacts
<1>2. CASE StopsAt(s, tokens, p)
  BY <1>1, <1>2, SegmentIsSeq DEF OutAt
<1>3. CASE ~StopsAt(s, tokens, p)
  <2> DEFINE m == Found(s, tokens, p)
  <2>1. TextEnd(s, m, p) \in p..m.at /\ m.at \in p..Len(s)
    BY <1>3, FoundFacts
  <2>2. IsSeq(Segment(s, prefix, p, TextEnd(s, m, p)))
    BY <1>1, <2>1, SegmentIsSeq
  <2>3. IsSeq(<<m.token>>)
    BY OneIsSeq
  <2> QED
    BY <1>3, <2>2, <2>3, Joined2 DEF OutAt
<1> QED
  BY <1>2, <1>3

LEMMA PiecesStep ==
    ASSUME NEW s, IsSeq(s), NEW tokens, TokensOK(tokens), NEW prefix
    PROVE  /\ Pieces(s, tokens, prefix) = PiecesFrom(s, tokens, prefix)[0]
           /\ \A p \in 0..Len(s) :
                /\ IsSeq(PiecesFrom(s, tokens, prefix)[p])
                /\ PiecesFrom(s, tokens, prefix)[p] =
                      IF StopsAt(s, tokens, p) THEN OutAt(s, tokens, prefix, p)
                      ELSE OutAt(s, tokens, prefix, p)
                           \o PiecesFrom(s, tokens, prefix)[GoesOn(s, Found(s, tokens, p))]
<1> DEFINE n == Len(s)
           stop == [p \in 0..n |-> StopsAt(s, tokens, p)]
           out == [p \in 0..n |-> OutAt(s, tokens, prefix, p)]
           onto == [p \in 0..n |-> GoesOn(s, Found(s, tokens, p))]
           w == PiecesFrom(s, tokens, prefix)
<1>1. n \in Nat /\ \A p \in 0..n : ~stop[p] => onto[p] \in (p + 1)..n
  BY SeqFacts, FoundFacts
<1>2. \A p \in 0..n : IsSeq(out[p])
  BY OutIsSeq
<1>3. \E f : Chain(f, n, stop, out, onto)
  <2> HIDE DEF n, stop, out, onto
  <2> QED
    BY <1>1, ChainExists
<1>4. ASSUME NEW f PROVE IsPieces(f, s, tokens, prefix) <=> Chain(f, n, stop, out, onto)
  <2>1. \A p \in 0..n :
          (IF Occurrences(s, tokens, p) = {} THEN Segment(s, prefix, p, Len(s))
           ELSE LET m == Found(s, tokens, p)
                    end == m.at + Len(m.token.text)
                IN  Segment(s, prefix, p, IF m.token.lstrip THEN TrimEnd(s, p, m.at) ELSE m.at)
                       \o <<m.token>> \o f[IF m.token.rstrip THEN TrimStart(s, end) ELSE end])
          = (IF stop[p] THEN out[p] ELSE out[p] \o f[onto[p]])
    BY DEF StopsAt, OutAt, GoesOn, TextEnd, MatchEnd
  <2>2. [p \in 0..n |->
          (IF Occurrences(s, tokens, p) = {} THEN Segment(s, prefix, p, Len(s))
           ELSE LET m == Found(s, tokens, p)
                    end == m.at + Len(m.token.text)
                IN  Segment(s, prefix, p, IF m.token.lstrip THEN TrimEnd(s, p, m.at) ELSE m.at)
                       \o <<m.token>> \o f[IF m.token.rstrip THEN TrimStart(s, end) ELSE end])]
        = [p \in 0..n |-> IF stop[p] THEN out[p] ELSE out[p] \o f[onto[p]]]
    <3> HIDE DEF stop, out, onto
    <3> QED
      BY <2>1
  <2> QED
    BY <2>2 DEF IsPieces, Chain
<1>5. Chain(w, n, stop, out, onto)
  <2>1. \E f : IsPieces(f, s, tokens, prefix)
    <3> HIDE DEF stop, out, onto, n
    <3> QED
      BY <1>3, <1>4
  <2>2. IsPieces(w, s, tokens, prefix)
    BY <2>1 DEF PiecesFrom
  <2> HIDE DEF stop, out, onto, n, w
  <2> QED
    BY <1>4, <2>2
<1>6. Pieces(s, tokens, prefix) = w[0]
  BY DEF Pieces, PiecesFrom, IsPieces
<1>7. \A p \in 0..n : IsSeq(w[p])
  <2> HIDE DEF stop, out, onto, n, w
  <2> QED
    BY <1>1, <1>2, <1>5, ChainIsSeq
<1>8. ASSUME NEW p \in 0..n
      PROVE  w[p] = IF StopsAt(s, tokens, p) THEN OutAt(s, tokens, prefix, p)
                    ELSE OutAt(s, tokens, prefix, p) \o w[GoesOn(s, Found(s, tokens, p))]
  <2>1. w[p] = IF stop[p] THEN out[p] ELSE out[p] \o w[onto[p]]
    <3> HIDE DEF stop, out, onto, w, n
    <3> QED
      BY <1>5 DEF Chain
  <2>2. stop[p] = StopsAt(s, tokens, p) /\ out[p] = OutAt(s, tokens, prefix, p)
        /\ onto[p] = GoesOn(s, Found(s, tokens, p))
    OBVIOUS
  <2> HIDE DEF stop, out, onto, w, n
  <2> QED
    BY <2>1, <2>2
<1> HIDE DEF w
<1> QED
  BY <1>6, <1>7, <1>8 DEF w
-----------------------------------------------------------------------------
(* The part behind a clean cut is walked as it is in the whole text. *)
Shifted(m, c) == [at |-> c + m.at, token |-> m.token]

LEMMA RightOccurrences ==
    ASSUME NEW s, IsSeq(s), NEW tokens, TokensOK(tokens), NEW c \in 0..Len(s),
           NEW r, r = Slice(s, c, Len(s)), NEW q \in 0..(Len(s) - c)
    PROVE  /\ IsSeq(r) /\ Len(r) = Len(s) - c /\ c + q \in 0..Len(s)
           /\ StopsAt(r, tokens, q) <=> StopsAt(s, tokens, c + q)
           /\ ~StopsAt(r, tokens, q) => Found(s, tokens, c + q) = Shifted(Found(r, tokens, q), c)
<1>1. Len(s) \in Nat /\ c \in Nat /\ q \in Nat /\ c <= Len(s) /\ Len(s) <= Len(s)
  BY SeqFacts
<1>2. IsSeq(r) /\ Len(r) = Len(s) - c
  BY <1>1, SliceFacts
<1>3. q \in 0..Len(r) /\ c + q \in 0..Len(s)
  BY <1>1, <1>2
<1>4. ASSUME NEW t, IsSeq(t), NEW p PROVE At(r, t, p) <=> p \in Nat /\ At(s, t, c + p)
  <2>1. At(r, t, p) <=> p \in Nat /\ At(s, t, c + p) /\ c + p + Len(t) <= Len(s)
    BY <1>1, <1>4, AtSlice
  <2> QED
    BY <2>1 DEF At
<1>5. ASSUME NEW m \in Occurrences(r, tokens, q)
      PROVE  Shifted(m, c) \in Occurrences(s, tokens, c + q) /\ m.at \in Nat /\ Len(m.token.text) \in Nat
  <2>1. m \in [at: q..Len(r), token: tokens] /\ At(r, m.token.text, m.at)
    BY <1>2, <1>3, OccurrenceIs
  <2>2. m.at \in q..Len(r) /\ m.token \in tokens /\ IsSeq(m.token.text)
    BY <2>1 DEF TokensOK
  <2>3. At(s, m.token.text, c + m.at)
    BY <1>4, <2>1, <2>2
  <2>4. c + m.at \in (c + q)..Len(s)
    BY <1>1, <1>2, <2>2
  <2>5. Shifted(m, c) \in [at: (c + q)..Len(s), token: tokens] /\ At(s, Shifted(m, c).token.text, Shifted(m, c).at)
    BY <2>2, <2>3, <2>4 DEF Shifted
  <2> QED
    BY <1>1, <1>3, <2>2, <2>5, OccurrenceIs, SeqFacts
<1>6. ASSUME NEW m \in Occurrences(s, tokens, c + q)
      PROVE  \E x \in Occurrences(r, tokens, q) : m = Shifted(x, c)
  <2> DEFINE x == [at |-> m.at - c, token |-> m.token]
  <2>1. m \in [at: (c + q)..Len(s), token: tokens] /\ At(s, m.token.text, m.at)
    BY <1>3, OccurrenceIs
  <2>2. m.at \in (c + q)..Len(s) /\ m.token \in tokens /\ IsSeq(m.token.text)
    BY <2>1 DEF TokensOK
  <2>3. m.at - c \in Nat /\ c + (m.at - c) = m.at /\ m.at - c \in q..Len(r)
    BY <1>1, <1>2, <2>2
  <2>4. At(r, m.token.text, m.at - c)
    BY <1>4, <2>1, <2>2, <2>3
  <2>5. x \in Occurrences(r, tokens, q)
    BY <1>2, <1>3, <2>2, <2>3, <2>4, OccurrenceIs
  <2>6. m = Shifted(x, c)
    BY <2>1, <2>3 DEF Shifted
  <2> QED
    BY <2>5, <2>6
<1>7. ASSUME ~StopsAt(r, tokens, q) PROVE Found(s, tokens, c + q) = Shifted(Found(r, tokens, q), c)
  <2> DEFINE f == Found(r, tokens, q)
             m == Shifted(f, c)
  <2>1. Best(f, Occurrences(r, tokens, q))
    BY <1>2, <1>3, <1>7, FoundIsBest DEF StopsAt
  <2> HIDE DEF f
  <2>2. f \in Occurrences(r, tokens, q)
    BY <2>1 DEF Best
  <2>3. ASSUME NEW n \in Occurrences(s, tokens, c + q)
        PROVE  m.at < n.at \/ (m.at = n.at /\ Len(m.token.text) >= Len(n.token.text))
    <3>1. PICK x \in Occurrences(r, tokens, q) : n = Shifted(x, c)
      BY <1>6
    <3>2. f.at < x.at \/ (f.at = x.at /\ Len(f.token.text) >= Len(x.token.text))
      BY <2>1 DEF Best
    <3>3. f.at \in Nat /\ x.at \in Nat
      BY <1>5, <2>2
    <3> QED
      BY <1>1, <3>1, <3>2, <3>3 DEF Shifted
  <2>4. Best(m, Occurrences(s, tokens, c + q))
    BY <1>5, <2>2, <2>3 DEF Best
  <2> HIDE DEF m
  <2> QED
    BY <1>3, <2>4, BestIsOne DEF m, f
<1> QED
  BY <1>2, <1>3, <1>5, <1>6, <1>7 DEF StopsAt

LEMMA RightTrims ==
    ASSUME NEW s, IsSeq(s), NEW c \in 0..Len(s), NEW r, r = Slice(s, c, Len(s))
    PROVE  /\ \A q, x \in 0..(Len(s) - c) : q <= x => TrimEnd(s, c + q, c + x) = c + TrimEnd(r, q, x)
           /\ \A e \in 0..(Len(s) - c) : TrimStart(s, c + e) = c + TrimStart(r, e)
<1>1. Len(s) \in Nat /\ c \in Nat /\ c <= Len(s) /\ Len(s) <= Len(s)
  BY SeqFacts
<1>2. IsSeq(r) /\ Len(r) = Len(s) - c /\ \A k \in 1..(Len(s) - c) : r[k] = s[c + k]
  BY <1>1, SliceFacts
<1>3. ASSUME NEW q \in 0..(Len(s) - c), NEW x \in 0..(Len(s) - c), q <= x
      PROVE  TrimEnd(s, c + q, c + x) = c + TrimEnd(r, q, x)
  <2> DEFINE e == TrimEnd(r, q, x)
  <2>1. EndAt(r, q, x, e)
    BY <1>3, TrimEndIs
  <2> HIDE DEF e
  <2>2. e \in q..x /\ (e = q \/ r[e] # Space) /\ \A j \in (e + 1)..x : r[j] = Space
    BY <2>1 DEF EndAt
  <2>3. c + e \in (c + q)..(c + x)
    BY <1>1, <2>2
  <2>4. c + e = c + q \/ s[c + e] # Space
    BY <1>1, <1>2, <1>3, <2>2
  <2>5. ASSUME NEW j \in ((c + e) + 1)..(c + x) PROVE s[j] = Space
    <3>1. j - c \in (e + 1)..x /\ j - c \in 1..(Len(s) - c) /\ c + (j - c) = j
      BY <1>1, <1>3, <2>2
    <3> QED
      BY <1>2, <2>2, <3>1
  <2>6. EndAt(s, c + q, c + x, c + e)
    BY <2>3, <2>4, <2>5 DEF EndAt
  <2>7. c + q \in Nat /\ c + x \in Nat /\ c + q <= c + x
    BY <1>1, <1>3
  <2> QED
    BY <2>6, <2>7, TrimEndIs DEF e
<1>4. ASSUME NEW e \in 0..(Len(s) - c)
      PROVE  TrimStart(s, c + e) = c + TrimStart(r, e)
  <2> DEFINE v == TrimStart(r, e)
  <2>1. StartAt(r, e, Len(r), v)
    BY <1>2, TrimStartIs
  <2> HIDE DEF v
  <2>2. v \in e..(Len(s) - c) /\ (v = Len(s) - c \/ r[v + 1] # Space) /\ \A j \in e..(v - 1) : r[j + 1] = Space
    BY <1>2, <2>1 DEF StartAt
  <2>3. c + v \in (c + e)..Len(s)
    BY <1>1, <2>2
  <2>4. c + v = Len(s) \/ s[(c + v) + 1] # Space
    <3>1. ASSUME v # Len(s) - c PROVE s[(c + v) + 1] # Space
      <4>1. v + 1 \in 1..(Len(s) - c) /\ c + (v + 1) = (c + v) + 1
        BY <1>1, <2>2, <3>1
      <4> QED
        BY <1>2, <2>2, <3>1, <4>1
    <3> QED
      BY <1>1, <3>1
  <2>5. ASSUME NEW j \in (c + e)..((c + v) - 1) PROVE s[j + 1] = Space
    <3>1. j - c \in e..(v - 1) /\ (j - c) + 1 \in 1..(Len(s) - c) /\ c + ((j - c) + 1) = j + 1
      BY <1>1, <1>4, <2>2
    <3> QED
      BY <1>2, <2>2, <3>1
  <2>6. StartAt(s, c + e, Len(s), c + v)
    BY <2>3, <2>4, <2>5 DEF StartAt
  <2>7. c + e \in 0..Len(s)
    BY <1>1, <1>4
  <2> QED
    BY <2>6, <2>7, TrimStartIs DEF v
<1> QED
  BY <1>3, <1>4

LEMMA RightSegment ==
    ASSUME NEW s, IsSeq(s), NEW c \in 0..Len(s), NEW r, r = Slice(s, c, Len(s)), NEW prefix,
           NEW q \in 0..(Len(s) - c), NEW x \in 0..(Len(s) - c), q <= x
    PROVE  Segment(s, prefix, c + q, c + x) = Segment(r, prefix, q, x)
<1>1. Len(s) \in Nat /\ c \in Nat /\ c <= Len(s) /\ Len(s) <= Len(s) /\ q \in Nat /\ x \in Nat
  BY SeqFacts
<1>2. \A k \in 1..(Len(s) - c) : r[k] = s[c + k]
  BY <1>1, SliceFacts
<1>3. Slice(r, q, x) = Slice(s, c + q, c + x)
  BY <1>1, SliceOfSlice
<1>4. q < x <=> c + q < c + x
  BY <1>1
<1>5. q < x => s[(c + q) + 1] = r[q + 1]
  <2>1. ASSUME q < x PROVE q + 1 \in 1..(Len(s) - c) /\ c + (q + 1) = (c + q) + 1
    BY <1>1, <2>1
  <2> QED
    BY <1>2, <2>1
<1> QED
  BY <1>3, <1>4, <1>5 DEF Segment

LEMMA RightWalk ==
    ASSUME NEW s, IsSeq(s), NEW tokens, TokensOK(tokens), NEW prefix, NEW c \in 0..Len(s),
           NEW r, r = Slice(s, c, Len(s))
    PROVE  \A q \in 0..(Len(s) - c) :
              PiecesFrom(s, tokens, prefix)[c + q] = PiecesFrom(r, tokens, prefix)[q]
<1> DEFINE w == PiecesFrom(s, tokens, prefix)
           v == PiecesFrom(r, tokens, prefix)
           bad == {q \in 0..(Len(s) - c) : w[c + q] # v[q]}
<1>1. Len(s) \in Nat /\ c \in Nat /\ c <= Len(s)
  BY SeqFacts
<1>2. IsSeq(r) /\ Len(r) = Len(s) - c
  BY <1>1, RightOccurrences
<1> SUFFICES ASSUME bad # {} PROVE FALSE
  OBVIOUS
<1> DEFINE q == Max(bad)
<1>3. q \in bad /\ \A y \in bad : y <= q
  <2>1. bad \in SUBSET Nat /\ Len(s) - c \in Nat /\ \A y \in bad : y <= Len(s) - c
    <3> HIDE DEF w, v
    <3> QED
      BY <1>1
  <2> HIDE DEF bad
  <2> QED
    BY <2>1, MostIs
<1>4. q \in 0..(Len(s) - c) /\ w[c + q] # v[q]
  <2> HIDE DEF w, v, q
  <2> QED
    BY <1>3
<1> HIDE DEF q
<1>5. q \in 0..Len(r) /\ c + q \in 0..Len(s) /\ q \in Nat
  BY <1>1, <1>2, <1>4
<1>6. /\ StopsAt(r, tokens, q) <=> StopsAt(s, tokens, c + q)
      /\ ~StopsAt(r, tokens, q) => Found(s, tokens, c + q) = Shifted(Found(r, tokens, q), c)
  BY <1>4, RightOccurrences
<1>7. /\ w[c + q] = IF StopsAt(s, tokens, c + q) THEN OutAt(s, tokens, prefix, c + q)
                    ELSE OutAt(s, tokens, prefix, c + q) \o w[GoesOn(s, Found(s, tokens, c + q))]
      /\ v[q] = IF StopsAt(r, tokens, q) THEN OutAt(r, tokens, prefix, q)
                ELSE OutAt(r, tokens, prefix, q) \o v[GoesOn(r, Found(r, tokens, q))]
  BY <1>2, <1>5, PiecesStep
<1> HIDE DEF w, v
<1>8. CASE StopsAt(r, tokens, q)
  <2>1. Segment(s, prefix, c + q, c + Len(r)) = Segment(r, prefix, q, Len(r))
    <3>1. Len(r) \in 0..(Len(s) - c) /\ q <= Len(r)
      BY <1>1, <1>2, <1>4
    <3> QED
      BY <1>4, <3>1, RightSegment
  <2>2. c + Len(r) = Len(s)
    BY <1>1, <1>2
  <2> QED
    BY <1>4, <1>6, <1>7, <1>8, <2>1, <2>2 DEF OutAt
<1>9. CASE ~StopsAt(r, tokens, q)
  <2> DEFINE f == Found(r, tokens, q)
             m == Found(s, tokens, c + q)
  <2>1. /\ f.at \in q..Len(r) /\ f.at \in Nat /\ Len(f.token.text) \in Nat
        /\ MatchEnd(f) \in (f.at + 1)..Len(r) /\ TextEnd(r, f, q) \in q..f.at
        /\ GoesOn(r, f) \in (q + 1)..Len(r)
    BY <1>2, <1>5, <1>9, FoundFacts
  <2>2. m = Shifted(f, c)
    BY <1>6, <1>9
  <2> HIDE DEF f, m
  <2>3. m.at = c + f.at /\ m.token = f.token /\ MatchEnd(m) = c + MatchEnd(f)
    <3>1. m.at = c + f.at /\ m.token = f.token
      BY <2>2 DEF Shifted
    <3>2. MatchEnd(m) = (c + f.at) + Len(f.token.text) /\ MatchEnd(f) = f.at + Len(f.token.text)
      BY <3>1 DEF MatchEnd
    <3> DEFINE k == Len(f.token.text)
               x == f.at
    <3>3. k \in Nat /\ x \in Nat
      BY <2>1
    <3> HIDE DEF k, x
    <3>4. (c + x) + k = c + (x + k)
      BY <1>1, <3>3
    <3> QED
      BY <3>1, <3>2, <3>4 DEF k, x
  <2>4. TextEnd(s, m, c + q) = c + TextEnd(r, f, q)
    <3>1. f.at \in 0..(Len(s) - c) /\ q <= f.at
      BY <1>1, <1>2, <1>5, <2>1
    <3>2. TrimEnd(s, c + q, c + f.at) = c + TrimEnd(r, q, f.at)
      BY <1>4, <3>1, RightTrims
    <3> QED
      BY <2>3, <3>2 DEF TextEnd
  <2>5. GoesOn(s, m) = c + GoesOn(r, f)
    <3>1. MatchEnd(f) \in 0..(Len(s) - c)
      BY <1>1, <1>2, <1>5, <2>1
    <3>2. TrimStart(s, c + MatchEnd(f)) = c + TrimStart(r, MatchEnd(f))
      BY <3>1, RightTrims
    <3> QED
      BY <2>3, <3>2 DEF GoesOn
  <2>6. OutAt(s, tokens, prefix, c + q) = OutAt(r, tokens, prefix, q)
    <3>1. TextEnd(r, f, q) \in 0..(Len(s) - c) /\ q <= TextEnd(r, f, q)
      <4> DEFINE x == TextEnd(r, f, q)
                 k == f.at
                 n == Len(r)
                 e == Len(s)
      <4>1. x \in q..k /\ k \in q..n /\ k \in Nat /\ n = e - c /\ n \in Nat /\ q \in Nat
        BY <1>1, <1>2, <1>5, <2>1
      <4> HIDE DEF x, k, n, e
      <4>2. q <= x /\ x <= k /\ k <= n /\ x \in Nat
        BY <4>1
      <4>3. x \in 0..n
        BY <4>1, <4>2
      <4> QED
        BY <4>1, <4>2, <4>3 DEF x, n, e
    <3>2. Segment(s, prefix, c + q, c + TextEnd(r, f, q)) = Segment(r, prefix, q, TextEnd(r, f, q))
      BY <1>4, <3>1, RightSegment
    <3> QED
      BY <1>6, <1>9, <2>3, <2>4, <3>2 DEF OutAt, f, m
  <2>7. GoesOn(r, f) \in 0..(Len(s) - c) /\ ~(GoesOn(r, f) <= q)
    <3> DEFINE y == GoesOn(r, f)
               n == Len(r)
               e == Len(s)
    <3>1. y \in (q + 1)..n /\ n = e - c /\ n \in Nat /\ q \in Nat
      BY <1>1, <1>2, <1>5, <2>1
    <3> HIDE DEF y, n, e
    <3>2. y \in 0..n /\ ~(y <= q)
      BY <3>1
    <3> QED
      BY <3>1, <3>2 DEF y, n, e
  <2>8. w[c + GoesOn(r, f)] = v[GoesOn(r, f)]
    BY <1>3, <2>7
  <2> QED
    BY <1>4, <1>6, <1>7, <1>9, <2>5, <2>6, <2>8 DEF f, m
<1> QED
  BY <1>8, <1>9
-----------------------------------------------------------------------------
(* What is in front of a clean cut, from an offset p before it. *)
LEMMA LeftOccurrences ==
    ASSUME NEW s, IsSeq(s), NEW tokens, TokensOK(tokens), NEW c, Clean(s, tokens, c),
           NEW l, l = Slice(s, 0, c), NEW p \in 0..c
    PROVE  /\ IsSeq(l) /\ Len(l) = c /\ \A k \in 1..c : l[k] = s[k]
           /\ \A m : m \in Occurrences(l, tokens, p) <=> m \in Occurrences(s, tokens, p) /\ m.at < c
           /\ ~StopsAt(l, tokens, p) => Found(l, tokens, p) = Found(s, tokens, p) /\ ~StopsAt(s, tokens, p)
<1>1. Len(s) \in Nat /\ c \in Nat /\ 0 \in Nat /\ 0 <= c /\ c <= Len(s) /\ p \in 0..Len(s)
  BY SeqFacts DEF Clean
<1>2. IsSeq(l) /\ Len(l) = c - 0 /\ \A k \in 1..(c - 0) : l[k] = s[0 + k]
  BY <1>1, SliceFacts
<1>3. IsSeq(l) /\ Len(l) = c /\ \A k \in 1..c : l[k] = s[k]
  BY <1>1, <1>2
<1>4. ASSUME NEW t, IsSeq(t), NEW x PROVE At(l, t, x) <=> At(s, t, x) /\ x + Len(t) <= c
  <2>1. At(l, t, x) <=> x \in Nat /\ At(s, t, 0 + x) /\ 0 + x + Len(t) <= c
    BY <1>1, <1>4, AtSlice
  <2> QED
    BY <2>1 DEF At
<1>5. ASSUME NEW m \in Occurrences(l, tokens, p)
      PROVE  m \in Occurrences(s, tokens, p) /\ m.at < c
  <2>1. m \in [at: p..Len(l), token: tokens] /\ At(l, m.token.text, m.at)
    BY <1>1, <1>3, OccurrenceIs
  <2>2. m.at \in p..c /\ m.token \in tokens /\ IsSeq(m.token.text) /\ Len(m.token.text) > 0 /\ Len(m.token.text) \in Nat
    BY <1>3, <2>1, SeqFacts DEF TokensOK
  <2>3. At(s, m.token.text, m.at) /\ m.at + Len(m.token.text) <= c
    BY <1>4, <2>1, <2>2
  <2>4. m.at < c /\ m.at \in p..Len(s)
    BY <1>1, <2>2, <2>3
  <2>5. m \in [at: p..Len(s), token: tokens]
    BY <2>1, <2>4
  <2> QED
    BY <1>1, <2>3, <2>4, <2>5, OccurrenceIs
<1>6. ASSUME NEW m \in Occurrences(s, tokens, p), m.at < c
      PROVE  m \in Occurrences(l, tokens, p)
  <2>1. m \in [at: p..Len(s), token: tokens] /\ At(s, m.token.text, m.at)
    BY <1>1, OccurrenceIs
  <2>2. m.at \in p..Len(s) /\ m.token \in tokens /\ IsSeq(m.token.text) /\ Len(m.token.text) \in Nat
    BY <2>1, SeqFacts DEF TokensOK
  <2>3. m.at + Len(m.token.text) <= c
    BY <1>1, <1>6, <2>1, <2>2 DEF Clean
  <2>4. At(l, m.token.text, m.at) /\ m.at \in p..Len(l)
    BY <1>1, <1>3, <1>4, <1>6, <2>1, <2>2, <2>3
  <2>5. m \in [at: p..Len(l), token: tokens]
    BY <2>1, <2>4
  <2> QED
    BY <1>1, <1>3, <2>4, <2>5, OccurrenceIs
<1>7. ASSUME ~StopsAt(l, tokens, p)
      PROVE  Found(l, tokens, p) = Found(s, tokens, p) /\ ~StopsAt(s, tokens, p)
  <2> DEFINE m == Found(l, tokens, p)
  <2>1. Best(m, Occurrences(l, tokens, p))
    BY <1>1, <1>3, <1>7, FoundIsBest DEF StopsAt
  <2> HIDE DEF m
  <2>2. m \in Occurrences(s, tokens, p) /\ m.at < c
    BY <1>5, <2>1 DEF Best
  <2>3. ASSUME NEW n \in Occurrences(s, tokens, p)
        PROVE  m.at < n.at \/ (m.at = n.at /\ Len(m.token.text) >= Len(n.token.text))
    <3>1. CASE n.at < c
      BY <1>6, <2>1, <3>1 DEF Best
    <3>2. CASE ~(n.at < c)
      <4>1. n.at \in p..Len(s) /\ m.at \in p..Len(s)
        BY <1>1, <2>2, OccurrenceIs
      <4> QED
        BY <1>1, <2>2, <3>2, <4>1
    <3> QED
      BY <3>1, <3>2
  <2>4. Best(m, Occurrences(s, tokens, p))
    BY <2>2, <2>3 DEF Best
  <2>5. Found(s, tokens, p) = m
    BY <1>1, <2>4, BestIsOne
  <2> QED
    BY <2>2, <2>5 DEF m, StopsAt
<1> QED
  BY <1>3, <1>5, <1>6, <1>7

(* No occurrence starts between p and the cut: the one found next is behind it. *)
LEMMA NextIsRight ==
    ASSUME NEW s, IsSeq(s), NEW tokens, TokensOK(tokens), NEW c, Clean(s, tokens, c),
           NEW p \in 0..c, StopsAt(Slice(s, 0, c), tokens, p)
    PROVE  /\ StopsAt(s, tokens, p) <=> StopsAt(s, tokens, c)
           /\ Found(s, tokens, p) = Found(s, tokens, c)
<1>1. Len(s) \in Nat /\ c \in Nat /\ c <= Len(s) /\ p \in 0..Len(s) /\ c \in 0..Len(s)
  BY SeqFacts DEF Clean
<1>2. ASSUME NEW m PROVE m \in Occurrences(s, tokens, p) <=> m \in Occurrences(s, tokens, c)
  <2>1. m \in Occurrences(s, tokens, p) => ~(m.at < c)
    BY LeftOccurrences DEF StopsAt
  <2>2. /\ m \in Occurrences(s, tokens, p) <=> m \in [at: p..Len(s), token: tokens] /\ At(s, m.token.text, m.at)
        /\ m \in Occurrences(s, tokens, c) <=> m \in [at: c..Len(s), token: tokens] /\ At(s, m.token.text, m.at)
    BY <1>1, OccurrenceIs
  <2>3. \A x \in p..Len(s) : ~(x < c) => x \in c..Len(s)
    BY <1>1
  <2>4. \A x \in c..Len(s) : x \in p..Len(s)
    BY <1>1
  <2> QED
    BY <2>1, <2>2, <2>3, <2>4
<1>3. Occurrences(s, tokens, p) = Occurrences(s, tokens, c)
  BY <1>2
<1> QED
  BY <1>3 DEF StopsAt, Found

(* A match in front of the cut: the text in front of it and where the walk goes on. *)
LEMMA LeftMatch ==
    ASSUME NEW s, IsSeq(s), NEW tokens, TokensOK(tokens), NEW c, Clean(s, tokens, c),
           NEW l, l = Slice(s, 0, c), NEW p \in 0..c, ~StopsAt(l, tokens, p), NEW prefix
    PROVE  /\ p < c /\ OutAt(s, tokens, prefix, p) = OutAt(l, tokens, prefix, p)
           /\ GoesOn(s, Found(s, tokens, p)) = GoesOn(l, Found(l, tokens, p))
           /\ GoesOn(l, Found(l, tokens, p)) \in (p + 1)..c
<1> DEFINE m == Found(s, tokens, p)
<1>1. Len(s) \in Nat /\ c \in Nat /\ c < Len(s) /\ p \in 0..Len(s) /\ p \in Nat /\ s[c] # Space /\ c > 0
  BY SeqFacts DEF Clean
<1>2. /\ IsSeq(l) /\ Len(l) = c /\ (\A k \in 1..c : l[k] = s[k])
      /\ Found(l, tokens, p) = m /\ ~StopsAt(s, tokens, p)
  BY LeftOccurrences
<1>3. /\ m.token \in tokens /\ m.at \in p..Len(l) /\ m.at \in Nat /\ Len(m.token.text) \in Nat
      /\ MatchEnd(m) \in (m.at + 1)..Len(l) /\ TextEnd(l, m, p) \in p..m.at
      /\ GoesOn(l, m) \in (p + 1)..Len(l) /\ Len(m.token.text) > 0
  <2>1. p \in 0..Len(l)
    BY <1>2
  <2> HIDE DEF m
  <2> QED
    BY <1>2, <2>1, FoundFacts
<1>4. At(s, m.token.text, m.at)
  BY <1>1, <1>2, FoundFacts
<1> HIDE DEF m
<1>5. TextEnd(s, m, p) = TextEnd(l, m, p)
  <2> DEFINE e == TrimEnd(l, p, m.at)
  <2>1. p <= m.at
    BY <1>1, <1>3
  <2>2. EndAt(l, p, m.at, e)
    BY <1>1, <1>3, <2>1, TrimEndIs
  <2> HIDE DEF e
  <2>3. EndAt(s, p, m.at, e)
    <3>1. e \in p..m.at /\ (e = p \/ l[e] # Space) /\ \A j \in (e + 1)..m.at : l[j] = Space
      BY <2>2 DEF EndAt
    <3>2. \A j \in (e + 1)..m.at : s[j] = Space
      <4>1. \A j \in (e + 1)..m.at : j \in 1..c
        BY <1>1, <1>2, <1>3, <3>1
      <4> QED
        BY <1>2, <3>1, <4>1
    <3>3. e = p \/ s[e] # Space
      <4>1. e # p => e \in 1..c
        BY <1>1, <1>2, <1>3, <3>1
      <4> QED
        BY <1>2, <3>1, <4>1
    <3> QED
      BY <3>1, <3>2, <3>3 DEF EndAt
  <2>4. TrimEnd(s, p, m.at) = e
    BY <1>1, <1>3, <2>1, <2>3, TrimEndIs
  <2> QED
    BY <2>4 DEF TextEnd, e
<1>6. GoesOn(s, m) = GoesOn(l, m)
  <2>1. CASE ~m.token.rstrip
    BY <2>1 DEF GoesOn
  <2>2. CASE m.token.rstrip
    <3> DEFINE end == MatchEnd(m)
               v == TrimStart(l, end)
    <3>1. end # c
      BY <1>3, <1>4, <2>2 DEF Clean, MatchEnd
    <3>2. end \in 0..Len(l) /\ end \in Nat /\ end < c /\ end \in 0..Len(s)
      BY <1>1, <1>2, <1>3, <3>1
    <3> HIDE DEF end
    <3>3. StartAt(l, end, Len(l), v)
      BY <1>2, <3>2, TrimStartIs
    <3> HIDE DEF v
    <3>4. v \in end..c /\ (v = c \/ l[v + 1] # Space) /\ \A j \in end..(v - 1) : l[j + 1] = Space
      BY <1>2, <3>3 DEF StartAt
    <3>5. v # c
      <4>1. ASSUME v = c PROVE FALSE
        <5>1. c - 1 \in end..(v - 1) /\ (c - 1) + 1 = c /\ c \in 1..c
          BY <1>1, <3>2, <4>1
        <5> QED
          BY <1>1, <1>2, <3>4, <5>1
      <4> QED
        BY <4>1
    <3>6. StartAt(s, end, Len(s), v)
      <4>1. v \in end..Len(s)
        BY <1>1, <3>2, <3>4
      <4>2. s[v + 1] # Space
        <5>1. v + 1 \in 1..c
          BY <1>1, <3>2, <3>4, <3>5
        <5> QED
          BY <1>2, <3>4, <3>5, <5>1
      <4>3. \A j \in end..(v - 1) : s[j + 1] = Space
        <5>1. \A j \in end..(v - 1) : j + 1 \in 1..c
          BY <1>1, <3>2, <3>4
        <5> QED
          BY <1>2, <3>4, <5>1
      <4> QED
        BY <4>1, <4>2, <4>3 DEF StartAt
    <3>7. TrimStart(s, end) = v
      BY <3>2, <3>6, TrimStartIs
    <3> QED
      BY <2>2, <3>7 DEF GoesOn, v, end
  <2> QED
    BY <2>1, <2>2
<1>7. p < c
  BY <1>1, <1>2, <1>3
<1>8. \A e \in p..c : Segment(s, prefix, p, e) = Segment(l, prefix, p, e)
  <2>1. ASSUME NEW e \in p..c PROVE Segment(s, prefix, p, e) = Segment(l, prefix, p, e)
    <3>1. Slice(l, p, e) = Slice(s, 0 + p, 0 + e)
      <4>1. 0 \in Nat /\ 0 <= c /\ c <= Len(s) /\ e \in Nat /\ p <= e /\ e <= c - 0
        BY <1>1
      <4> QED
        BY <1>1, <4>1, SliceOfSlice
    <3>2. 0 + p = p /\ 0 + e = e
      BY <1>1
    <3>3. l[p + 1] = s[p + 1]
      <4>1. p + 1 \in 1..c
        BY <1>1, <1>7
      <4> QED
        BY <1>2, <4>1
    <3> QED
      BY <3>1, <3>2, <3>3 DEF Segment
  <2> QED
    BY <2>1
<1>9. TextEnd(l, m, p) \in p..c
  BY <1>1, <1>2, <1>3
<1>10. OutAt(s, tokens, prefix, p) = OutAt(l, tokens, prefix, p)
  BY <1>2, <1>5, <1>8, <1>9 DEF OutAt, m
<1> QED
  BY <1>2, <1>3, <1>6, <1>7, <1>10 DEF m

(* No match in front of the cut: the text before it ends there, and the text behind it
   starts with the space. *)
LEMMA LeftRest ==
    ASSUME NEW s, IsSeq(s), NEW tokens, TokensOK(tokens), NEW c, Clean(s, tokens, c),
           NEW p \in 0..(c - 1), NEW prefix, NEW e \in c..Len(s)
    PROVE  Segment(s, prefix, p, e) = Segment(s, prefix, p, c) \o Segment(s, prefix, c, e)
<1>1. Len(s) \in Nat /\ c \in Nat /\ c < Len(s) /\ p \in Nat /\ p < c /\ s[c + 1] = Space
      /\ e \in Nat /\ p <= c /\ c <= e /\ e <= Len(s) /\ p < e /\ c <= Len(s)
  BY SeqFacts DEF Clean
<1>2. Slice(s, p, c) \o Slice(s, c, e) = Slice(s, p, e)
  BY <1>1, SliceJoins
<1>3. IsSeq(Slice(s, p, c)) /\ IsSeq(Slice(s, c, e)) /\ IsSeq(<<Space>>)
  BY <1>1, SliceFacts, OneIsSeq
<1>4. (<<Space>> \o Slice(s, p, c)) \o Slice(s, c, e) = <<Space>> \o (Slice(s, p, c) \o Slice(s, c, e))
  BY <1>3, Rejoined
<1>5. Segment(s, prefix, c, e) = Slice(s, c, e)
  BY <1>1 DEF Segment
<1> QED
  BY <1>1, <1>2, <1>4, <1>5 DEF Segment

(* The walk up to the cut, joined with the one from it on, is the whole walk. *)
LeftJoins(s, tokens, prefix, c) ==
    PiecesFrom(s, tokens, prefix)[0]
    = PiecesFrom(Slice(s, 0, c), tokens, prefix)[0] \o PiecesFrom(s, tokens, prefix)[c]
LEMMA LeftWalk ==
    ASSUME NEW s, IsSeq(s), NEW tokens, TokensOK(tokens), NEW prefix, NEW c, Clean(s, tokens, c)
    PROVE  LeftJoins(s, tokens, prefix, c)
<1> SUFFICES ASSUME NEW l, l = Slice(s, 0, c)
    PROVE  PiecesFrom(s, tokens, prefix)[0]
           = PiecesFrom(l, tokens, prefix)[0] \o PiecesFrom(s, tokens, prefix)[c]
  BY DEF LeftJoins
<1> DEFINE w == PiecesFrom(s, tokens, prefix)
           v == PiecesFrom(l, tokens, prefix)
           bad == {p \in 0..c : w[p] # v[p] \o w[c]}
<1>1. Len(s) \in Nat /\ c \in Nat /\ c < Len(s) /\ c \in 0..Len(s)
  BY SeqFacts DEF Clean
<1>2. IsSeq(l) /\ Len(l) = c
  <2>1. c \in 0..c
    BY <1>1
  <2> QED
    BY <2>1, LeftOccurrences
<1>0. bad = {} => w[0] = v[0] \o w[c]
  <2>1. 0 \in 0..c
    BY <1>1
  <2> HIDE DEF w, v
  <2> QED
    BY <2>1
<1> SUFFICES ASSUME bad # {} PROVE FALSE
  BY <1>0
<1> DEFINE p == Max(bad)
<1>3. p \in bad /\ \A y \in bad : y <= p
  <2>1. bad \in SUBSET Nat /\ \A y \in bad : y <= c
    <3>1. \A y \in bad : y \in 0..c
      <4> HIDE DEF w, v
      <4> QED
        OBVIOUS
    <3> HIDE DEF bad
    <3> QED
      BY <1>1, <3>1
  <2> HIDE DEF bad
  <2> QED
    BY <1>1, <2>1, MostIs
<1>4. p \in 0..c /\ w[p] # v[p] \o w[c]
  <2> HIDE DEF w, v, p
  <2> QED
    BY <1>3
<1> HIDE DEF p
<1>5. p \in 0..Len(s) /\ p \in 0..Len(l) /\ p \in Nat
  BY <1>1, <1>2, <1>4
<1>6. /\ \A x \in 0..Len(s) : w[x] = IF StopsAt(s, tokens, x) THEN OutAt(s, tokens, prefix, x)
                ELSE OutAt(s, tokens, prefix, x) \o w[GoesOn(s, Found(s, tokens, x))]
      /\ v[p] = IF StopsAt(l, tokens, p) THEN OutAt(l, tokens, prefix, p)
                ELSE OutAt(l, tokens, prefix, p) \o v[GoesOn(l, Found(l, tokens, p))]
  BY <1>2, <1>5, PiecesStep
<1>7. (\A x \in 0..Len(s) : IsSeq(w[x])) /\ (\A x \in 0..Len(l) : IsSeq(v[x]))
  BY <1>2, PiecesStep
<1> HIDE DEF w, v
<1>8. CASE ~StopsAt(l, tokens, p)
  <2> DEFINE g == GoesOn(l, Found(l, tokens, p))
             o == OutAt(l, tokens, prefix, p)
  <2>1. /\ ~StopsAt(s, tokens, p) /\ OutAt(s, tokens, prefix, p) = o
        /\ GoesOn(s, Found(s, tokens, p)) = g /\ g \in (p + 1)..c
    BY <1>4, <1>8, LeftMatch, LeftOccurrences
  <2>2. IsSeq(o)
    BY <1>2, <1>5, OutIsSeq
  <2> HIDE DEF g, o
  <2>3. g \in 0..c /\ ~(g <= p)
    BY <1>4, <2>1
  <2>4. w[g] = v[g] \o w[c]
    BY <1>3, <2>3
  <2>5. w[p] = o \o (v[g] \o w[c]) /\ v[p] = o \o v[g]
    BY <1>5, <1>6, <1>8, <2>1, <2>4 DEF g, o
  <2>6. (o \o v[g]) \o w[c] = o \o (v[g] \o w[c])
    <3>1. IsSeq(v[g]) /\ IsSeq(w[c])
      BY <1>1, <1>2, <1>7, <2>3
    <3> DEFINE x == v[g]
               y == w[c]
    <3>2. IsSeq(x) /\ IsSeq(y)
      BY <3>1
    <3> HIDE DEF x, y
    <3>3. (o \o x) \o y = o \o (x \o y)
      BY <2>2, <3>2, Rejoined
    <3> QED
      BY <3>3 DEF x, y
  <2> QED
    BY <1>4, <2>5, <2>6
<1>9. CASE StopsAt(l, tokens, p) /\ p = c
  <2>1. v[p] = Segment(l, prefix, c, c)
    BY <1>2, <1>6, <1>9 DEF OutAt
  <2>2. Segment(l, prefix, c, c) = <<>>
    <3>1. c \in 0..Len(l) /\ ~(c < c)
      BY <1>1, <1>2
    <3>2. Slice(l, c, c) = <<>>
      BY <1>2, <3>1, SliceWhole
    <3> QED
      BY <3>1, <3>2 DEF Segment
  <2>3. <<>> \o w[c] = w[c]
    BY <1>1, <1>7, EmptyJoin
  <2> QED
    BY <1>4, <1>9, <2>1, <2>2, <2>3
<1>10. CASE StopsAt(l, tokens, p) /\ p # c
  <2>1. p \in 0..(c - 1)
    BY <1>1, <1>4, <1>10
  <2>2. v[p] = Segment(s, prefix, p, c)
    <3>1. v[p] = Segment(l, prefix, p, c)
      BY <1>2, <1>6, <1>10 DEF OutAt
    <3>2. Slice(l, p, c) = Slice(s, 0 + p, 0 + c) /\ 0 + p = p /\ 0 + c = c
      <4>1. 0 \in Nat /\ 0 <= c /\ c <= Len(s) /\ p \in Nat /\ p <= c /\ c <= c - 0 /\ 0 + p = p /\ 0 + c = c
        BY <1>1, <1>4
      <4> QED
        BY <1>1, <4>1, SliceOfSlice
    <3>3. l[p + 1] = s[p + 1]
      <4>1. p + 1 \in 1..c /\ c \in 0..c
        BY <1>1, <2>1
      <4> QED
        BY <4>1, LeftOccurrences
    <3> QED
      BY <3>1, <3>2, <3>3 DEF Segment
  <2>3. /\ StopsAt(s, tokens, p) <=> StopsAt(s, tokens, c)
        /\ Found(s, tokens, p) = Found(s, tokens, c)
    BY <1>4, <1>10, NextIsRight
  <2>4. CASE StopsAt(s, tokens, c)
    <3>1. w[p] = Segment(s, prefix, p, Len(s)) /\ w[c] = Segment(s, prefix, c, Len(s))
      BY <1>1, <1>5, <1>6, <2>3, <2>4 DEF OutAt
    <3>2. Len(s) \in c..Len(s)
      BY <1>1
    <3>3. Segment(s, prefix, p, Len(s)) = Segment(s, prefix, p, c) \o Segment(s, prefix, c, Len(s))
      BY <2>1, <3>2, LeftRest
    <3> QED
      BY <1>4, <2>2, <3>1, <3>3
  <2>5. CASE ~StopsAt(s, tokens, c)
    <3> DEFINE m == Found(s, tokens, c)
               e == TextEnd(s, m, c)
    <3>1. m.at \in c..Len(s) /\ m.at \in Nat /\ e \in c..m.at /\ GoesOn(s, m) \in (c + 1)..Len(s)
      BY <1>1, <2>5, FoundFacts
    <3>2. TextEnd(s, m, p) = e
      <4> DEFINE t == TrimEnd(s, c, m.at)
      <4>1. p <= m.at /\ c <= m.at
        BY <1>1, <1>4, <3>1
      <4>2. EndAt(s, c, m.at, t)
        BY <1>1, <3>1, <4>1, TrimEndIs
      <4> HIDE DEF t, m
      <4>3. EndAt(s, p, m.at, t)
        <5>1. t \in c..m.at /\ (t = c \/ s[t] # Space) /\ \A j \in (t + 1)..m.at : s[j] = Space
          BY <4>2 DEF EndAt
        <5>2. t \in p..m.at
          BY <1>1, <2>1, <5>1
        <5> QED
          BY <5>1, <5>2 DEF EndAt, Clean
      <4>4. TrimEnd(s, p, m.at) = t
        BY <1>5, <3>1, <4>1, <4>3, TrimEndIs
      <4> QED
        BY <4>4 DEF TextEnd, t
    <3> HIDE DEF e
    <3>3. w[p] = (Segment(s, prefix, p, e) \o <<m.token>>) \o w[GoesOn(s, m)]
      BY <1>5, <1>6, <2>3, <2>5, <3>2 DEF OutAt
    <3>4. w[c] = (Segment(s, prefix, c, e) \o <<m.token>>) \o w[GoesOn(s, m)]
      BY <1>1, <1>6, <2>5 DEF OutAt, e
    <3> HIDE DEF m
    <3>5. e \in c..Len(s)
      BY <1>1, <3>1
    <3>6. Segment(s, prefix, p, e) = Segment(s, prefix, p, c) \o Segment(s, prefix, c, e)
      BY <2>1, <3>5, LeftRest
    <3> DEFINE a == Segment(s, prefix, p, c)
               b == Segment(s, prefix, c, e)
               t == <<m.token>>
               u == w[GoesOn(s, m)]
    <3>7. IsSeq(a) /\ IsSeq(b) /\ IsSeq(t) /\ IsSeq(u)
      <4>1. p \in Nat /\ p <= c /\ c <= Len(s) /\ e \in Nat /\ c <= e /\ e <= Len(s)
        BY <1>1, <1>5, <2>1, <3>5
      <4>2. GoesOn(s, m) \in 0..Len(s)
        BY <1>1, <3>1
      <4> QED
        BY <1>1, <1>7, <4>1, <4>2, SegmentIsSeq, OneIsSeq
    <3> HIDE DEF a, b, t, u
    <3>8. IsSeq(a \o b) /\ IsSeq(b \o t) /\ IsSeq((b \o t) \o u)
      BY <3>7, Joined2
    <3>9. ((a \o b) \o t) \o u = a \o ((b \o t) \o u)
      <4>1. Regroups(a, b, t, u)
        BY <3>7, Rejoined4, Zenon
      <4> QED
        BY <4>1, Zenon DEF Regroups
    <3> QED
      BY <1>4, <2>2, <3>3, <3>4, <3>6, <3>9 DEF a, b, t, u
  <2> QED
    BY <2>4, <2>5
<1> QED
  BY <1>8, <1>9, <1>10

(***************************************************************************)
(* Encoding the two sides of a clean cut by themselves and joining what    *)
(* comes out is encoding the text: for_each_piece takes the same added     *)
(* tokens from it, and the same spaces with them.                          *)
(***************************************************************************)
THEOREM CleanCut ==
    ASSUME NEW s, IsSeq(s), NEW tokens, TokensOK(tokens), NEW prefix, NEW c, Clean(s, tokens, c)
    PROVE  Pieces(s, tokens, prefix)
           = Pieces(Slice(s, 0, c), tokens, prefix) \o Pieces(Slice(s, c, Len(s)), tokens, prefix)
<1> DEFINE l == Slice(s, 0, c)
           r == Slice(s, c, Len(s))
<1>1. Len(s) \in Nat /\ c \in Nat /\ c \in 0..Len(s) /\ 0 \in 0..c /\ 0 \in 0..(Len(s) - c) /\ c + 0 = c
  BY SeqFacts DEF Clean
<1>2. IsSeq(l) /\ IsSeq(r)
  BY <1>1, LeftOccurrences, RightOccurrences
<1>3. PiecesFrom(s, tokens, prefix)[0] = PiecesFrom(l, tokens, prefix)[0] \o PiecesFrom(s, tokens, prefix)[c]
  <2> HIDE DEF l, r
  <2>1. LeftJoins(s, tokens, prefix, c)
    BY LeftWalk, Zenon
  <2> QED
    BY <2>1, Zenon DEF LeftJoins, l
<1>4. PiecesFrom(s, tokens, prefix)[c + 0] = PiecesFrom(r, tokens, prefix)[0]
  BY <1>1, RightWalk
<1>5. /\ Pieces(s, tokens, prefix) = PiecesFrom(s, tokens, prefix)[0]
      /\ Pieces(l, tokens, prefix) = PiecesFrom(l, tokens, prefix)[0]
      /\ Pieces(r, tokens, prefix) = PiecesFrom(r, tokens, prefix)[0]
  <2> HIDE DEF l, r
  <2> QED
    BY <1>2, PiecesStep
<1> QED
  BY <1>1, <1>3, <1>4, <1>5

(***************************************************************************)
(* Encoding the two sides of a place that safe_split_ranges takes for safe *)
(* by themselves, and joining what comes out, is encoding the text.        *)
(***************************************************************************)
THEOREM SafeCut ==
    ASSUME NEW s, IsSeq(s), NEW tokens, TokensOK(tokens), Findable(tokens), NEW prefix,
           NEW c \in 1..(Len(s) - 2), SafeAt(s, tokens, c)
    PROVE  Pieces(s, tokens, prefix)
           = Pieces(Slice(s, 0, c), tokens, prefix) \o Pieces(Slice(s, c, Len(s)), tokens, prefix)
<1>1. Clean(s, tokens, c)
  BY SafeIsClean
<1> QED
  BY <1>1, CleanCut
-----------------------------------------------------------------------------
(* Clean cuts of a part and of the whole. *)
LEMMA CleanPrefix ==
    ASSUME NEW s, IsSeq(s), NEW tokens, TokensOK(tokens), NEW x, Clean(s, tokens, x),
           NEW y \in (x + 1)..Len(s)
    PROVE  Clean(Slice(s, 0, y), tokens, x)
<1> DEFINE t == Slice(s, 0, y)
<1>1. Len(s) \in Nat /\ x \in Nat /\ x > 0 /\ y \in Nat /\ 0 \in Nat /\ 0 <= y /\ y <= Len(s)
  BY SeqFacts DEF Clean
<1>2. Len(t) = y - 0 /\ \A k \in 1..(y - 0) : t[k] = s[0 + k]
  BY <1>1, SliceFacts
<1>3. Len(t) = y /\ t[x + 1] = s[x + 1] /\ t[x] = s[x]
  <2>1. x \in 1..(y - 0) /\ x + 1 \in 1..(y - 0) /\ 0 + x = x /\ 0 + (x + 1) = x + 1
    BY <1>1
  <2> HIDE DEF t
  <2> QED
    BY <1>1, <1>2, <2>1
<1>4. ASSUME NEW u \in tokens, NEW p, At(t, u.text, p) PROVE At(s, u.text, p)
  <2>1. p \in Nat /\ At(s, u.text, 0 + p)
    BY <1>1, <1>4, AtSlice DEF TokensOK
  <2> QED
    BY <2>1
<1>5. x \in 1..(Len(t) - 1)
  BY <1>1, <1>3
<1> HIDE DEF t
<1> QED
  BY <1>3, <1>4, <1>5 DEF Clean, t

LEMMA CleanInner ==
    ASSUME NEW s, IsSeq(s), NEW tokens, TokensOK(tokens), NEW a \in Nat, NEW b \in Nat, a < b, b <= Len(s),
           a = 0 \/ Clean(s, tokens, a), b = Len(s) \/ Clean(s, tokens, b),
           NEW x \in Nat, Clean(Slice(s, a, b), tokens, x)
    PROVE  Clean(s, tokens, a + x)
<1> DEFINE t == Slice(s, a, b)
<1>1. Len(s) \in Nat /\ Len(t) = b - a /\ \A k \in 1..(b - a) : t[k] = s[a + k]
  BY SeqFacts, SliceFacts
<1>2. Clean(t, tokens, x)
  OBVIOUS
<1> HIDE DEF t
<1>3. x \in 1..((b - a) - 1) /\ t[x + 1] = Space /\ t[x] # Space
  BY <1>1, <1>2 DEF Clean
<1>4. a + x \in 1..(Len(s) - 1) /\ s[(a + x) + 1] = Space /\ s[a + x] # Space
  <2>1. x \in 1..(b - a) /\ x + 1 \in 1..(b - a) /\ a + (x + 1) = (a + x) + 1 /\ a + x \in 1..(Len(s) - 1)
    BY <1>1, <1>3
  <2>2. t[x + 1] = s[a + (x + 1)] /\ t[x] = s[a + x]
    BY <1>1, <2>1, Zenon
  <2> QED
    BY <1>3, <2>1, <2>2, Zenon
<1>5. ASSUME NEW u \in tokens, NEW p, At(s, u.text, p)
      PROVE  ~(p < a + x /\ a + x < p + Len(u.text)) /\ (u.rstrip => p + Len(u.text) # a + x)
  <2>1. IsSeq(u.text) /\ Len(u.text) \in Nat /\ Len(u.text) > 0 /\ p \in Nat /\ p + Len(u.text) <= Len(s)
    BY <1>5, SeqFacts DEF TokensOK, At
  <2>2. CASE p < a
    <3>1. a # 0
      BY <2>1, <2>2
    <3>2. ~(a < p + Len(u.text))
      BY <1>5, <2>2, <3>1 DEF Clean
    <3> QED
      BY <1>3, <2>1, <3>2
  <2>3. CASE p + Len(u.text) > b
    <3>1. b # Len(s)
      BY <2>1, <2>3
    <3>2. ~(p < b)
      BY <1>5, <2>3, <3>1 DEF Clean
    <3> QED
      BY <1>3, <2>1, <3>2
  <2>4. CASE a <= p /\ p + Len(u.text) <= b
    <3>1. p - a \in Nat /\ a + (p - a) = p
      BY <2>1, <2>4
    <3>2. At(t, u.text, p - a)
      <4> DEFINE q == p - a
                 v == u.text
      <4>1. /\ IsSeq(s) /\ IsSeq(v) /\ a <= b /\ b <= Len(s)
            /\ q \in Nat /\ At(s, v, a + q) /\ a + q + Len(v) <= b
        BY <1>1, <1>5, <2>1, <2>4, <3>1
      <4> HIDE DEF q, v
      <4>2. At(Slice(s, a, b), v, q)
        BY <4>1, AtSlice, Zenon
      <4> QED
        BY <4>2 DEF t, q, v
    <3>3. ~(p - a < x /\ x < (p - a) + Len(u.text)) /\ (u.rstrip => (p - a) + Len(u.text) # x)
      BY <1>2, <3>2 DEF Clean
    <3> QED
      BY <2>1, <2>4, <3>3
  <2> QED
    BY <2>1, <2>2, <2>3, <2>4
<1> QED
  BY <1>4, <1>5 DEF Clean

(* What comes out up to y is what comes out up to x and between the two. *)
PiecesJoin(s, tokens, prefix, x, y) ==
    Pieces(Slice(s, 0, y), tokens, prefix)
    = Pieces(Slice(s, 0, x), tokens, prefix) \o Pieces(Slice(s, x, y), tokens, prefix)
LEMMA CleanJoins ==
    ASSUME NEW s, IsSeq(s), NEW tokens, TokensOK(tokens), NEW prefix, NEW x, Clean(s, tokens, x),
           NEW y \in (x + 1)..Len(s)
    PROVE  PiecesJoin(s, tokens, prefix, x, y)
<1> SUFFICES Pieces(Slice(s, 0, y), tokens, prefix)
             = Pieces(Slice(s, 0, x), tokens, prefix) \o Pieces(Slice(s, x, y), tokens, prefix)
  BY DEF PiecesJoin
<1> DEFINE t == Slice(s, 0, y)
<1>1. Len(s) \in Nat /\ x \in Nat /\ x > 0 /\ y \in Nat /\ 0 \in Nat /\ 0 <= y /\ y <= Len(s) /\ x <= y
      /\ 0 <= x /\ y <= y - 0 /\ x <= y - 0
  BY SeqFacts DEF Clean
<1>2. IsSeq(t) /\ Len(t) = y
  BY <1>1, SliceFacts
<1>3. Slice(t, 0, x) = Slice(s, 0 + 0, 0 + x) /\ Slice(t, x, y) = Slice(s, 0 + x, 0 + y)
  BY <1>1, SliceOfSlice
<1>4. Clean(t, tokens, x)
  BY CleanPrefix
<1>5. 0 + 0 = 0 /\ 0 + x = x /\ 0 + y = y
  BY <1>1
<1> HIDE DEF t
<1>6. Pieces(t, tokens, prefix) = Pieces(Slice(t, 0, x), tokens, prefix) \o Pieces(Slice(t, x, Len(t)), tokens, prefix)
  BY <1>2, <1>4, CleanCut
<1> QED
  BY <1>2, <1>3, <1>5, <1>6 DEF t
-----------------------------------------------------------------------------
(* Ranges that follow one another from a to b, each of them one of `ok`. *)
Tiles(rs, a, b, ok) ==
    /\ IsSeq(rs) /\ Len(rs) > 0 /\ rs[1][1] = a /\ rs[Len(rs)][2] = b
    /\ \A k \in 1..Len(rs) :
          /\ rs[k] \in ok
          /\ rs[k][1] \in Nat /\ rs[k][2] \in Nat /\ a <= rs[k][1] /\ rs[k][1] < rs[k][2] /\ rs[k][2] <= b
          /\ k < Len(rs) => rs[k][2] = rs[k + 1][1]

LEMMA TilesOne ==
    ASSUME NEW a \in Nat, NEW b \in Nat, a < b, NEW ok, <<a, b>> \in ok
    PROVE  Tiles(<<<<a, b>>>>, a, b, ok)
<1> DEFINE r == <<a, b>>
<1>1. r[1] = a /\ r[2] = b /\ r \in ok
  OBVIOUS
<1> HIDE DEF r
<1>2. IsSeq(<<r>>) /\ Len(<<r>>) = 1 /\ <<r>>[1] = r
  BY OneIsSeq
<1>3. \A k \in 1..Len(<<r>>) : k = 1
  BY <1>2
<1> QED
  BY <1>1, <1>2, <1>3 DEF Tiles, r

LEMMA TilesJoin ==
    ASSUME NEW a \in Nat, NEW b \in Nat, NEW c \in Nat, a <= b, b <= c, NEW ok,
           NEW r, Tiles(r, a, b, ok), NEW q, Tiles(q, b, c, ok)
    PROVE  Tiles(r \o q, a, c, ok)
<1> DEFINE t == r \o q
<1>1. IsSeq(r) /\ IsSeq(q) /\ Len(r) \in Nat /\ Len(q) \in Nat /\ Len(r) > 0 /\ Len(q) > 0
  BY SeqFacts DEF Tiles
<1>2. /\ IsSeq(t) /\ Len(t) = Len(r) + Len(q) /\ \A k \in 1..Len(r) : t[k] = r[k]
      /\ \A k \in 1..Len(q) : t[Len(r) + k] = q[k]
  BY <1>1, Joined2
<1> HIDE DEF t
<1>3. t[1] = r[1] /\ t[Len(t)] = q[Len(q)]
  BY <1>1, <1>2
<1>4. ASSUME NEW k \in 1..Len(t)
      PROVE  /\ t[k] \in ok
             /\ t[k][1] \in Nat /\ t[k][2] \in Nat /\ a <= t[k][1] /\ t[k][1] < t[k][2] /\ t[k][2] <= c
             /\ k < Len(t) => t[k][2] = t[k + 1][1]
  <2>1. CASE k \in 1..Len(r)
    <3>1. t[k] = r[k]
      BY <1>2, <2>1
    <3>2. k < Len(r) => t[k + 1] = r[k + 1]
      <4>1. k < Len(r) => k + 1 \in 1..Len(r)
        BY <1>1, <2>1
      <4> QED
        BY <1>2, <4>1
    <3>3. ~(k < Len(r)) => k = Len(r) /\ t[k + 1] = q[1]
      <4>1. 1 \in 1..Len(q)
        BY <1>1
      <4> QED
        BY <1>1, <1>2, <2>1, <4>1
    <3>4. /\ r[k] \in ok /\ r[k][1] \in Nat /\ r[k][2] \in Nat /\ a <= r[k][1] /\ r[k][1] < r[k][2] /\ r[k][2] <= b
          /\ k < Len(r) => r[k][2] = r[k + 1][1]
      BY <2>1 DEF Tiles
    <3>5. r[Len(r)][2] = b /\ q[1][1] = b
      BY DEF Tiles
    <3> QED
      BY <3>1, <3>2, <3>3, <3>4, <3>5
  <2>2. CASE ~(k \in 1..Len(r))
    <3> DEFINE j == k - Len(r)
    <3>1. j \in 1..Len(q) /\ k = Len(r) + j /\ k + 1 = Len(r) + (j + 1) /\ (k < Len(t) => j + 1 \in 1..Len(q) /\ j < Len(q))
      BY <1>1, <1>2, <2>2
    <3> HIDE DEF j
    <3>2. t[k] = q[j] /\ (k < Len(t) => t[k + 1] = q[j + 1])
      BY <1>2, <3>1
    <3>3. /\ q[j] \in ok /\ q[j][1] \in Nat /\ q[j][2] \in Nat /\ b <= q[j][1] /\ q[j][1] < q[j][2] /\ q[j][2] <= c
          /\ j < Len(q) => q[j][2] = q[j + 1][1]
      BY <3>1 DEF Tiles
    <3> QED
      BY <3>1, <3>2, <3>3
  <2> QED
    BY <2>1, <2>2
<1>5. Len(t) > 0 /\ t[1][1] = a /\ t[Len(t)][2] = c
  <2>1. Len(t) > 0
    BY <1>1, <1>2
  <2>2. r[1][1] = a /\ q[Len(q)][2] = c
    BY DEF Tiles
  <2> QED
    BY <1>3, <2>1, <2>2
<1>6. Tiles(t, a, c, ok)
  BY <1>2, <1>4, <1>5, Zenon DEF Tiles
<1> QED
  BY <1>6 DEF t

(* What the ranges of RangesAt are. *)
RangesOK(size, target, safe) ==
    {r \in (0..size) \X (0..size) :
        /\ r[1] = 0 \/ r[1] \in safe
        /\ r[2] = size \/ r[2] \in safe
        /\ \A p \in safe : ~(r[1] + target <= p /\ p < r[2])}

LEMMA RangesTile ==
    ASSUME NEW size \in Nat \ {0}, NEW target \in Nat \ {0}, NEW safe \in SUBSET (1..(size - 1))
    PROVE  Tiles(RangesAt(size, target, safe), 0, size, RangesOK(size, target, safe))
<1> DEFINE ahead(a) == {p \in safe : a + target <= p}
           ok == RangesOK(size, target, safe)
           stop == [a \in 0..size |-> ahead(a) = {}]
           out == [a \in 0..size |-> IF ahead(a) = {} THEN <<<<a, size>>>> ELSE <<<<a, Min(ahead(a))>>>>]
           onto == [a \in 0..size |-> Min(ahead(a))]
           Is(w) == w = [a \in 0..size |->
                           IF ahead(a) = {} THEN <<<<a, size>>>>
                           ELSE <<<<a, Min(ahead(a))>>>> \o w[Min(ahead(a))]]
           from == CHOOSE w : Is(w)
<1>1. ASSUME NEW a \in 0..size, ahead(a) # {}
      PROVE  /\ Min(ahead(a)) \in safe /\ a + target <= Min(ahead(a)) /\ Min(ahead(a)) \in (a + 1)..(size - 1)
             /\ \A p \in safe : a + target <= p => Min(ahead(a)) <= p
  <2> HIDE DEF ok, stop, out, onto, Is, from
  <2>0. \A p \in safe : p \in 1..(size - 1) /\ p \in Nat
    OBVIOUS
  <2>1. ahead(a) \in SUBSET Nat
    BY <2>0
  <2>2. Min(ahead(a)) \in ahead(a) /\ \A y \in ahead(a) : Min(ahead(a)) <= y
    <3> HIDE DEF ahead
    <3> QED
      BY <1>1, <2>1, LeastIs
  <2> DEFINE b == Min(ahead(a))
  <2>3. b \in safe /\ a + target <= b /\ \A p \in safe : a + target <= p => b <= p
    <3>1. \A y : y \in ahead(a) <=> y \in safe /\ a + target <= y
      OBVIOUS
    <3> HIDE DEF ahead
    <3> QED
      BY <2>2, <3>1
  <2> HIDE DEF b
  <2>4. b \in (a + 1)..(size - 1)
    BY <2>0, <2>3
  <2> QED
    BY <2>3, <2>4 DEF b
<1>2. \A a \in 0..size : ~stop[a] => onto[a] \in (a + 1)..size
  <2>1. ASSUME NEW a \in 0..size, ahead(a) # {} PROVE Min(ahead(a)) \in (a + 1)..size
    <3> HIDE DEF ahead
    <3> QED
      BY <1>1, <2>1
  <2> HIDE DEF ahead
  <2> QED
    BY <2>1
<1> HIDE DEF ahead
<1>3. \E w : Is(w)
  <2>1. PICK w : Chain(w, size, stop, out, onto)
    <3> HIDE DEF stop, out, onto
    <3> QED
      BY <1>2, ChainExists
  <2>2. [a \in 0..size |-> IF stop[a] THEN out[a] ELSE out[a] \o w[onto[a]]]
        = [a \in 0..size |-> IF ahead(a) = {} THEN <<<<a, size>>>>
                             ELSE <<<<a, Min(ahead(a))>>>> \o w[Min(ahead(a))]]
    OBVIOUS
  <2>3. Is(w)
    BY <2>1, <2>2 DEF Chain
  <2> QED
    BY <2>3
<1>4. Is(from)
  <2> HIDE DEF Is
  <2> QED
    BY <1>3
<1>5. RangesAt(size, target, safe) = from[0]
  BY DEF RangesAt, ahead
<1> HIDE DEF from
<1>6. \A a \in 0..size : from[a] = IF ahead(a) = {} THEN <<<<a, size>>>>
                                   ELSE <<<<a, Min(ahead(a))>>>> \o from[Min(ahead(a))]
  BY <1>4
<1> HIDE DEF Is, stop, out, onto
<1> DEFINE bad == {a \in 0..(size - 1) : (a = 0 \/ a \in safe) /\ ~Tiles(from[a], a, size, ok)}
<1>7. bad = {}
  <2> SUFFICES ASSUME bad # {} PROVE FALSE
    OBVIOUS
  <2> DEFINE a == Max(bad)
  <2>1. a \in bad /\ \A y \in bad : y <= a
    <3>1. bad \in SUBSET Nat /\ \A y \in bad : y <= size
      OBVIOUS
    <3> HIDE DEF bad
    <3> QED
      BY <3>1, MostIs
  <2>2. a \in 0..(size - 1) /\ (a = 0 \/ a \in safe) /\ ~Tiles(from[a], a, size, ok)
    BY <2>1
  <2> HIDE DEF a
  <2>3. a \in Nat /\ a < size /\ a \in 0..size /\ size \in 0..size
    BY <2>2
  <2>4. CASE ahead(a) = {}
    <3>1. <<a, size>> \in ok
      <4>1. \A p \in safe : ~(a + target <= p)
        BY <2>4 DEF ahead
      <4> QED
        BY <2>2, <2>3, <4>1 DEF RangesOK
    <3> HIDE DEF ok
    <3>2. Tiles(<<<<a, size>>>>, a, size, ok)
      BY <2>3, <3>1, TilesOne
    <3> QED
      BY <1>6, <2>2, <2>3, <2>4, <3>2
  <2>5. CASE ahead(a) # {}
    <3> DEFINE b == Min(ahead(a))
    <3>1. b \in safe /\ a + target <= b /\ b \in (a + 1)..(size - 1) /\ \A p \in safe : a + target <= p => b <= p
      BY <1>1, <2>3, <2>5
    <3>2. from[a] = <<<<a, b>>>> \o from[b]
      BY <1>6, <2>3, <2>5
    <3> HIDE DEF b
    <3>3. b \in Nat /\ b < size /\ a < b /\ b \in 0..size /\ b \in 0..(size - 1)
      BY <2>3, <3>1
    <3>4. <<a, b>> \in ok
      <4>1. \A p \in safe : ~(a + target <= p /\ p < b)
        BY <3>1, <3>3
      <4> QED
        BY <2>2, <2>3, <3>1, <3>3, <4>1 DEF RangesOK
    <3>5. b \notin bad
      <4>1. ~(b <= a)
        BY <2>3, <3>3
      <4> HIDE DEF bad
      <4> QED
        BY <2>1, <4>1
    <3>6. Tiles(from[b], b, size, ok)
      BY <3>1, <3>3, <3>5
    <3> HIDE DEF ok, bad
    <3>7. Tiles(<<<<a, b>>>>, a, b, ok)
      BY <2>3, <3>3, <3>4, TilesOne
    <3>8. Tiles(<<<<a, b>>>> \o from[b], a, size, ok)
      <4> DEFINE one == <<<<a, b>>>>
                 rest == from[b]
      <4>1. Tiles(one, a, b, ok) /\ Tiles(rest, b, size, ok)
        BY <3>6, <3>7
      <4>2. a <= b /\ b <= size /\ size \in Nat
        BY <2>3, <3>3
      <4> HIDE DEF one, rest
      <4>3. Tiles(one \o rest, a, size, ok)
        BY <2>3, <3>3, <4>1, <4>2, TilesJoin
      <4> QED
        BY <4>3 DEF one, rest
    <3> QED
      BY <2>2, <3>2, <3>8
  <2> QED
    BY <2>4, <2>5
<1>8. 0 \in 0..(size - 1)
  OBVIOUS
<1>9. Tiles(from[0], 0, size, ok)
  <2> HIDE DEF ok
  <2> QED
    BY <1>7, <1>8
<1> QED
  BY <1>5, <1>9
-----------------------------------------------------------------------------
(* What has been joined after each of the sequences of ss. *)
JoinedTo(f, ss, n) == f[0] = <<>> /\ \A k \in 1..n : f[k] = f[k - 1] \o ss[k]
Flattens(f, ss) ==
    f = [i \in 1..Len(ss) |-> IF i = 1 THEN ss[i] ELSE f[i - 1] \o ss[i]]
AllSeqs(ss) == IsSeq(ss) /\ \A k \in 1..Len(ss) : IsSeq(ss[k])

LEMMA JoinedExists ==
    ASSUME NEW ss, NEW n \in Nat
    PROVE  \E f : JoinedTo(f, ss, n)
<1> DEFINE bad == {m \in Nat : ~ \E f : JoinedTo(f, ss, m)}
<1>1. bad = {}
  <2> SUFFICES ASSUME bad # {} PROVE FALSE
    OBVIOUS
  <2>1. PICK m \in bad : \A y \in bad : m <= y
    <3>1. bad \in SUBSET Nat
      OBVIOUS
    <3> HIDE DEF bad
    <3> QED
      BY <3>1, LeastNat
  <2>2. m \in Nat /\ ~ \E f : JoinedTo(f, ss, m)
    OBVIOUS
  <2> HIDE DEF bad
  <2>3. CASE m = 0
    <3> DEFINE f == [k \in {0} |-> <<>>]
    <3>1. f[0] = <<>> /\ 1..m = {}
      BY <2>3
    <3> HIDE DEF f
    <3>2. JoinedTo(f, ss, m)
      BY <3>1 DEF JoinedTo
    <3> QED
      BY <2>2, <3>2
  <2>4. CASE m # 0
    <3>1. m - 1 \in Nat /\ m - 1 \notin bad
      BY <2>1, <2>2, <2>4
    <3>2. PICK h : JoinedTo(h, ss, m - 1)
      BY <3>1 DEF bad
    <3> DEFINE f == [k \in 0..m |-> IF k = m THEN h[m - 1] \o ss[m] ELSE h[k]]
    <3>3. f[0] = <<>>
      BY <2>2, <2>4, <3>2 DEF JoinedTo
    <3>4. ASSUME NEW k \in 1..m PROVE f[k] = f[k - 1] \o ss[k]
      <4>1. k - 1 \in 0..m /\ k - 1 # m /\ k \in 0..m
        BY <2>2
      <4>2. k # m => k \in 1..(m - 1)
        BY <2>2
      <4>3. f[k - 1] = h[k - 1]
        BY <4>1
      <4>4. f[k] = IF k = m THEN h[m - 1] \o ss[m] ELSE h[k]
        BY <4>1
      <4> HIDE DEF f
      <4> QED
        BY <3>2, <4>2, <4>3, <4>4 DEF JoinedTo
    <3> HIDE DEF f
    <3>5. JoinedTo(f, ss, m)
      BY <3>3, <3>4 DEF JoinedTo
    <3> QED
      BY <2>2, <3>5
  <2> QED
    BY <2>3, <2>4
<1> QED
  BY <1>1

(* Two such functions agree where the sequences do. *)
LEMMA JoinedAgree ==
    ASSUME NEW ss, NEW tt, NEW n \in Nat, NEW f, JoinedTo(f, ss, n), NEW g, JoinedTo(g, tt, n),
           \A k \in 1..n : ss[k] = tt[k]
    PROVE  \A k \in 0..n : f[k] = g[k]
<1> DEFINE bad == {k \in 0..n : f[k] # g[k]}
<1> SUFFICES ASSUME bad # {} PROVE FALSE
  OBVIOUS
<1>1. PICK k \in bad : \A y \in bad : k <= y
  <2>1. bad \in SUBSET Nat
    OBVIOUS
  <2> HIDE DEF bad
  <2> QED
    BY <2>1, LeastNat
<1>2. k \in 0..n /\ f[k] # g[k]
  OBVIOUS
<1>3. k # 0
  BY <1>2 DEF JoinedTo
<1>4. k - 1 \in 0..n /\ k - 1 \notin bad /\ k \in 1..n
  <2> HIDE DEF bad
  <2> QED
    BY <1>1, <1>2, <1>3
<1> QED
  BY <1>2, <1>4 DEF JoinedTo

LEMMA JoinedIsSeq ==
    ASSUME NEW ss, NEW n \in Nat, NEW f, JoinedTo(f, ss, n), \A k \in 1..n : IsSeq(ss[k])
    PROVE  \A k \in 0..n : IsSeq(f[k])
<1> DEFINE bad == {k \in 0..n : ~IsSeq(f[k])}
<1> SUFFICES ASSUME bad # {} PROVE FALSE
  OBVIOUS
<1>1. PICK k \in bad : \A y \in bad : k <= y
  <2>1. bad \in SUBSET Nat
    OBVIOUS
  <2> HIDE DEF bad
  <2> QED
    BY <2>1, LeastNat
<1>2. k \in 0..n /\ ~IsSeq(f[k])
  OBVIOUS
<1>3. k # 0
  BY <1>2, EmptyJoin DEF JoinedTo
<1>4. k - 1 \in 0..n /\ k - 1 \notin bad /\ k \in 1..n
  <2> HIDE DEF bad
  <2> QED
    BY <1>1, <1>2, <1>3
<1>5. IsSeq(f[k - 1]) /\ IsSeq(ss[k]) /\ f[k] = f[k - 1] \o ss[k]
  BY <1>4 DEF JoinedTo
<1> QED
  BY <1>2, <1>5, Joined2

(* FlattenSeq is what has been joined at the end. *)
LEMMA FlattenIs ==
    ASSUME NEW ss, AllSeqs(ss), NEW f, JoinedTo(f, ss, Len(ss))
    PROVE  FlattenSeq(ss) = f[Len(ss)] /\ IsSeq(FlattenSeq(ss))
<1> DEFINE n == Len(ss)
           g == CHOOSE g : Flattens(g, ss)
           h == [k \in 1..n |-> f[k]]
<1>1. n \in Nat /\ \A k \in 1..n : IsSeq(ss[k])
  BY SeqFacts DEF AllSeqs
<1>2. \A k \in 0..n : IsSeq(f[k])
  BY <1>1, JoinedIsSeq
<1>3. ASSUME n = 0 PROVE FlattenSeq(ss) = f[n]
  <2>1. ss = <<>>
    BY <1>3, EmptyJoin, SameSeq DEF AllSeqs
  <2>2. FlattenSeq(ss) = ss
    BY <1>3 DEF FlattenSeq
  <2> QED
    BY <1>3, <2>1, <2>2 DEF JoinedTo
<1>4. ASSUME n # 0 PROVE FlattenSeq(ss) = f[n]
  <2>1. ASSUME NEW i \in 1..n PROVE h[i] = IF i = 1 THEN ss[i] ELSE h[i - 1] \o ss[i]
    <3>1. CASE i = 1
      <4>1. f[1] = f[0] \o ss[1]
        <5>1. 1 \in 1..n /\ 1 - 1 = 0
          BY <1>1, <1>4
        <5> QED
          BY <5>1 DEF JoinedTo
      <4>2. <<>> \o ss[1] = ss[1]
        BY <1>1, <2>1, <3>1, EmptyJoin
      <4> QED
        BY <2>1, <3>1, <4>1, <4>2 DEF JoinedTo
    <3>2. CASE i # 1
      <4>1. i - 1 \in 1..n
        BY <1>1, <2>1, <3>2
      <4> QED
        BY <2>1, <3>2, <4>1 DEF JoinedTo
    <3> QED
      BY <3>1, <3>2
  <2>2. h = [i \in 1..n |-> h[i]]
    OBVIOUS
  <2>3. Flattens(h, ss)
    <3> HIDE DEF h
    <3>1. [i \in 1..n |-> h[i]] = [i \in 1..n |-> IF i = 1 THEN ss[i] ELSE h[i - 1] \o ss[i]]
      BY <2>1
    <3> QED
      BY <2>2, <3>1 DEF Flattens
  <2>4. Flattens(g, ss)
    <3> HIDE DEF h
    <3> QED
      BY <2>3
  <2>5. FlattenSeq(ss) = g[n]
    BY <1>4 DEF FlattenSeq, Flattens
  <2> HIDE DEF g
  <2> DEFINE e == [k \in 0..n |-> IF k = 0 THEN <<>> ELSE g[k]]
  <2>6. JoinedTo(e, ss, n)
    <3>1. e[0] = <<>>
      BY <1>1
    <3>2. ASSUME NEW k \in 1..n PROVE e[k] = e[k - 1] \o ss[k]
      <4>1. k \in 0..n /\ k - 1 \in 0..n /\ k # 0
        BY <1>1
      <4>2. g[k] = IF k = 1 THEN ss[k] ELSE g[k - 1] \o ss[k]
        BY <2>4 DEF Flattens
      <4>3. <<>> \o ss[k] = ss[k]
        BY <1>1, EmptyJoin
      <4>4. e[k] = g[k] /\ e[k - 1] = IF k = 1 THEN <<>> ELSE g[k - 1]
        BY <4>1
      <4> HIDE DEF e
      <4> QED
        BY <4>2, <4>3, <4>4
    <3> HIDE DEF e
    <3> QED
      BY <3>1, <3>2 DEF JoinedTo
  <2>7. e[n] = g[n] /\ n \in 0..n
    BY <1>1, <1>4
  <2> HIDE DEF e
  <2>8. f[n] = e[n]
    BY <1>1, <2>6, <2>7, JoinedAgree
  <2> QED
    BY <2>5, <2>7, <2>8
<1>5. n \in 0..n
  BY <1>1
<1> QED
  BY <1>2, <1>3, <1>4, <1>5

LEMMA FlattenJoins ==
    ASSUME NEW ss, AllSeqs(ss), NEW tt, AllSeqs(tt)
    PROVE  /\ AllSeqs(ss \o tt) /\ IsSeq(FlattenSeq(ss)) /\ IsSeq(FlattenSeq(tt))
           /\ FlattenSeq(ss \o tt) = FlattenSeq(ss) \o FlattenSeq(tt)
<1> DEFINE n == Len(ss)
           m == Len(tt)
           uu == ss \o tt
<1>1. n \in Nat /\ m \in Nat
  BY SeqFacts DEF AllSeqs
<1>2. /\ IsSeq(uu) /\ Len(uu) = n + m /\ \A k \in 1..n : uu[k] = ss[k]
      /\ \A k \in 1..m : uu[n + k] = tt[k]
  BY Joined2 DEF AllSeqs
<1> HIDE DEF uu
<1>3. AllSeqs(uu)
  <2>1. ASSUME NEW k \in 1..(n + m) PROVE IsSeq(uu[k])
    <3>1. k \in 1..n \/ (k - n \in 1..m /\ n + (k - n) = k)
      BY <1>1
    <3> QED
      BY <1>2, <3>1 DEF AllSeqs
  <2> QED
    BY <1>2, <2>1 DEF AllSeqs
<1>4. PICK f : JoinedTo(f, ss, n)
  BY <1>1, JoinedExists
<1>5. PICK g : JoinedTo(g, tt, m)
  BY <1>1, JoinedExists
<1>6. FlattenSeq(ss) = f[n] /\ IsSeq(f[n]) /\ FlattenSeq(tt) = g[m] /\ IsSeq(g[m])
  BY <1>4, <1>5, FlattenIs
<1>7. \A k \in 0..m : IsSeq(g[k])
  BY <1>1, <1>5, JoinedIsSeq DEF AllSeqs
<1> DEFINE h == [k \in 0..(n + m) |-> IF k <= n THEN f[k] ELSE f[n] \o g[k - n]]
<1>8. JoinedTo(h, uu, n + m)
  <2>1. h[0] = <<>>
    BY <1>1, <1>4 DEF JoinedTo
  <2>2. ASSUME NEW k \in 1..(n + m) PROVE h[k] = h[k - 1] \o uu[k]
    <3>1. k \in 0..(n + m) /\ k - 1 \in 0..(n + m)
      BY <1>1
    <3>2. h[k] = (IF k <= n THEN f[k] ELSE f[n] \o g[k - n])
          /\ h[k - 1] = (IF k - 1 <= n THEN f[k - 1] ELSE f[n] \o g[(k - 1) - n])
      BY <3>1
    <3> HIDE DEF h
    <3>3. CASE k <= n
      <4>1. k \in 1..n /\ k - 1 <= n
        BY <1>1, <3>3
      <4> QED
        BY <1>2, <1>4, <3>2, <3>3, <4>1 DEF JoinedTo
    <3>4. CASE ~(k <= n)
      <4> DEFINE j == k - n
                 a == f[n]
                 b == g[j - 1]
                 c == tt[j]
      <4>1. j \in 1..m /\ n + j = k /\ j - 1 \in 0..m /\ (k - 1) - n = j - 1
        BY <1>1, <3>4
      <4> HIDE DEF j
      <4>2. g[j] = g[j - 1] \o tt[j] /\ uu[k] = tt[j] /\ g[0] = <<>>
        BY <1>2, <1>5, <4>1 DEF JoinedTo
      <4>3. IsSeq(a) /\ IsSeq(b) /\ IsSeq(c)
        BY <1>6, <1>7, <4>1 DEF AllSeqs
      <4> HIDE DEF a, b, c
      <4>4. (a \o b) \o c = a \o (b \o c) /\ a \o <<>> = a
        BY <4>3, Rejoined, EmptyJoin
      <4>5. h[k] = a \o (b \o c)
        BY <3>2, <3>4, <4>2 DEF j, a, b, c
      <4>6. h[k - 1] = a \o b
        <5>1. CASE k - 1 <= n
          <6>1. k - 1 = n /\ j - 1 = 0
            BY <1>1, <3>4, <4>1, <5>1
          <6> QED
            BY <3>2, <4>2, <4>4, <5>1, <6>1 DEF a, b
        <5>2. CASE ~(k - 1 <= n)
          BY <3>2, <4>1, <5>2 DEF a, b
        <5> QED
          BY <5>1, <5>2
      <4> QED
        BY <4>2, <4>4, <4>5, <4>6 DEF c
    <3> QED
      BY <3>3, <3>4
  <2> HIDE DEF h
  <2> QED
    BY <2>1, <2>2 DEF JoinedTo
<1>9. h[n + m] = f[n] \o g[m]
  <2>1. n + m \in 0..(n + m) /\ (n + m) - n = m /\ (n + m <= n => m = 0 /\ n + m = n)
    BY <1>1
  <2>2. h[n + m] = IF n + m <= n THEN f[n + m] ELSE f[n] \o g[(n + m) - n]
    BY <2>1
  <2> HIDE DEF h
  <2>3. f[n] \o <<>> = f[n] /\ g[0] = <<>>
    BY <1>5, <1>6, EmptyJoin DEF JoinedTo
  <2> QED
    BY <2>1, <2>2, <2>3
<1> HIDE DEF h
<1>10. FlattenSeq(uu) = h[n + m]
  BY <1>2, <1>3, <1>8, FlattenIs
<1> QED
  BY <1>3, <1>6, <1>9, <1>10 DEF uu

LEMMA FlattenOne ==
    ASSUME NEW s, IsSeq(s)
    PROVE  AllSeqs(<<s>>) /\ FlattenSeq(<<s>>) = s
<1> DEFINE f == [k \in 0..1 |-> IF k = 0 THEN <<>> ELSE s]
           ss == <<s>>
<1>1. IsSeq(ss) /\ Len(ss) = 1 /\ ss[1] = s
  BY OneIsSeq
<1> HIDE DEF ss
<1>2. AllSeqs(ss)
  BY <1>1 DEF AllSeqs
<1>3. f[0] = <<>> /\ f[1] = s /\ <<>> \o s = s
  BY EmptyJoin
<1> HIDE DEF f
<1>4. \A k \in 1..1 : k = 1 /\ k - 1 = 0
  OBVIOUS
<1>5. JoinedTo(f, ss, Len(ss))
  BY <1>1, <1>3, <1>4 DEF JoinedTo
<1>6. FlattenSeq(ss) = f[1]
  BY <1>1, <1>2, <1>5, FlattenIs
<1> QED
  BY <1>2, <1>3, <1>6 DEF ss

LEMMA FlattenNone == AllSeqs(<<>>) /\ FlattenSeq(<<>>) = <<>>
<1>1. Len(<<>>) = 0 /\ IsSeq(<<>>) /\ 1..0 = {}
  BY EmptyJoin
<1> QED
  BY <1>1 DEF AllSeqs, FlattenSeq

LEMMA TilesFlatten ==
    ASSUME NEW n \in Nat, NEW any, NEW big, Tiles(big, 0, n, any), NEW ok,
           NEW ss, IsSeq(ss), Len(ss) = Len(big),
           \A k \in 1..Len(big) : Tiles(ss[k], big[k][1], big[k][2], ok)
    PROVE  Tiles(FlattenSeq(ss), 0, n, ok)
<1>1. Len(big) \in Nat /\ Len(big) > 0 /\ AllSeqs(ss)
  BY SeqFacts DEF Tiles, AllSeqs
<1>2. PICK f : JoinedTo(f, ss, Len(big))
  BY <1>1, JoinedExists
<1>3. FlattenSeq(ss) = f[Len(big)]
  BY <1>1, <1>2, FlattenIs
<1> DEFINE bad == {k \in 1..Len(big) : ~Tiles(f[k], 0, big[k][2], ok)}
<1>4. bad = {}
  <2> SUFFICES ASSUME bad # {} PROVE FALSE
    OBVIOUS
  <2>1. PICK k \in bad : \A y \in bad : k <= y
    <3>1. bad \in SUBSET Nat
      OBVIOUS
    <3> HIDE DEF bad
    <3> QED
      BY <3>1, LeastNat
  <2>2. k \in 1..Len(big) /\ ~Tiles(f[k], 0, big[k][2], ok)
    OBVIOUS
  <2>3. /\ Tiles(ss[k], big[k][1], big[k][2], ok) /\ f[k] = f[k - 1] \o ss[k]
        /\ big[k][1] \in Nat /\ big[k][2] \in Nat /\ big[k][1] < big[k][2]
    BY <1>2, <2>2 DEF JoinedTo, Tiles
  <2>4. CASE k = 1
    <3>1. big[k][1] = 0
      BY <2>4 DEF Tiles
    <3>2. f[0] = <<>> /\ k - 1 = 0 /\ <<>> \o ss[k] = ss[k]
      <4>1. f[0] = <<>>
        BY <1>2, Zenon DEF JoinedTo
      <4>2. IsSeq(ss[k])
        BY <2>3, Zenon DEF Tiles
      <4>3. <<>> \o ss[k] = ss[k]
        BY <4>2, EmptyJoin, Zenon
      <4>4. k - 1 = 0
        BY <2>4
      <4> QED
        BY <4>1, <4>3, <4>4, Zenon
    <3> QED
      BY <2>2, <2>3, <3>1, <3>2
  <2>5. CASE k # 1
    <3>1. k - 1 \in 1..Len(big) /\ k - 1 \notin bad /\ k - 1 < Len(big) /\ (k - 1) + 1 = k
      <4> HIDE DEF bad
      <4> QED
        BY <1>1, <2>1, <2>2, <2>5
    <3>2. Tiles(f[k - 1], 0, big[k - 1][2], ok) /\ big[k - 1][2] = big[k][1]
      <4>1. Tiles(f[k - 1], 0, big[k - 1][2], ok)
        BY <3>1, Zenon
      <4> DEFINE h == k - 1
      <4>2. h \in 1..Len(big) /\ h < Len(big) /\ h + 1 = k
        BY <3>1
      <4> HIDE DEF h
      <4>3. big[h][2] = big[h + 1][1]
        BY <4>2, Zenon DEF Tiles
      <4> QED
        BY <4>1, <4>2, <4>3 DEF h
    <3> DEFINE a == f[k - 1]
               b == ss[k]
               x == big[k][1]
               y == big[k][2]
    <3>3. Tiles(a, 0, x, ok) /\ Tiles(b, x, y, ok) /\ x \in Nat /\ y \in Nat /\ 0 <= x /\ x <= y /\ 0 \in Nat
      BY <2>3, <3>2
    <3> HIDE DEF a, b, x, y, bad
    <3>4. Tiles(a \o b, 0, y, ok)
      BY <3>3, TilesJoin
    <3> QED
      BY <2>2, <2>3, <3>4 DEF a, b, y
  <2> QED
    BY <2>4, <2>5
<1>5. Len(big) \in 1..Len(big) /\ big[Len(big)][2] = n
  BY <1>1 DEF Tiles
<1>6. Tiles(f[Len(big)], 0, big[Len(big)][2], ok)
  BY <1>4, <1>5
<1> QED
  BY <1>3, <1>5, <1>6

LEMMA TilesWeaken ==
    ASSUME NEW a, NEW b, NEW ok, NEW more, NEW rs, Tiles(rs, a, b, ok),
           \A k \in 1..Len(rs) : rs[k] \in ok => rs[k] \in more
    PROVE  Tiles(rs, a, b, more)
BY DEF Tiles

LEMMA TilesShift ==
    ASSUME NEW a \in Nat, NEW n \in Nat, NEW ok, NEW cut, Tiles(cut, 0, n, ok), NEW more,
           \A k \in 1..Len(cut) : <<a + cut[k][1], a + cut[k][2]>> \in more
    PROVE  Tiles([k \in DOMAIN cut |-> <<a + cut[k][1], a + cut[k][2]>>], a, a + n, more)
<1> DEFINE rs == [k \in DOMAIN cut |-> <<a + cut[k][1], a + cut[k][2]>>]
<1>1. IsSeq(cut) /\ Len(cut) \in Nat /\ Len(cut) > 0 /\ DOMAIN cut = 1..Len(cut)
  BY SeqFacts DEF Tiles
<1>2. DOMAIN rs = 1..Len(cut) /\ rs = [k \in 1..Len(cut) |-> rs[k]]
      /\ \A k \in 1..Len(cut) : rs[k] = <<a + cut[k][1], a + cut[k][2]>>
  BY <1>1
<1> HIDE DEF rs
<1>3. IsSeq(rs) /\ Len(rs) = Len(cut)
  BY <1>1, <1>2, FunSeq
<1>4. \A k \in 1..Len(cut) : rs[k][1] = a + cut[k][1] /\ rs[k][2] = a + cut[k][2] /\ rs[k] \in more
  <2>1. ASSUME NEW k \in 1..Len(cut)
        PROVE  rs[k][1] = a + cut[k][1] /\ rs[k][2] = a + cut[k][2] /\ rs[k] \in more
    <3>1. rs[k] = <<a + cut[k][1], a + cut[k][2]>> /\ <<a + cut[k][1], a + cut[k][2]>> \in more
      BY <1>2
    <3> QED
      BY <3>1
  <2> QED
    BY <2>1
<1>5. \A k \in 1..Len(cut) :
          /\ cut[k][1] \in Nat /\ cut[k][2] \in Nat /\ 0 <= cut[k][1] /\ cut[k][1] < cut[k][2] /\ cut[k][2] <= n
          /\ k < Len(cut) => cut[k][2] = cut[k + 1][1]
  BY DEF Tiles
<1>6. rs[1][1] = a /\ rs[Len(rs)][2] = a + n
  <2>1. 1 \in 1..Len(cut) /\ Len(cut) \in 1..Len(cut) /\ cut[1][1] = 0 /\ cut[Len(cut)][2] = n
    BY <1>1 DEF Tiles
  <2> QED
    BY <1>3, <1>4, <2>1
<1>7. ASSUME NEW k \in 1..Len(rs)
      PROVE  /\ rs[k] \in more
             /\ rs[k][1] \in Nat /\ rs[k][2] \in Nat /\ a <= rs[k][1] /\ rs[k][1] < rs[k][2] /\ rs[k][2] <= a + n
             /\ k < Len(rs) => rs[k][2] = rs[k + 1][1]
  <2>1. k \in 1..Len(cut) /\ (k < Len(cut) => k + 1 \in 1..Len(cut))
    BY <1>1, <1>3
  <2>2. /\ cut[k][1] \in Nat /\ cut[k][2] \in Nat /\ cut[k][1] < cut[k][2] /\ cut[k][2] <= n
        /\ k < Len(cut) => cut[k][2] = cut[k + 1][1]
    BY <1>5, <2>1
  <2>3. rs[k][1] = a + cut[k][1] /\ rs[k][2] = a + cut[k][2] /\ rs[k] \in more
    BY <1>4, <2>1
  <2>4. k < Len(cut) => rs[k + 1][1] = a + cut[k + 1][1]
    BY <1>4, <2>1
  <2> QED
    BY <1>3, <2>2, <2>3, <2>4
<1> QED
  BY <1>1, <1>3, <1>6, <1>7 DEF Tiles, rs
-----------------------------------------------------------------------------
(* A place that is safe in the text is safe in a part of it. *)
LEMMA SafeInner ==
    ASSUME NEW s, IsSeq(s), NEW tokens, TokensOK(tokens), Findable(tokens),
           NEW a \in Nat, NEW b \in Nat, a < b, b <= Len(s),
           NEW p \in 1..((b - a) - 2), SafeAt(s, tokens, a + p)
    PROVE  SafeAt(Slice(s, a, b), tokens, p)
<1> DEFINE t == Slice(s, a, b)
<1>1. Len(s) \in Nat /\ p \in Nat /\ a <= b
  BY SeqFacts
<1>2. IsSeq(t) /\ Len(t) = b - a /\ \A k \in 1..(b - a) : t[k] = s[a + k]
  BY <1>1, SliceFacts
<1>3. t = Slice(s, a, b)
  OBVIOUS
<1> HIDE DEF t
<1>4. t[p + 1] = s[(a + p) + 1] /\ t[p] = s[a + p] /\ t[p + 2] = s[(a + p) + 2]
  <2>1. /\ p \in 1..(b - a) /\ p + 1 \in 1..(b - a) /\ p + 2 \in 1..(b - a)
        /\ a + (p + 1) = (a + p) + 1 /\ a + (p + 2) = (a + p) + 2
    BY <1>1
  <2> QED
    BY <1>2, <2>1
<1>5. ~CutsAddedToken(t, tokens, p)
  <2> SUFFICES ASSUME CutsAddedToken(t, tokens, p) PROVE FALSE
    OBVIOUS
  <2> DEFINE long == Longest(Blockers(tokens))
             reach == Max({0, long - 1})
             lo == Max({0, p - reach})
             hi == Min({Len(t), p + reach})
  <2>1. PICK w \in Blockers(tokens) : \E x \in FindIter(t, w, lo, hi) : x < p /\ x + Len(w) > p
    BY DEF CutsAddedToken
  <2>2. PICK x \in FindIter(t, w, lo, hi) : x < p /\ x + Len(w) > p
    BY <2>1
  <2>3. IsSeq(w) /\ Len(w) \in Nat /\ long \in Nat
    BY LongestIs
  <2> HIDE DEF long
  <2>4. reach = (IF 0 >= long - 1 THEN 0 ELSE long - 1)
    BY <2>3, MaxTwo
  <2> HIDE DEF reach
  <2>5. reach \in Nat
    BY <2>3, <2>4
  <2>6. lo = (IF 0 >= p - reach THEN 0 ELSE p - reach) /\ hi = (IF Len(t) <= p + reach THEN Len(t) ELSE p + reach)
    BY <1>2, <1>1, <2>5, MaxTwo, MinTwo
  <2>7. x \in Hits(t, w, lo, hi)
    <3> HIDE DEF lo, hi
    <3> QED
      BY <2>2 DEF FindIter
  <2> HIDE DEF lo, hi
  <2>8. lo \in Nat /\ hi \in Nat /\ hi <= Len(t)
    BY <1>2, <1>1, <2>5, <2>6
  <2>9. At(t, w, x)
    BY <1>2, <2>3, <2>7, <2>8, HitsAre
  <2>10. x \in Nat /\ At(s, w, a + x)
    BY <1>3, <2>3, <2>9, AtSlice
  <2>11. a + x < a + p /\ a + p < (a + x) + Len(w) /\ a + p \in Nat
    BY <1>1, <2>2, <2>3, <2>10
  <2>12. CutsAddedToken(s, tokens, a + p)
    BY <2>10, <2>11, StraddleFound
  <2> QED
    BY <2>12 DEF SafeAt
<1>6. ~EndsRstripToken(t, tokens, p)
  <2> SUFFICES ASSUME EndsRstripToken(t, tokens, p) PROVE FALSE
    OBVIOUS
  <2>1. PICK u \in EndBlockers(tokens) : Len(u.text) <= p /\ Slice(t, p - Len(u.text), p) = u.text
    BY DEF EndsRstripToken
  <2>2. u \in tokens /\ Len(u.text) \in Nat
    BY SeqFacts DEF EndBlockers, TokensOK
  <2>3. p - Len(u.text) \in Nat /\ p - Len(u.text) <= p /\ p <= b - a
    BY <1>1, <2>1, <2>2
  <2>4. Slice(t, p - Len(u.text), p) = Slice(s, a + (p - Len(u.text)), a + p)
    <3> DEFINE e == p - Len(u.text)
    <3>1. e \in Nat /\ e <= p /\ p <= b - a
      BY <2>3
    <3> HIDE DEF e
    <3>2. Slice(Slice(s, a, b), e, p) = Slice(s, a + e, a + p)
      BY <1>1, <3>1, SliceOfSlice
    <3> QED
      BY <1>3, <3>2 DEF e
  <2>5. a + (p - Len(u.text)) = (a + p) - Len(u.text) /\ Len(u.text) <= a + p
    BY <1>1, <2>1, <2>2
  <2> QED
    BY <2>1, <2>4, <2>5 DEF SafeAt, EndsRstripToken
<1> QED
  BY <1>4, <1>5, <1>6 DEF SafeAt, t

(* The ranges of safe_split_ranges over a part of a text that ends at clean cuts. *)
SplitOK(s, tokens, size) ==
    {r \in (0..Len(s)) \X (0..Len(s)) :
        /\ r[1] = 0 \/ Clean(s, tokens, r[1])
        /\ r[2] = Len(s) \/ Clean(s, tokens, r[2])
        /\ \A p \in (r[1] + size)..(r[2] - 2) : ~SafeAt(s, tokens, p)}

LEMMA SplitTiles ==
    ASSUME NEW s, IsSeq(s), NEW tokens, TokensOK(tokens), Findable(tokens),
           NEW a \in Nat, NEW b \in Nat, a < b, b <= Len(s),
           a = 0 \/ Clean(s, tokens, a), b = Len(s) \/ Clean(s, tokens, b), NEW size \in Nat \ {0},
           NEW cut, cut = SafeSplitRanges(Slice(s, a, b), tokens, size)
    PROVE  Tiles([k \in DOMAIN cut |-> <<a + cut[k][1], a + cut[k][2]>>], a, b, SplitOK(s, tokens, size))
<1> DEFINE t == Slice(s, a, b)
           n == b - a
           safe == {p \in size..(n - 2) : SafeAt(t, tokens, p)}
<1>1. IsSeq(t) /\ Len(t) = n /\ n \in Nat \ {0} /\ Len(s) \in Nat /\ a + n = b
  BY SliceFacts, SeqFacts
<1>2. t = Slice(s, a, b)
  OBVIOUS
<1>3. cut = RangesAt(n, size, safe)
  BY <1>1 DEF SafeSplitRanges
<1> HIDE DEF t, n
<1>4. \A p : p \in safe <=> p \in size..(n - 2) /\ SafeAt(t, tokens, p)
  OBVIOUS
<1> HIDE DEF safe
<1>5. safe \in SUBSET (1..(n - 1)) /\ \A p \in safe : p \in 1..(n - 2) /\ p \in Nat
  BY <1>1, <1>4
<1>6. Tiles(cut, 0, n, RangesOK(n, size, safe))
  BY <1>1, <1>3, <1>5, RangesTile
<1>7. ASSUME NEW p \in safe PROVE Clean(s, tokens, a + p)
  <2>1. p \in 1..(Len(t) - 2) /\ SafeAt(t, tokens, p) /\ p \in Nat
    BY <1>1, <1>4, <1>5
  <2>2. Clean(t, tokens, p)
    BY <1>1, <2>1, SafeIsClean
  <2> QED
    BY <1>2, <2>1, <2>2, CleanInner
<1>8. ASSUME NEW k \in 1..Len(cut) PROVE <<a + cut[k][1], a + cut[k][2]>> \in SplitOK(s, tokens, size)
  <2> DEFINE x == cut[k][1]
             y == cut[k][2]
  <2>1. cut[k] \in RangesOK(n, size, safe) /\ x \in Nat /\ y \in Nat /\ x < y /\ y <= n
    BY <1>6 DEF Tiles
  <2>2. /\ x = 0 \/ x \in safe
        /\ y = n \/ y \in safe
        /\ \A p \in safe : ~(x + size <= p /\ p < y)
    BY <2>1 DEF RangesOK
  <2> HIDE DEF x, y
  <2>3. a + x = 0 \/ Clean(s, tokens, a + x)
    BY <1>7, <2>2
  <2>4. a + y = Len(s) \/ Clean(s, tokens, a + y)
    BY <1>1, <1>7, <2>2
  <2>5. ASSUME NEW p \in ((a + x) + size)..((a + y) - 2), SafeAt(s, tokens, p) PROVE FALSE
    <3> DEFINE q == p - a
    <3>1. q \in size..(n - 2) /\ q \in 1..((b - a) - 2) /\ a + q = p /\ x + size <= q /\ q < y
      BY <1>1, <2>1 DEF n
    <3> HIDE DEF q
    <3>2. SafeAt(t, tokens, q)
      BY <1>2, <2>5, <3>1, SafeInner
    <3>3. q \in safe
      BY <1>4, <3>1, <3>2
    <3> QED
      BY <2>2, <3>1, <3>3
  <2>6. a + x \in 0..Len(s) /\ a + y \in 0..Len(s)
    BY <1>1, <2>1
  <2> DEFINE r == <<a + x, a + y>>
  <2>7. r[1] = a + x /\ r[2] = a + y /\ r \in (0..Len(s)) \X (0..Len(s))
    BY <2>6
  <2> HIDE DEF r
  <2>8. r \in SplitOK(s, tokens, size)
    BY <2>3, <2>4, <2>5, <2>7 DEF SplitOK
  <2> QED
    BY <2>8 DEF r, x, y
<1>9. Tiles([k \in DOMAIN cut |-> <<a + cut[k][1], a + cut[k][2]>>], a, a + n, SplitOK(s, tokens, size))
  BY <1>1, <1>6, <1>8, TilesShift
<1> QED
  BY <1>1, <1>9
-----------------------------------------------------------------------------
LEMMA TextIsSeq == ASSUME NEW s, IsText(s) PROVE IsSeq(s)
BY DEF IsText, IsSeq

LEMMA InputFacts ==
    ASSUME input \in Inputs
    PROVE  /\ IsSeq(Docs) /\ Len(Docs) \in Nat /\ DOMAIN Docs = 1..Len(Docs)
           /\ \A d \in 1..Len(Docs) : IsSeq(Docs[d]) /\ DocLen(d) \in Nat /\ DocLen(d) = Len(Docs[d])
           /\ Target \in Nat \ {0} /\ FragBig \in Nat \ {0} /\ TailTarget \in Nat \ {0}
           /\ TokensOK(input.tokens) /\ input.lpt \in BOOLEAN
           /\ SentencePiece => ~input.lpt /\ ~input.prefix
<1>1. IsInput(input)
  BY InputsAssumption
<1>2. IsSeq(Docs) /\ Len(Docs) \in Nat /\ DOMAIN Docs = 1..Len(Docs)
  BY <1>1, TextIsSeq, SeqFacts DEF IsInput, Docs
<1>3. \A d \in 1..Len(Docs) : IsSeq(Docs[d]) /\ DocLen(d) \in Nat /\ DocLen(d) = Len(Docs[d])
  <2>1. ASSUME NEW d \in 1..Len(Docs) PROVE IsSeq(Docs[d]) /\ DocLen(d) \in Nat /\ DocLen(d) = Len(Docs[d])
    <3>1. IsText(Docs[d])
      BY <1>1, <1>2 DEF IsInput, Docs
    <3> QED
      BY <3>1, TextIsSeq, SeqFacts DEF DocLen
  <2> QED
    BY <2>1
<1>4. input.target \in Nat \ {0} /\ input.lpt \in BOOLEAN /\ (SentencePiece => ~input.lpt /\ ~input.prefix)
  BY <1>1, MinChunkAssumption DEF IsInput, SentencePiece
<1>5. Target \in Nat \ {0} /\ FragBig \in Nat \ {0}
  BY <1>4 DEF Target, FragBig, GroupBig
<1>6. TailTarget \in Nat \ {0}
  <2>1. Target \div 4 \in Nat /\ MinChunk \in Nat \ {0}
    BY <1>5, MinChunkAssumption
  <2>2. Max({Target \div 4, MinChunk}) = IF Target \div 4 >= MinChunk THEN Target \div 4 ELSE MinChunk
    BY <2>1, MaxTwo
  <2>3. Max({Target \div 4, MinChunk}) \in Nat \ {0}
    BY <2>1, <2>2
  <2> QED
    BY <1>5, <2>3 DEF TailTarget
<1>7. TokensOK(input.tokens)
  <2>1. IsFiniteSet(input.tokens) /\ \A t, u \in input.tokens : t.text = u.text => t = u
    BY <1>1 DEF IsInput
  <2>2. ASSUME NEW t \in input.tokens PROVE IsSeq(t.text) /\ Len(t.text) > 0
    <3>1. IsText(t.text) /\ t.text # <<>>
      BY <1>1 DEF IsInput
    <3>2. IsSeq(t.text) /\ Len(t.text) \in Nat
      BY <3>1, TextIsSeq, SeqFacts
    <3>3. Len(t.text) # 0
      <4>1. ASSUME Len(t.text) = 0 PROVE t.text = <<>>
        BY <3>2, <4>1, EmptyJoin, SameSeq
      <4> QED
        BY <3>1, <4>1
    <3> QED
      BY <3>2, <3>3
  <2> QED
    BY <2>1, <2>2 DEF TokensOK
<1> QED
  BY <1>2, <1>3, <1>4, <1>5, <1>6, <1>7

(* What is encoded of a document up to an offset. *)
UpTo(d, y) == Encoded(Slice(Docs[d], 0, y), TRUE)
Rest(d, x, y) == Encoded(Slice(Docs[d], x, y), FALSE)

LEMMA EncodedIsSeq ==
    ASSUME input \in Inputs, CutsExact(input), NEW d \in 1..Len(Docs)
    PROVE  /\ \A y \in 0..DocLen(d) : IsSeq(UpTo(d, y))
           /\ UpTo(d, DocLen(d)) = Encoded(Docs[d], TRUE) /\ IsSeq(Encoded(Docs[d], TRUE))
           /\ UpTo(d, 0) = Encoded(<<>>, TRUE)
<1>1. IsSeq(Docs[d]) /\ DocLen(d) \in Nat /\ DocLen(d) = Len(Docs[d]) /\ TokensOK(input.tokens)
      /\ d \in DOMAIN Docs
  BY InputFacts
<1>2. ASSUME NEW y \in 0..DocLen(d) PROVE IsSeq(UpTo(d, y))
  <2> DEFINE t == Slice(Docs[d], 0, y)
  <2>1. CASE SentencePiece
    <3>1. IsText(SpUpTo(input, d, y))
      BY <1>1, <2>1 DEF CutsExact, UnitsJoin, SentencePiece, Docs
    <3> QED
      BY <2>1, <3>1, TextIsSeq DEF UpTo, Encoded, SpUpTo, Docs
  <2>2. CASE ~SentencePiece
    <3>1. IsSeq(t)
      <4>1. 0 \in Nat /\ y \in Nat /\ 0 <= y /\ y <= Len(Docs[d])
        BY <1>1
      <4> QED
        BY <1>1, <4>1, SliceFacts
    <3> HIDE DEF t
    <3>2. 0 \in 0..Len(t)
      BY <3>1, SeqFacts
    <3>3. IsSeq(Pieces(t, input.tokens, input.prefix))
      BY <1>1, <3>1, <3>2, PiecesStep
    <3> QED
      BY <2>2, <3>3 DEF UpTo, Encoded, t
  <2> QED
    BY <2>1, <2>2
<1>3. UpTo(d, DocLen(d)) = Encoded(Docs[d], TRUE)
  BY <1>1, SliceWhole DEF UpTo
<1>4. UpTo(d, 0) = Encoded(<<>>, TRUE)
  <2>1. 0 \in 0..Len(Docs[d])
    BY <1>1
  <2>2. Slice(Docs[d], 0, 0) = <<>>
    BY <1>1, <2>1, SliceWhole
  <2> QED
    BY <2>2 DEF UpTo
<1>5. DocLen(d) \in 0..DocLen(d)
  BY <1>1
<1> QED
  BY <1>2, <1>3, <1>4, <1>5

(* What a fragment from..to of document d has to be: it joins what is in front of it,
   and is small in the tail. *)
JoinOK(d, r) ==
    r[1] = 0 \/ (IsSeq(Rest(d, r[1], r[2])) /\ UpTo(d, r[2]) = UpTo(d, r[1]) \o Rest(d, r[1], r[2]))
SmallOK(d, head, r) ==
    \/ SentencePiece \/ (input.lpt /\ r[1] < head)
    \/ \A p \in (r[1] + TailTarget)..(r[2] - 2) : ~SafeAt(Docs[d], input.tokens, p)
FragOK(d, head) ==
    {r \in (0..DocLen(d)) \X (0..DocLen(d)) : JoinOK(d, r) /\ SmallOK(d, head, r)}

LEMMA SplitJoins ==
    ASSUME input \in Inputs, CutsExact(input), ~SentencePiece, NEW d \in 1..Len(Docs), NEW size,
           NEW r \in SplitOK(Docs[d], input.tokens, size), r[1] < r[2]
    PROVE  r \in (0..DocLen(d)) \X (0..DocLen(d)) /\ JoinOK(d, r)
<1>1. /\ IsSeq(Docs[d]) /\ DocLen(d) \in Nat /\ DocLen(d) = Len(Docs[d]) /\ TokensOK(input.tokens)
      /\ r \in (0..DocLen(d)) \X (0..DocLen(d)) /\ (r[1] = 0 \/ Clean(Docs[d], input.tokens, r[1]))
  BY InputFacts DEF SplitOK
<1>2. ASSUME Clean(Docs[d], input.tokens, r[1]) PROVE JoinOK(d, r)
  <2> DEFINE x == r[1]
             y == r[2]
  <2>1. x \in Nat /\ y \in Nat /\ x <= y /\ y <= Len(Docs[d]) /\ y \in (x + 1)..Len(Docs[d])
    BY <1>1
  <2> HIDE DEF x, y
  <2>2. Clean(Docs[d], input.tokens, x)
    BY <1>2 DEF x
  <2>3. Pieces(Slice(Docs[d], 0, y), input.tokens, input.prefix)
        = Pieces(Slice(Docs[d], 0, x), input.tokens, input.prefix)
          \o Pieces(Slice(Docs[d], x, y), input.tokens, input.prefix)
    <3> DEFINE doc == Docs[d]
               ts == input.tokens
    <3>1. IsSeq(doc) /\ TokensOK(ts) /\ Clean(doc, ts, x) /\ y \in (x + 1)..Len(doc)
      BY <1>1, <2>1, <2>2
    <3> HIDE DEF doc, ts
    <3>2. PiecesJoin(doc, ts, input.prefix, x, y)
      BY <3>1, CleanJoins, Zenon
    <3> QED
      BY <3>2, Zenon DEF doc, ts, PiecesJoin
  <2> DEFINE t == Slice(Docs[d], x, y)
  <2>4. IsSeq(t)
    BY <1>1, <2>1, SliceFacts
  <2> HIDE DEF t
  <2>5. 0 \in 0..Len(t)
    BY <2>4, SeqFacts
  <2>6. IsSeq(Pieces(t, input.tokens, input.prefix))
    BY <1>1, <2>4, <2>5, PiecesStep
  <2> QED
    BY <2>3, <2>6 DEF JoinOK, UpTo, Rest, Encoded, t, x, y
<1> QED
  BY <1>1, <1>2 DEF JoinOK

(* The first cut of a document, and that of one of its ranges. *)
BigOK(d) ==
    {r \in (0..DocLen(d)) \X (0..DocLen(d)) :
        /\ JoinOK(d, r)
        /\ SentencePiece \/ r \in SplitOK(Docs[d], input.tokens, FragBig)}

LEMMA RangesOfPart ==
    ASSUME input \in Inputs, CutsExact(input), ~SentencePiece, NEW d \in 1..Len(Docs),
           NEW a \in Nat, NEW b \in Nat, a < b, b <= DocLen(d),
           a = 0 \/ Clean(Docs[d], input.tokens, a), b = DocLen(d) \/ Clean(Docs[d], input.tokens, b),
           NEW size \in Nat \ {0}
    PROVE  Tiles(Ranges(d, a, b, size), a, b, SplitOK(Docs[d], input.tokens, size))
<1> DEFINE cut == SafeSplitRanges(Slice(Docs[d], a, b), input.tokens, size)
<1>1. /\ IsSeq(Docs[d]) /\ DocLen(d) = Len(Docs[d]) /\ TokensOK(input.tokens) /\ Findable(input.tokens)
  BY InputFacts DEF CutsExact, SentencePiece
<1>2. Ranges(d, a, b, size) = [r \in DOMAIN cut |-> <<a + cut[r][1], a + cut[r][2]>>]
  BY DEF Ranges
<1>3. cut = SafeSplitRanges(Slice(Docs[d], a, b), input.tokens, size)
  OBVIOUS
<1> HIDE DEF cut
<1> DEFINE t == Docs[d]
           ts == input.tokens
<1>4. /\ IsSeq(t) /\ TokensOK(ts) /\ Findable(ts) /\ b <= Len(t)
      /\ a = 0 \/ Clean(t, ts, a)
      /\ b = Len(t) \/ Clean(t, ts, b)
      /\ cut = SafeSplitRanges(Slice(t, a, b), ts, size)
  BY <1>1, <1>3
<1> HIDE DEF t, ts
<1>5. Tiles([k \in DOMAIN cut |-> <<a + cut[k][1], a + cut[k][2]>>], a, b, SplitOK(t, ts, size))
  BY <1>4, SplitTiles
<1> QED
  BY <1>2, <1>5 DEF t, ts

LEMMA SpRanges ==
    ASSUME input \in Inputs, CutsExact(input), SentencePiece, NEW d \in 1..Len(Docs), Oversized(d)
    PROVE  Tiles(Ranges(d, 0, DocLen(d), FragBig), 0, DocLen(d), BigOK(d))
<1> DEFINE L == DocLen(d)
           cut == SafeFragmentRanges(input.model, Docs[d], input.tokens, Target)
           safe == {p \in Target..(L - 1) : FragmentCut(input.model, Docs[d], input.tokens, p)}
<1>1. /\ IsSeq(Docs[d]) /\ L \in Nat /\ L = Len(Docs[d]) /\ Target \in Nat \ {0} /\ ~input.lpt
      /\ d \in DOMAIN Docs
  BY InputFacts
<1>2. FragBig = Target /\ SupportsFragmentSplit(input.model) /\ L > 2 * Target
  BY <1>1 DEF FragBig, GroupBig, Oversized, CanSplit
<1>3. cut = RangesAt(L, Target, safe)
  BY <1>1 DEF SafeFragmentRanges
<1>4. safe \in SUBSET (1..(L - 1)) /\ L \in Nat \ {0}
  <2>1. \A p \in safe : p \in Target..(L - 1)
    OBVIOUS
  <2> HIDE DEF safe, L
  <2> QED
    BY <1>1, <1>2, <2>1
<1> HIDE DEF safe
<1>5. Tiles(cut, 0, L, RangesOK(L, Target, safe))
  <2> HIDE DEF cut, L
  <2> QED
    BY <1>1, <1>3, <1>4, RangesTile
<1>6. Ranges(d, 0, L, FragBig) = [r \in DOMAIN cut |-> <<0 + cut[r][1], 0 + cut[r][2]>>]
  BY <1>1, <1>2, SliceWhole DEF Ranges
<1>7. \A k \in DOMAIN cut : cut[k][1] > 0 =>
          /\ IsText(SpRest(input, d, cut[k][1], cut[k][2]))
          /\ SpUpTo(input, d, cut[k][2]) = SpUpTo(input, d, cut[k][1]) \o SpRest(input, d, cut[k][1], cut[k][2])
  BY <1>1, <1>2 DEF CutsExact, UnitsJoin, SentencePiece, Docs, Target
<1> HIDE DEF cut
<1>8. DOMAIN cut = 1..Len(cut)
  BY <1>5, SeqFacts DEF Tiles
<1>9. ASSUME NEW k \in 1..Len(cut) PROVE <<0 + cut[k][1], 0 + cut[k][2]>> \in BigOK(d)
  <2> DEFINE x == cut[k][1]
             y == cut[k][2]
             r == <<0 + x, 0 + y>>
  <2>1. x \in Nat /\ y \in Nat /\ x < y /\ y <= L
    BY <1>5 DEF Tiles
  <2>2. x > 0 =>
          /\ IsText(SpRest(input, d, x, y))
          /\ SpUpTo(input, d, y) = SpUpTo(input, d, x) \o SpRest(input, d, x, y)
    BY <1>7, <1>8
  <2> HIDE DEF x, y
  <2>3. r[1] = x /\ r[2] = y /\ r \in (0..L) \X (0..L)
    BY <1>1, <2>1
  <2> HIDE DEF r
  <2>4. UpTo(d, x) = SpUpTo(input, d, x) /\ UpTo(d, y) = SpUpTo(input, d, y)
    BY DEF UpTo, SpUpTo, Encoded, Docs
  <2>5. Rest(d, x, y) = SpRest(input, d, x, y)
    BY DEF Rest, SpRest, Encoded, Docs
  <2>6. JoinOK(d, r)
    <3>1. x = 0 \/ x > 0
      BY <2>1
    <3>2. ASSUME x > 0
          PROVE  IsSeq(Rest(d, x, y)) /\ UpTo(d, y) = UpTo(d, x) \o Rest(d, x, y)
      BY <2>2, <2>4, <2>5, <3>2, TextIsSeq
    <3> QED
      BY <2>3, <3>1, <3>2 DEF JoinOK
  <2>7. r \in BigOK(d)
    BY <2>3, <2>6 DEF BigOK
  <2> QED
    BY <2>7 DEF r, x, y
<1>10. Tiles([r \in DOMAIN cut |-> <<0 + cut[r][1], 0 + cut[r][2]>>], 0, 0 + L, BigOK(d))
  <2> HIDE DEF L
  <2> QED
    BY <1>1, <1>5, <1>9, TilesShift
<1>11. 0 + L = L
  BY <1>1
<1> QED
  BY <1>6, <1>10, <1>11

LEMMA BigTiles ==
    ASSUME input \in Inputs, CutsExact(input), NEW d \in 1..Len(Docs), Oversized(d)
    PROVE  Tiles(Ranges(d, 0, DocLen(d), FragBig), 0, DocLen(d), BigOK(d))
<1>1. CASE SentencePiece
  BY <1>1, SpRanges
<1>2. CASE ~SentencePiece
  <2> DEFINE ok == SplitOK(Docs[d], input.tokens, FragBig)
             rs == Ranges(d, 0, DocLen(d), FragBig)
  <2>1. 0 \in Nat /\ DocLen(d) \in Nat /\ 0 < DocLen(d) /\ DocLen(d) <= DocLen(d) /\ FragBig \in Nat \ {0}
    BY InputFacts DEF Oversized
  <2>2. Tiles(rs, 0, DocLen(d), ok)
    BY <1>2, <2>1, RangesOfPart
  <2> HIDE DEF rs
  <2>3. ASSUME NEW k \in 1..Len(rs) PROVE rs[k] \in BigOK(d)
    <3> DEFINE r == rs[k]
    <3>1. r \in ok /\ r[1] < r[2]
      BY <2>2 DEF Tiles
    <3> HIDE DEF r
    <3>2. r \in (0..DocLen(d)) \X (0..DocLen(d)) /\ JoinOK(d, r)
      BY <1>2, <3>1, SplitJoins
    <3>3. r \in BigOK(d)
      BY <3>1, <3>2 DEF BigOK
    <3> QED
      BY <3>3 DEF r
  <2> HIDE DEF ok
  <2>4. Tiles(rs, 0, DocLen(d), BigOK(d))
    BY <2>2, <2>3, TilesWeaken
  <2> QED
    BY <2>4 DEF rs
<1> QED
  BY <1>1, <1>2

LEMMA FragmentsTile ==
    ASSUME input \in Inputs, CutsExact(input), NEW d \in 1..Len(Docs), Oversized(d),
           NEW head \in Int, ~input.lpt => head = DocLen(d)
    PROVE  \E all : /\ Tiles(all, 0, DocLen(d), FragOK(d, head))
                    /\ FragmentsOf(d, head) = [n \in 1..Len(all) |-> Fragment(d, all[n][1], all[n][2])]
<1> DEFINE big == Ranges(d, 0, DocLen(d), FragBig)
           parts(r) == IF r[1] < head \/ r[2] - r[1] <= TailTarget THEN <<r>>
                       ELSE Ranges(d, r[1], r[2], TailTarget)
           ss == [r \in DOMAIN big |-> parts(big[r])]
           all == FlattenSeq(ss)
           ok == FragOK(d, head)
<1>1. Tiles(big, 0, DocLen(d), BigOK(d))
  BY BigTiles
<1>2. /\ IsSeq(Docs[d]) /\ DocLen(d) \in Nat /\ DocLen(d) = Len(Docs[d]) /\ TailTarget \in Nat \ {0}
      /\ input.lpt \in BOOLEAN /\ (SentencePiece => ~input.lpt)
  BY InputFacts
<1> HIDE DEF big
<1>3. IsSeq(big) /\ Len(big) \in Nat /\ DOMAIN big = 1..Len(big)
  BY <1>1, SeqFacts DEF Tiles
<1>4. IsSeq(ss) /\ Len(ss) = Len(big) /\ \A k \in 1..Len(big) : ss[k] = parts(big[k])
  <2>1. DOMAIN ss = 1..Len(big) /\ ss = [k \in 1..Len(big) |-> ss[k]] /\ \A k \in 1..Len(big) : ss[k] = parts(big[k])
    <3> HIDE DEF parts
    <3> QED
      BY <1>3
  <2> HIDE DEF ss
  <2> QED
    BY <1>3, <2>1, FunSeq
<1> HIDE DEF ss
<1>5. ASSUME NEW k \in 1..Len(big) PROVE Tiles(ss[k], big[k][1], big[k][2], ok)
  <2> DEFINE r == big[k]
  <2>1. r \in BigOK(d) /\ r[1] \in Nat /\ r[2] \in Nat /\ r[1] < r[2] /\ r[2] <= DocLen(d)
    BY <1>1 DEF Tiles
  <2>2. ss[k] = parts(r)
    BY <1>4
  <2> HIDE DEF r
  <2>3. CASE r[1] < head \/ r[2] - r[1] <= TailTarget
    <3>1. SmallOK(d, head, r)
      <4>1. CASE r[2] - r[1] <= TailTarget
        <5>1. (r[1] + TailTarget)..(r[2] - 2) = {}
          BY <1>2, <2>1, <4>1
        <5> QED
          BY <5>1 DEF SmallOK
      <4>2. CASE r[1] < head /\ input.lpt
        BY <4>2 DEF SmallOK
      <4>3. CASE ~input.lpt /\ ~SentencePiece
        <5>1. FragBig = TailTarget
          BY <4>3 DEF FragBig, GroupBig, TailTarget
        <5> QED
          BY <2>1, <4>3, <5>1 DEF BigOK, SplitOK, SmallOK
      <4>4. CASE SentencePiece
        BY <4>4 DEF SmallOK
      <4> QED
        BY <1>2, <2>3, <4>1, <4>2, <4>3, <4>4
    <3>2. r \in ok
      BY <2>1, <3>1 DEF BigOK, FragOK
    <3>3. r = <<r[1], r[2]>>
      BY <2>1 DEF BigOK
    <3> HIDE DEF ok
    <3>4. Tiles(<<r>>, r[1], r[2], ok)
      BY <2>1, <3>2, <3>3, TilesOne
    <3> QED
      BY <2>2, <2>3, <3>4 DEF r
  <2>4. CASE ~(r[1] < head \/ r[2] - r[1] <= TailTarget)
    <3> DEFINE x == r[1]
               y == r[2]
               rs == Ranges(d, x, y, TailTarget)
    <3>1. ~SentencePiece
      BY <1>2, <2>1, <2>4
    <3>2. x = 0 \/ Clean(Docs[d], input.tokens, x)
      BY <2>1, <3>1 DEF BigOK, SplitOK
    <3>3. y = DocLen(d) \/ Clean(Docs[d], input.tokens, y)
      BY <1>2, <2>1, <3>1 DEF BigOK, SplitOK
    <3>4. x \in Nat /\ y \in Nat /\ x < y /\ y <= DocLen(d)
      BY <2>1
    <3>5. ss[k] = rs
      BY <2>2, <2>4
    <3> HIDE DEF x, y
    <3>6. Tiles(rs, x, y, SplitOK(Docs[d], input.tokens, TailTarget))
      BY <1>2, <3>1, <3>2, <3>3, <3>4, RangesOfPart
    <3> HIDE DEF rs
    <3>7. ASSUME NEW j \in 1..Len(rs) PROVE rs[j] \in ok
      <4> DEFINE q == rs[j]
      <4>1. q \in SplitOK(Docs[d], input.tokens, TailTarget) /\ q[1] < q[2]
        BY <3>6 DEF Tiles
      <4> HIDE DEF q
      <4>2. q \in (0..DocLen(d)) \X (0..DocLen(d)) /\ JoinOK(d, q)
        BY <3>1, <4>1, SplitJoins
      <4>3. SmallOK(d, head, q)
        BY <4>1 DEF SplitOK, SmallOK
      <4>4. q \in ok
        BY <4>2, <4>3 DEF FragOK
      <4> QED
        BY <4>4 DEF q
    <3> HIDE DEF ok
    <3>8. Tiles(rs, x, y, ok)
      BY <3>6, <3>7, TilesWeaken
    <3> QED
      BY <3>5, <3>8 DEF x, y, r
  <2> QED
    BY <2>3, <2>4
<1>6. Tiles(all, 0, DocLen(d), ok)
  <2> HIDE DEF ok
  <2> QED
    BY <1>1, <1>2, <1>4, <1>5, TilesFlatten
<1>7. FragmentsOf(d, head) = [n \in DOMAIN all |-> Fragment(d, all[n][1], all[n][2])]
  BY DEF FragmentsOf, ss, big
<1> HIDE DEF all
<1>8. DOMAIN all = 1..Len(all)
  BY <1>6, SeqFacts DEF Tiles
<1> QED
  BY <1>6, <1>7, <1>8
-----------------------------------------------------------------------------
LEMMA AppendFacts ==
    ASSUME NEW s, IsSeq(s), NEW x
    PROVE  /\ IsSeq(Append(s, x)) /\ Len(Append(s, x)) = Len(s) + 1
           /\ Append(s, x) = s \o <<x>>
           /\ \A k \in 1..Len(s) : Append(s, x)[k] = s[k]
           /\ Append(s, x)[Len(s) + 1] = x
<1>1. PICK S : s \in Seq(S) /\ <<x>> \in Seq(S)
  <2>1. IsSeq(<<x>>)
    BY OneIsSeq
  <2> QED
    BY <2>1, Together
<1>2. x \in S
  <2>1. <<x>>[1] \in S
    BY <1>1
  <2> QED
    BY <2>1
<1>3. Append(s, x) = s \o <<x>>
  BY <1>1, <1>2
<1>4. IsSeq(<<x>>) /\ Len(<<x>>) = 1 /\ <<x>>[1] = x
  BY OneIsSeq
<1> DEFINE t == <<x>>
<1>5. IsSeq(t) /\ Len(t) = 1 /\ t[1] = x
  BY <1>4
<1> HIDE DEF t
<1>6. /\ IsSeq(s \o t) /\ Len(s \o t) = Len(s) + Len(t)
      /\ \A k \in 1..Len(s) : (s \o t)[k] = s[k]
      /\ \A k \in 1..Len(t) : (s \o t)[Len(s) + k] = t[k]
  <2>1. IsSeq(s) /\ IsSeq(t) /\ Len(s) \in Nat /\ Len(t) \in Nat
    BY <1>5, SeqFacts
  <2> QED
    BY <2>1, Joined2
<1>7. (s \o t)[Len(s) + 1] = x
  <2>1. 1 \in 1..Len(t)
    BY <1>5
  <2> QED
    BY <1>5, <1>6, <2>1
<1> QED
  BY <1>3, <1>5, <1>6, <1>7 DEF t

(* The bytes of some documents. *)
SumTo(f, ds, n) == f[0] = 0 /\ \A k \in 1..n : f[k] = f[k - 1] + DocLen(ds[k])
Sums(f, ds) == f = [n \in 0..Len(ds) |-> IF n = 0 THEN 0 ELSE f[n - 1] + DocLen(ds[n])]

LEMMA SumsExist ==
    ASSUME NEW ds, Len(ds) \in Nat
    PROVE  \E f : Sums(f, ds)
<1> DEFINE Body(f, n) == IF n = 0 THEN 0 ELSE f[n - 1] + DocLen(ds[n])
           P(m) == \E f : f = [n \in 0..m |-> Body(f, n)]
           bad == {m \in Nat : ~P(m)}
<1>1. bad = {}
  <2> SUFFICES ASSUME bad # {} PROVE FALSE
    OBVIOUS
  <2>1. PICK m \in bad : \A y \in bad : m <= y
    <3>1. bad \in SUBSET Nat
      OBVIOUS
    <3> HIDE DEF bad
    <3> QED
      BY <3>1, LeastNat
  <2>2. m \in Nat /\ ~P(m)
    OBVIOUS
  <2> HIDE DEF bad
  <2>3. PICK h : m # 0 => h = [n \in 0..(m - 1) |-> Body(h, n)]
    <3>1. CASE m = 0
      BY <3>1
    <3>2. CASE m # 0
      <4>1. m - 1 \in Nat /\ m - 1 \notin bad
        BY <2>1, <2>2, <3>2
      <4> QED
        BY <4>1 DEF bad
    <3> QED
      BY <3>1, <3>2
  <2> DEFINE f == [n \in 0..m |-> Body(h, n)]
  <2>4. ASSUME NEW n \in 0..m PROVE Body(f, n) = Body(h, n)
    <3> SUFFICES ASSUME n # 0 PROVE f[n - 1] = h[n - 1]
      OBVIOUS
    <3>1. n - 1 \in 0..m /\ n - 1 \in 0..(m - 1) /\ m # 0
      BY <2>2
    <3>2. f[n - 1] = Body(h, n - 1)
      <4> HIDE DEF Body
      <4> QED
        BY <3>1
    <3>3. h[n - 1] = Body(h, n - 1)
      <4> HIDE DEF Body
      <4> QED
        BY <2>3, <3>1
    <3> QED
      BY <3>2, <3>3
  <2>5. [n \in 0..m |-> Body(f, n)] = [n \in 0..m |-> Body(h, n)]
    <3> HIDE DEF Body, f
    <3> QED
      BY <2>4
  <2>6. f = [n \in 0..m |-> Body(f, n)]
    BY <2>5
  <2>7. P(m)
    <3> HIDE DEF f, Body
    <3> QED
      BY <2>6
  <2> HIDE DEF P
  <2> QED
    BY <2>2, <2>7
<1>2. P(Len(ds))
  <2> HIDE DEF P
  <2> QED
    BY <1>1
<1> QED
  BY <1>2 DEF Sums

LEMMA SumIs ==
    ASSUME NEW ds, Len(ds) \in Nat
    PROVE  \E f : SumTo(f, ds, Len(ds)) /\ SumLen(ds) = f[Len(ds)]
<1> DEFINE f == CHOOSE f : Sums(f, ds)
<1>1. Sums(f, ds)
  BY SumsExist
<1>2. SumLen(ds) = f[Len(ds)]
  BY DEF SumLen, Sums
<1> HIDE DEF f
<1>3. SumTo(f, ds, Len(ds))
  <2>1. f[0] = 0
    BY <1>1 DEF Sums
  <2>2. ASSUME NEW k \in 1..Len(ds) PROVE f[k] = f[k - 1] + DocLen(ds[k])
    BY <1>1 DEF Sums
  <2> QED
    BY <2>1, <2>2 DEF SumTo
<1> QED
  BY <1>2, <1>3

LEMMA SumAgree ==
    ASSUME NEW ds, NEW es, NEW n \in Nat, NEW f, SumTo(f, ds, n), NEW g, SumTo(g, es, n),
           \A k \in 1..n : ds[k] = es[k]
    PROVE  \A k \in 0..n : f[k] = g[k]
<1> DEFINE bad == {k \in 0..n : f[k] # g[k]}
<1> SUFFICES ASSUME bad # {} PROVE FALSE
  OBVIOUS
<1>1. PICK k \in bad : \A y \in bad : k <= y
  <2>1. bad \in SUBSET Nat
    OBVIOUS
  <2> HIDE DEF bad
  <2> QED
    BY <2>1, LeastNat
<1>2. k \in 0..n /\ f[k] # g[k]
  OBVIOUS
<1>3. k # 0
  BY <1>2 DEF SumTo
<1>4. k - 1 \in 0..n /\ k - 1 \notin bad /\ k \in 1..n
  <2> HIDE DEF bad
  <2> QED
    BY <1>1, <1>2, <1>3
<1> QED
  BY <1>2, <1>4 DEF SumTo

(* Some documents, and one more. *)
LEMMA SumMore ==
    ASSUME NEW ds, Len(ds) \in Nat, NEW es, Len(es) = Len(ds) + 1, \A k \in 1..Len(ds) : es[k] = ds[k]
    PROVE  SumLen(es) = SumLen(ds) + DocLen(es[Len(es)])
<1> DEFINE n == Len(ds)
<1>1. PICK f : SumTo(f, ds, n) /\ SumLen(ds) = f[n]
  BY SumIs
<1>2. PICK g : SumTo(g, es, n + 1) /\ SumLen(es) = g[n + 1]
  <2>1. Len(es) \in Nat
    OBVIOUS
  <2> QED
    BY <2>1, SumIs
<1>3. SumTo(g, es, n)
  BY <1>2 DEF SumTo
<1>4. f[n] = g[n]
  BY <1>1, <1>3, SumAgree
<1>5. g[n + 1] = g[n] + DocLen(es[n + 1])
  <2>1. n + 1 \in 1..(n + 1) /\ (n + 1) - 1 = n
    OBVIOUS
  <2> QED
    BY <1>2, <2>1 DEF SumTo
<1> QED
  BY <1>1, <1>2, <1>4, <1>5

LEMMA SumNone == \A ds : Len(ds) = 0 => SumLen(ds) = 0
<1>1. ASSUME NEW ds, Len(ds) = 0 PROVE SumLen(ds) = 0
  <2>1. PICK f : SumTo(f, ds, Len(ds)) /\ SumLen(ds) = f[Len(ds)]
    BY <1>1, SumIs
  <2> QED
    BY <1>1, <2>1 DEF SumTo
<1> QED
  BY <1>1

LEMMA SumIsNat ==
    ASSUME NEW ds, Len(ds) \in Nat, \A k \in 1..Len(ds) : DocLen(ds[k]) \in Nat
    PROVE  SumLen(ds) \in Nat
<1>1. PICK f : SumTo(f, ds, Len(ds)) /\ SumLen(ds) = f[Len(ds)]
  BY SumIs
<1> DEFINE bad == {k \in 0..Len(ds) : f[k] \notin Nat}
<1>2. bad = {}
  <2> SUFFICES ASSUME bad # {} PROVE FALSE
    OBVIOUS
  <2>1. PICK k \in bad : \A y \in bad : k <= y
    <3>1. bad \in SUBSET Nat
      OBVIOUS
    <3> HIDE DEF bad
    <3> QED
      BY <3>1, LeastNat
  <2>2. k \in 0..Len(ds) /\ f[k] \notin Nat
    OBVIOUS
  <2>3. k # 0
    BY <1>1, <2>2 DEF SumTo
  <2>4. k - 1 \in 0..Len(ds) /\ k - 1 \notin bad /\ k \in 1..Len(ds)
    <3> HIDE DEF bad
    <3> QED
      BY <2>1, <2>2, <2>3
  <2> QED
    BY <1>1, <2>2, <2>4 DEF SumTo
<1>3. Len(ds) \in 0..Len(ds)
  OBVIOUS
<1> QED
  BY <1>1, <1>2, <1>3

(* The documents up to n. *)
Upward(n) == [d \in 1..n |-> d]

LEMMA SumUpward ==
    ASSUME NEW n \in Nat
    PROVE  SumLen(Upward(n + 1)) = SumLen(Upward(n)) + DocLen(n + 1) /\ SumLen(Upward(0)) = 0
<1>1. \A m \in Nat : Len(Upward(m)) = m /\ \A k \in 1..m : Upward(m)[k] = k
  <2>1. ASSUME NEW m \in Nat PROVE Len(Upward(m)) = m /\ \A k \in 1..m : Upward(m)[k] = k
    BY FunSeq DEF Upward
  <2> QED
    BY <2>1
<1>2. /\ Len(Upward(n)) = n /\ Len(Upward(n + 1)) = n + 1 /\ Len(Upward(0)) = 0
      /\ Upward(n + 1)[n + 1] = n + 1
      /\ \A k \in 1..n : Upward(n + 1)[k] = Upward(n)[k]
  BY <1>1
<1> QED
  BY <1>2, SumMore, SumNone
-----------------------------------------------------------------------------
(* Chunks that follow one another: of whole documents, the next ones, or the fragments
   of one, each from where the last one ends. *)
LastDoc(c) == c.docs[Len(c.docs)]
EndOf(c) == IF Len(c.docs) = 1 THEN c.to ELSE DocLen(LastDoc(c))
ChunkOK(c) ==
    /\ IsSeq(c.docs) /\ Len(c.docs) \in Nat /\ Len(c.docs) > 0
    /\ \A n \in 1..Len(c.docs) : c.docs[n] \in 1..Len(Docs) /\ c.docs[n] = c.docs[1] + n - 1
    /\ c.from \in Nat /\ c.to \in Nat /\ c.from <= c.to /\ c.first = (c.from = 0)
    /\ Len(c.docs) = 1 => c.to <= DocLen(c.docs[1])
    /\ c.from # 0 =>
          /\ Len(c.docs) = 1 /\ IsSeq(Rest(c.docs[1], c.from, c.to))
          /\ UpTo(c.docs[1], c.to) = UpTo(c.docs[1], c.from) \o Rest(c.docs[1], c.from, c.to)
Follows(e, c) ==
    IF e.from = 0 THEN e.docs[1] = LastDoc(c) + 1 /\ EndOf(c) = DocLen(LastDoc(c))
    ELSE Len(c.docs) = 1 /\ e.docs[1] = c.docs[1] /\ e.from = c.to

(* They hold documents a + 1 to b. *)
Run(cs, a, b) ==
    /\ IsSeq(cs) /\ Len(cs) \in Nat
    /\ \A k \in 1..Len(cs) : ChunkOK(cs[k])
    /\ \A k \in 1..Len(cs) : k > 1 => Follows(cs[k], cs[k - 1])
    /\ Len(cs) = 0 => a = b
    /\ Len(cs) > 0 =>
          /\ cs[1].from = 0 /\ cs[1].docs[1] = a + 1
          /\ LastDoc(cs[Len(cs)]) = b /\ EndOf(cs[Len(cs)]) = DocLen(b)

LEMMA RunNone == \A a : Run(<<>>, a, a)
<1>1. IsSeq(<<>>) /\ Len(<<>>) = 0 /\ 1..0 = {}
  BY EmptyJoin
<1> QED
  BY <1>1 DEF Run

LEMMA RunJoin ==
    ASSUME NEW a \in Nat, NEW b \in Nat, NEW c \in Nat,
           NEW cs, Run(cs, a, b), NEW es, Run(es, b, c)
    PROVE  Run(cs \o es, a, c)
<1> DEFINE n == Len(cs)
           m == Len(es)
           t == cs \o es
<1>1. IsSeq(cs) /\ IsSeq(es) /\ n \in Nat /\ m \in Nat
  BY DEF Run
<1>2. CASE n = 0
  <2>1. cs = <<>>
    BY <1>1, <1>2, EmptyJoin, SameSeq
  <2>2. t = es /\ a = b
    BY <1>1, <1>2, <2>1, EmptyJoin DEF Run
  <2> QED
    BY <2>2
<1>3. CASE m = 0
  <2>1. es = <<>>
    BY <1>1, <1>3, EmptyJoin, SameSeq
  <2>2. t = cs /\ b = c
    BY <1>1, <1>3, <2>1, EmptyJoin DEF Run
  <2> QED
    BY <2>2
<1>4. CASE n > 0 /\ m > 0
  <2>1. /\ IsSeq(t) /\ Len(t) = n + m
        /\ \A k \in 1..n : t[k] = cs[k]
        /\ \A k \in 1..m : t[n + k] = es[k]
    BY <1>1, Joined2
  <2> HIDE DEF t
  <2>2. ASSUME NEW k \in 1..Len(t) PROVE ChunkOK(t[k]) /\ (k > 1 => Follows(t[k], t[k - 1]))
    <3>1. CASE k \in 1..n
      <4>1. t[k] = cs[k] /\ (k > 1 => t[k - 1] = cs[k - 1])
        BY <1>1, <2>1, <3>1
      <4> QED
        BY <3>1, <4>1 DEF Run
    <3>2. CASE k = n + 1
      <4>1. t[k] = es[1] /\ t[k - 1] = cs[n]
        <5>1. 1 \in 1..m /\ n \in 1..n /\ k - 1 = n
          BY <1>1, <1>4, <3>2
        <5> QED
          BY <2>1, <3>2, <5>1
      <4>2. ChunkOK(es[1]) /\ es[1].from = 0 /\ es[1].docs[1] = b + 1
            /\ LastDoc(cs[n]) = b /\ EndOf(cs[n]) = DocLen(b)
        BY <1>1, <1>4 DEF Run
      <4> QED
        BY <4>1, <4>2 DEF Follows
    <3>3. CASE k > n + 1
      <4> DEFINE j == k - n
      <4>1. j \in 1..m /\ j > 1 /\ j - 1 \in 1..m /\ k = n + j /\ k - 1 = n + (j - 1)
        BY <1>1, <2>1, <3>3
      <4> HIDE DEF j
      <4>2. t[k] = es[j] /\ t[k - 1] = es[j - 1]
        BY <2>1, <4>1
      <4> QED
        BY <4>1, <4>2 DEF Run
    <3> QED
      BY <1>1, <2>1, <3>1, <3>2, <3>3
  <2>3. t[1] = cs[1] /\ t[Len(t)] = es[m] /\ Len(t) > 0
    <3>1. 1 \in 1..n /\ m \in 1..m
      BY <1>1, <1>4
    <3> QED
      BY <1>1, <1>4, <2>1, <3>1
  <2>4. cs[1].from = 0 /\ cs[1].docs[1] = a + 1 /\ LastDoc(es[m]) = c /\ EndOf(es[m]) = DocLen(c)
    BY <1>4 DEF Run
  <2>5. Run(t, a, c)
    BY <1>1, <2>1, <2>2, <2>3, <2>4 DEF Run
  <2> QED
    BY <2>5 DEF t
<1> QED
  BY <1>1, <1>2, <1>3, <1>4

LEMMA RunGroup ==
    ASSUME input \in Inputs, NEW a \in Nat, NEW ds, IsSeq(ds), Len(ds) > 0, a + Len(ds) <= Len(Docs),
           \A n \in 1..Len(ds) : ds[n] = a + n
    PROVE  Run(<<Group(ds)>>, a, a + Len(ds))
<1> DEFINE c == Group(ds)
<1>1. Len(ds) \in Nat /\ Len(Docs) \in Nat
  BY SeqFacts, InputFacts
<1>2. c.docs = ds /\ c.from = 0 /\ c.to = SumLen(ds) /\ c.first = TRUE
  BY DEF Group
<1> HIDE DEF c
<1>3. \A n \in 1..Len(ds) : ds[n] \in 1..Len(Docs) /\ ds[n] = ds[1] + n - 1
  <2>1. 1 \in 1..Len(ds) /\ ds[1] = a + 1
    BY <1>1
  <2> QED
    BY <1>1, <2>1
<1>4. \A n \in 1..Len(ds) : DocLen(ds[n]) \in Nat
  BY <1>3, InputFacts
<1>5. SumLen(ds) \in Nat
  BY <1>1, <1>4, SumIsNat
<1>6. Len(ds) = 1 => SumLen(ds) = DocLen(ds[1])
  <2>1. Len(<<>>) = 0 /\ SumLen(<<>>) = 0
    BY EmptyJoin, SumNone
  <2>2. ASSUME Len(ds) = 1 PROVE SumLen(ds) = SumLen(<<>>) + DocLen(ds[Len(ds)])
    <3>1. Len(<<>>) \in Nat /\ Len(ds) = Len(<<>>) + 1 /\ \A k \in 1..Len(<<>>) : ds[k] = <<>>[k]
      BY <2>1, <2>2
    <3> QED
      BY <3>1, SumMore
  <2>3. Len(ds) = 1 => DocLen(ds[1]) \in Nat
    BY <1>4
  <2> QED
    BY <2>1, <2>2, <2>3
<1>7. ChunkOK(c)
  <2>1. Len(ds) = 1 => c.to <= DocLen(ds[1])
    BY <1>2, <1>4, <1>5, <1>6
  <2>2. c.first = (c.from = 0) /\ c.from \in Nat /\ c.to \in Nat /\ c.from <= c.to /\ ~(c.from # 0)
    <3>1. c.from \in Nat /\ c.to \in Nat /\ c.from <= c.to /\ ~(c.from # 0)
      BY <1>2, <1>5
    <3>2. c.first = (0 = 0)
      <4>1. c.first = TRUE
        BY <1>2, Zenon
      <4> QED
        BY <4>1, Zenon
    <3>3. c.first = (c.from = 0)
      BY <1>2, <3>2, Zenon
    <3> QED
      BY <3>1, <3>3
  <2> QED
    BY <1>1, <1>2, <1>3, <2>1, <2>2 DEF ChunkOK
<1>8. LastDoc(c) = a + Len(ds) /\ EndOf(c) = DocLen(LastDoc(c))
  BY <1>1, <1>2, <1>6 DEF LastDoc, EndOf
<1>9. IsSeq(<<c>>) /\ Len(<<c>>) = 1 /\ <<c>>[1] = c
  BY OneIsSeq
<1> DEFINE t == <<c>>
<1>10. IsSeq(t) /\ Len(t) = 1 /\ t[1] = c /\ \A k \in 1..Len(t) : k = 1
  BY <1>9
<1> HIDE DEF t
<1>11. c.docs[1] = a + 1
  BY <1>1, <1>2
<1>12. Run(t, a, a + Len(ds))
  BY <1>2, <1>7, <1>8, <1>10, <1>11 DEF Run
<1> QED
  BY <1>12 DEF t, c

LEMMA RunFragments ==
    ASSUME input \in Inputs, NEW d \in 1..Len(Docs), NEW head,
           NEW all, Tiles(all, 0, DocLen(d), FragOK(d, head))
    PROVE  Run([n \in 1..Len(all) |-> Fragment(d, all[n][1], all[n][2])], d - 1, d)
<1> DEFINE cs == [n \in 1..Len(all) |-> Fragment(d, all[n][1], all[n][2])]
<1>1. Len(all) \in Nat /\ Len(all) > 0 /\ DocLen(d) \in Nat
  BY SeqFacts, InputFacts DEF Tiles
<1>2. IsSeq(cs) /\ Len(cs) = Len(all)
  BY <1>1, FunSeq
<1>3. ASSUME NEW n \in 1..Len(all)
      PROVE  /\ cs[n].docs = <<d>> /\ cs[n].from = all[n][1] /\ cs[n].to = all[n][2]
             /\ cs[n].first = (cs[n].from = 0)
  BY DEF Fragment
<1> HIDE DEF cs
<1>4. IsSeq(<<d>>) /\ Len(<<d>>) = 1 /\ <<d>>[1] = d
  BY OneIsSeq
<1>5. ASSUME NEW n \in 1..Len(all)
      PROVE  /\ IsSeq(cs[n].docs) /\ Len(cs[n].docs) = 1 /\ cs[n].docs[1] = d
             /\ LastDoc(cs[n]) = d /\ EndOf(cs[n]) = cs[n].to
  BY <1>3, <1>4 DEF LastDoc, EndOf
<1>6. ASSUME NEW n \in 1..Len(all) PROVE ChunkOK(cs[n])
  <2>1. /\ all[n] \in FragOK(d, head) /\ all[n][1] \in Nat /\ all[n][2] \in Nat /\ all[n][1] < all[n][2]
        /\ all[n][2] <= DocLen(d)
    BY DEF Tiles
  <2>2. all[n][1] # 0 => /\ IsSeq(Rest(d, all[n][1], all[n][2]))
                         /\ UpTo(d, all[n][2]) = UpTo(d, all[n][1]) \o Rest(d, all[n][1], all[n][2])
    BY <2>1 DEF FragOK, JoinOK
  <2> DEFINE x == all[n][1]
             y == all[n][2]
             c == cs[n]
  <2>3. c.from = x /\ c.to = y /\ c.first = (c.from = 0) /\ IsSeq(c.docs) /\ Len(c.docs) = 1 /\ c.docs[1] = d
    BY <1>3, <1>5
  <2>4. /\ x \in Nat /\ y \in Nat /\ x < y /\ y <= DocLen(d)
        /\ x # 0 => IsSeq(Rest(d, x, y)) /\ UpTo(d, y) = UpTo(d, x) \o Rest(d, x, y)
    BY <2>1, <2>2
  <2> HIDE DEF x, y, c
  <2>5. \A k \in 1..Len(c.docs) : c.docs[k] \in 1..Len(Docs) /\ c.docs[k] = c.docs[1] + k - 1
    BY <2>3
  <2>6. ChunkOK(c)
    BY <1>1, <2>3, <2>4, <2>5 DEF ChunkOK
  <2> QED
    BY <2>6 DEF c
<1>7. ASSUME NEW n \in 1..Len(all), n > 1 PROVE Follows(cs[n], cs[n - 1])
  <2>1. n - 1 \in 1..Len(all) /\ n - 1 < Len(all) /\ (n - 1) + 1 = n
    BY <1>1, <1>7
  <2>2. all[n - 1][2] = all[n][1] /\ all[n - 1][1] \in Nat /\ all[n - 1][1] < all[n - 1][2]
    BY <2>1 DEF Tiles
  <2>3. cs[n].from # 0 /\ cs[n].from = cs[n - 1].to
    BY <1>3, <2>1, <2>2
  <2>4. Len(cs[n - 1].docs) = 1 /\ cs[n].docs[1] = cs[n - 1].docs[1]
    BY <1>5, <2>1
  <2> QED
    BY <2>3, <2>4 DEF Follows
<1>8. /\ cs[1].from = 0 /\ cs[1].docs[1] = (d - 1) + 1
      /\ LastDoc(cs[Len(cs)]) = d /\ EndOf(cs[Len(cs)]) = DocLen(d)
  <2>1. 1 \in 1..Len(all) /\ Len(all) \in 1..Len(all)
    BY <1>1
  <2>2. all[1][1] = 0 /\ all[Len(all)][2] = DocLen(d)
    BY DEF Tiles
  <2> QED
    BY <1>2, <1>3, <1>5, <2>1, <2>2
<1>9. Run(cs, d - 1, d)
  BY <1>1, <1>2, <1>6, <1>7, <1>8 DEF Run
<1> QED
  BY <1>9 DEF cs
-----------------------------------------------------------------------------
(* The tokens of the first m documents, and those that have come once a chunk is done. *)
TokensOf(m) == FlattenSeq(Rows(Upward(m)))
SeenAt(c) == TokensOf(LastDoc(c) - 1) \o UpTo(LastDoc(c), EndOf(c))

LEMMA UpwardFacts ==
    ASSUME NEW m \in Nat
    PROVE  IsSeq(Upward(m)) /\ Len(Upward(m)) = m /\ \A k \in 1..m : Upward(m)[k] = k
BY FunSeq DEF Upward

LEMMA RowsAre ==
    ASSUME input \in Inputs, CutsExact(input), NEW ds, IsSeq(ds), \A n \in 1..Len(ds) : ds[n] \in 1..Len(Docs)
    PROVE  /\ AllSeqs(Rows(ds)) /\ Len(Rows(ds)) = Len(ds)
           /\ \A n \in 1..Len(ds) : Rows(ds)[n] = Encoded(Docs[ds[n]], TRUE)
           /\ IsSeq(FlattenSeq(Rows(ds)))
<1> DEFINE rs == Rows(ds)
<1>1. DOMAIN ds = 1..Len(ds) /\ Len(ds) \in Nat
  BY SeqFacts
<1>2. rs = [n \in 1..Len(ds) |-> Encoded(Docs[ds[n]], TRUE)]
  BY <1>1 DEF Rows
<1>3. IsSeq(rs) /\ Len(rs) = Len(ds)
  BY <1>1, <1>2, FunSeq
<1>4. \A n \in 1..Len(ds) : rs[n] = Encoded(Docs[ds[n]], TRUE)
  BY <1>2
<1> HIDE DEF rs
<1>5. \A n \in 1..Len(rs) : IsSeq(rs[n])
  BY <1>3, <1>4, EncodedIsSeq
<1>6. AllSeqs(rs)
  BY <1>3, <1>5 DEF AllSeqs
<1>7. IsSeq(FlattenSeq(rs))
  BY <1>6, FlattenJoins
<1> QED
  BY <1>3, <1>4, <1>6, <1>7 DEF rs

LEMMA TokensGrow ==
    ASSUME input \in Inputs, CutsExact(input), NEW a \in Nat, NEW ds, IsSeq(ds), a + Len(ds) <= Len(Docs),
           \A n \in 1..Len(ds) : ds[n] = a + n
    PROVE  /\ TokensOf(a) \o FlattenSeq(Rows(ds)) = TokensOf(a + Len(ds))
           /\ IsSeq(TokensOf(a)) /\ IsSeq(FlattenSeq(Rows(ds)))
<1> DEFINE u == Upward(a)
           w == Upward(a + Len(ds))
           s == Rows(u)
           t == Rows(ds)
           r == Rows(w)
<1>1. Len(ds) \in Nat /\ Len(Docs) \in Nat
  BY SeqFacts, InputFacts
<1>2. /\ IsSeq(u) /\ Len(u) = a /\ \A k \in 1..a : u[k] = k
      /\ IsSeq(w) /\ Len(w) = a + Len(ds) /\ \A k \in 1..(a + Len(ds)) : w[k] = k
  <2>1. a + Len(ds) \in Nat
    BY <1>1
  <2> QED
    BY <2>1, UpwardFacts
<1> HIDE DEF u, w
<1>3. AllSeqs(s) /\ Len(s) = a /\ (\A n \in 1..a : s[n] = Encoded(Docs[u[n]], TRUE)) /\ IsSeq(FlattenSeq(s))
  <2>1. \A n \in 1..Len(u) : u[n] \in 1..Len(Docs)
    BY <1>1, <1>2
  <2> QED
    BY <1>2, <2>1, RowsAre
<1>4. AllSeqs(t) /\ Len(t) = Len(ds) /\ (\A n \in 1..Len(ds) : t[n] = Encoded(Docs[ds[n]], TRUE)) /\ IsSeq(FlattenSeq(t))
  <2>1. \A n \in 1..Len(ds) : ds[n] \in 1..Len(Docs)
    BY <1>1
  <2> QED
    BY <2>1, RowsAre
<1>5. AllSeqs(r) /\ Len(r) = a + Len(ds) /\ \A n \in 1..(a + Len(ds)) : r[n] = Encoded(Docs[w[n]], TRUE)
  <2>1. \A n \in 1..Len(w) : w[n] \in 1..Len(Docs)
    BY <1>1, <1>2
  <2> QED
    BY <1>2, <2>1, RowsAre
<1> HIDE DEF s, t, r
<1>6. s \o t = r
  <2>1. IsSeq(s) /\ IsSeq(t) /\ IsSeq(r) /\ Len(s) \in Nat /\ Len(t) \in Nat
    BY <1>3, <1>4, <1>5, SeqFacts DEF AllSeqs
  <2> DEFINE q == s \o t
  <2>2. /\ IsSeq(q) /\ Len(q) = a + Len(ds)
        /\ \A k \in 1..Len(s) : q[k] = s[k]
        /\ \A k \in 1..Len(t) : q[Len(s) + k] = t[k]
    <3>1. /\ IsSeq(q) /\ Len(q) = Len(s) + Len(t)
          /\ \A k \in 1..Len(s) : q[k] = s[k]
          /\ \A k \in 1..Len(t) : q[Len(s) + k] = t[k]
      BY <2>1, Joined2
    <3> HIDE DEF q
    <3> QED
      BY <1>3, <1>4, <3>1
  <2> HIDE DEF q
  <2>3. ASSUME NEW k \in 1..Len(q) PROVE q[k] = r[k]
    <3>1. r[k] = Encoded(Docs[k], TRUE)
      BY <1>2, <1>5, <2>2
    <3>2. CASE k <= a
      <4>1. k \in 1..a
        BY <3>2
      <4>2. q[k] = s[k]
        BY <1>3, <2>2, <4>1
      <4>3. s[k] = Encoded(Docs[k], TRUE)
        BY <1>2, <1>3, <4>1
      <4> QED
        BY <3>1, <4>2, <4>3
    <3>3. CASE k > a
      <4> DEFINE j == k - a
      <4>1. j \in 1..Len(ds) /\ k = a + j
        BY <1>1, <2>2, <3>3
      <4> HIDE DEF j
      <4>2. q[k] = t[j]
        BY <1>3, <1>4, <2>2, <4>1
      <4>3. t[j] = Encoded(Docs[k], TRUE)
        BY <1>4, <4>1
      <4> QED
        BY <3>1, <4>2, <4>3
    <3> QED
      BY <2>2, <3>2, <3>3
  <2>4. q = r
    BY <1>5, <2>1, <2>2, <2>3, SameSeq
  <2> QED
    BY <2>4 DEF q
<1>7. FlattenSeq(r) = FlattenSeq(s) \o FlattenSeq(t)
  BY <1>3, <1>4, <1>6, FlattenJoins
<1> QED
  BY <1>3, <1>4, <1>7 DEF TokensOf, u, w, s, t, r

(* The rows of a chunk. *)
LEMMA RowsOfIs ==
    ASSUME NEW e, ChunkOK(e)
    PROVE  /\ Len(e.docs) = 1 =>
                 RowsOf(e) = <<IF e.from = 0 THEN UpTo(e.docs[1], e.to) ELSE Rest(e.docs[1], e.from, e.to)>>
           /\ Len(e.docs) > 1 => RowsOf(e) = Rows(e.docs) /\ e.from = 0
           /\ LastDoc(e) = e.docs[1] + Len(e.docs) - 1 /\ LastDoc(e) \in 1..Len(Docs)
<1>1. Len(e.docs) \in Nat /\ Len(e.docs) > 0
  BY DEF ChunkOK
<1>2. Len(e.docs) \in 1..Len(e.docs)
  BY <1>1
<1>3. LastDoc(e) = e.docs[1] + Len(e.docs) - 1 /\ LastDoc(e) \in 1..Len(Docs)
  BY <1>2 DEF ChunkOK, LastDoc
<1>4. Len(e.docs) > 1 => RowsOf(e) = Rows(e.docs) /\ e.from = 0
  <2>1. Len(e.docs) > 1 => ~(Len(e.docs) = 1)
    <3> DEFINE l == Len(e.docs)
    <3>1. l \in Nat
      BY <1>1
    <3> HIDE DEF l
    <3>2. l > 1 => ~(l = 1)
      BY <3>1
    <3> QED
      BY <3>2 DEF l
  <2>2. e.from # 0 => Len(e.docs) = 1
    BY DEF ChunkOK
  <2>3. Len(e.docs) # 1 => RowsOf(e) = Rows(e.docs)
    BY Zenon DEF RowsOf, Rows
  <2> QED
    BY <2>1, <2>2, <2>3
<1>5. ASSUME Len(e.docs) = 1
      PROVE  RowsOf(e) = <<IF e.from = 0 THEN UpTo(e.docs[1], e.to) ELSE Rest(e.docs[1], e.from, e.to)>>
  <2>1. RowsOf(e) = <<Encoded(Slice(Docs[e.docs[1]], e.from, e.to), e.first)>>
    BY <1>5 DEF RowsOf
  <2>2. CASE e.from = 0
    <3>1. e.first = TRUE
      <4>1. e.first = (e.from = 0)
        BY DEF ChunkOK
      <4> QED
        BY <2>2, <4>1, Zenon
    <3> QED
      BY <2>1, <2>2, <3>1 DEF UpTo
  <2>3. CASE e.from # 0
    <3>1. e.first = FALSE
      <4>1. e.first = (e.from = 0)
        BY DEF ChunkOK
      <4> QED
        BY <2>3, <4>1, Zenon
    <3> QED
      BY <2>1, <2>3, <3>1 DEF Rest
  <2> QED
    BY <2>2, <2>3
<1> QED
  BY <1>3, <1>4, <1>5

LEMMA DocTokens ==
    ASSUME input \in Inputs, CutsExact(input), NEW l \in 1..Len(Docs)
    PROVE  TokensOf(l - 1) \o Encoded(Docs[l], TRUE) = TokensOf(l)
<1> DEFINE s == <<l>>
<1>1. IsSeq(s) /\ Len(s) = 1 /\ s[1] = l
  BY OneIsSeq
<1> HIDE DEF s
<1>2. l - 1 \in Nat /\ (l - 1) + Len(s) = l /\ l <= Len(Docs) /\ (\A k \in 1..Len(s) : k = 1 /\ s[k] = (l - 1) + k)
  BY InputFacts, <1>1
<1>3. TokensOf(l - 1) \o FlattenSeq(Rows(s)) = TokensOf(l)
  BY <1>1, <1>2, TokensGrow
<1>4. Rows(s) = <<Encoded(Docs[l], TRUE)>>
  <2>1. AllSeqs(Rows(s)) /\ Len(Rows(s)) = 1 /\ Rows(s)[1] = Encoded(Docs[l], TRUE)
    <3>1. (\A k \in 1..Len(s) : s[k] \in 1..Len(Docs)) /\ 1 \in 1..Len(s)
      BY InputFacts, <1>1, <1>2
    <3> QED
      BY <1>1, <3>1, RowsAre
  <2> DEFINE q == Rows(s)
             x == Encoded(Docs[l], TRUE)
             o == <<x>>
  <2>2. IsSeq(q) /\ Len(q) = 1 /\ q[1] = x
    BY <2>1 DEF AllSeqs
  <2> HIDE DEF q, x
  <2>3. IsSeq(o) /\ Len(o) = 1 /\ o[1] = x
    BY OneIsSeq
  <2> HIDE DEF o
  <2>4. \A k \in 1..Len(q) : q[k] = o[k]
    <3>1. \A k \in 1..Len(q) : k = 1
      BY <2>2
    <3> QED
      BY <2>2, <2>3, <3>1
  <2>5. q = o
    BY <2>2, <2>3, <2>4, SameSeq
  <2> QED
    BY <2>5 DEF q, o, x
<1>5. IsSeq(Encoded(Docs[l], TRUE))
  BY InputFacts, EncodedIsSeq
<1>6. FlattenSeq(Rows(s)) = Encoded(Docs[l], TRUE)
  BY <1>4, <1>5, FlattenOne
<1> QED
  BY <1>3, <1>6

LEMMA ChunkSeen ==
    ASSUME input \in Inputs, CutsExact(input), NEW e, ChunkOK(e)
    PROVE  /\ AllSeqs(RowsOf(e)) /\ IsSeq(FlattenSeq(RowsOf(e))) /\ IsSeq(TokensOf(LastDoc(e) - 1))
           /\ IsSeq(UpTo(LastDoc(e), EndOf(e)))
           /\ IF e.from = 0 THEN TokensOf(e.docs[1] - 1) \o FlattenSeq(RowsOf(e)) = SeenAt(e)
              ELSE (TokensOf(e.docs[1] - 1) \o UpTo(e.docs[1], e.from)) \o FlattenSeq(RowsOf(e)) = SeenAt(e)
<1> DEFINE n == Len(e.docs)
           d == e.docs[1]
           l == LastDoc(e)
<1>1. n \in Nat /\ n > 0 /\ d \in 1..Len(Docs) /\ l \in 1..Len(Docs) /\ l = d + n - 1 /\ Len(Docs) \in Nat
  <2>1. Len(e.docs) \in Nat /\ Len(e.docs) > 0
    BY DEF ChunkOK
  <2>2. 1 \in 1..Len(e.docs)
    BY <2>1
  <2>3. d \in 1..Len(Docs)
    BY <2>2 DEF ChunkOK
  <2> QED
    BY <2>1, <2>3, RowsOfIs, InputFacts
<1>2. \A x \in 1..Len(Docs) : /\ DocLen(x) \in Nat /\ UpTo(x, DocLen(x)) = Encoded(Docs[x], TRUE)
                              /\ \A y \in 0..DocLen(x) : IsSeq(UpTo(x, y))
  BY InputFacts, EncodedIsSeq
<1>3. \A a \in 0..Len(Docs) : IsSeq(TokensOf(a))
  <2>1. ASSUME NEW a \in 0..Len(Docs) PROVE IsSeq(TokensOf(a))
    <3>1. IsSeq(<<>>) /\ Len(<<>>) = 0 /\ a \in Nat /\ a + Len(<<>>) <= Len(Docs)
          /\ \A k \in 1..Len(<<>>) : <<>>[k] = a + k
      BY <1>1, EmptyJoin
    <3> QED
      BY <3>1, TokensGrow
  <2> QED
    BY <2>1
<1>4. IsSeq(TokensOf(l - 1)) /\ IsSeq(TokensOf(d - 1))
  <2> HIDE DEF n, d, l
  <2>1. l - 1 \in 0..Len(Docs) /\ d - 1 \in 0..Len(Docs)
    BY <1>1
  <2> QED
    BY <1>3, <2>1
<1>5. CASE n = 1
  <2> DEFINE r == IF e.from = 0 THEN UpTo(d, e.to) ELSE Rest(d, e.from, e.to)
  <2>1. RowsOf(e) = <<r>> /\ l = d /\ EndOf(e) = e.to
    BY <1>1, <1>5, RowsOfIs DEF EndOf
  <2>2. e.to \in 0..DocLen(d) /\ e.from \in 0..DocLen(d)
    <3>1. e.from \in Nat /\ e.to \in Nat /\ e.from <= e.to /\ e.to <= DocLen(d)
      BY <1>5 DEF ChunkOK
    <3> HIDE DEF n, d, l
    <3>2. DocLen(d) \in Nat
      BY <1>1, <1>2
    <3> QED
      BY <3>1, <3>2
  <2>3. IsSeq(UpTo(d, e.to)) /\ IsSeq(UpTo(d, e.from))
    BY <1>1, <1>2, <2>2
  <2>4. e.from # 0 => IsSeq(Rest(d, e.from, e.to)) /\ UpTo(d, e.to) = UpTo(d, e.from) \o Rest(d, e.from, e.to)
    BY DEF ChunkOK
  <2>5. IsSeq(r)
    BY <2>3, <2>4
  <2>6. (e.from = 0 => r = UpTo(d, e.to)) /\ (e.from # 0 => r = Rest(d, e.from, e.to))
    OBVIOUS
  <2> HIDE DEF r
  <2>7. AllSeqs(<<r>>) /\ FlattenSeq(<<r>>) = r
    BY <2>5, FlattenOne
  <2>8. e.from # 0 => (TokensOf(d - 1) \o UpTo(d, e.from)) \o r = TokensOf(d - 1) \o UpTo(d, e.to)
    <3> DEFINE s == TokensOf(d - 1)
               t == UpTo(d, e.from)
    <3>1. IsSeq(s) /\ IsSeq(t) /\ IsSeq(r)
      BY <1>4, <2>3, <2>5
    <3>2. e.from # 0 => UpTo(d, e.to) = t \o r
      BY <2>4, <2>6
    <3> HIDE DEF s, t
    <3>3. (s \o t) \o r = s \o (t \o r)
      BY <3>1, Rejoined
    <3> QED
      BY <3>2, <3>3 DEF s, t
  <2>9. SeenAt(e) = TokensOf(d - 1) \o UpTo(d, e.to)
    BY <2>1 DEF SeenAt
  <2> HIDE DEF d, l, n
  <2>10. AllSeqs(RowsOf(e)) /\ IsSeq(FlattenSeq(RowsOf(e))) /\ IsSeq(UpTo(l, EndOf(e))) /\ FlattenSeq(RowsOf(e)) = r
    BY <2>1, <2>3, <2>5, <2>7
  <2>11. IF e.from = 0 THEN TokensOf(d - 1) \o r = SeenAt(e)
         ELSE (TokensOf(d - 1) \o UpTo(d, e.from)) \o r = SeenAt(e)
    BY <2>6, <2>8, <2>9
  <2> QED
    BY <1>4, <2>10, <2>11 DEF d, l
<1>6. CASE n > 1
  <2> DEFINE ds == e.docs
             a == d - 1
  <2>1. RowsOf(e) = Rows(ds) /\ e.from = 0 /\ EndOf(e) = DocLen(l)
    <3>1. Len(e.docs) # 1
      <4> HIDE DEF n, d, l
      <4>1. n # 1
        BY <1>1, <1>6
      <4> QED
        BY <4>1 DEF n
    <3> QED
      BY <1>1, <1>6, <3>1, RowsOfIs DEF EndOf
  <2>2. IsSeq(ds) /\ Len(ds) = n /\ \A k \in 1..n : ds[k] = d + k - 1 /\ ds[k] \in 1..Len(Docs)
    BY DEF ChunkOK
  <2> HIDE DEF ds, n, d, l
  <2>3. a \in Nat /\ a + n = l /\ l <= Len(Docs) /\ \A k \in 1..n : ds[k] = a + k
    BY <1>1, <2>2
  <2> HIDE DEF a
  <2>4. TokensOf(a) \o FlattenSeq(Rows(ds)) = TokensOf(l) /\ IsSeq(FlattenSeq(Rows(ds)))
    BY <2>2, <2>3, TokensGrow
  <2>5. AllSeqs(Rows(ds))
    BY <2>2, RowsAre
  <2>6. TokensOf(l - 1) \o Encoded(Docs[l], TRUE) = TokensOf(l)
    BY <1>1, DocTokens
  <2>7. DocLen(l) \in 0..DocLen(l)
    <3>1. DocLen(l) \in Nat
      BY <1>1, <1>2
    <3> QED
      BY <3>1
  <2>8. UpTo(l, EndOf(e)) = Encoded(Docs[l], TRUE) /\ IsSeq(UpTo(l, EndOf(e)))
    BY <1>1, <1>2, <2>1, <2>7
  <2>9. SeenAt(e) = TokensOf(l)
    BY <2>6, <2>8 DEF SeenAt, l
  <2> QED
    BY <1>4, <2>1, <2>4, <2>5, <2>8, <2>9 DEF a, d, l
<1>7. n = 1 \/ n > 1
  <2> HIDE DEF n, d, l
  <2> QED
    BY <1>1
<1> QED
  BY <1>5, <1>6, <1>7

(* What has come before a chunk is what its fragment, or its first document, goes on from. *)
LEMMA SeenFollows ==
    ASSUME input \in Inputs, CutsExact(input), NEW c, ChunkOK(c), NEW e, Follows(e, c)
    PROVE  SeenAt(c) = IF e.from = 0 THEN TokensOf(e.docs[1] - 1)
                       ELSE TokensOf(e.docs[1] - 1) \o UpTo(e.docs[1], e.from)
<1>1. CASE e.from = 0
  <2> DEFINE l == LastDoc(c)
  <2>1. l \in 1..Len(Docs) /\ e.docs[1] = l + 1 /\ EndOf(c) = DocLen(l)
    BY <1>1, RowsOfIs DEF Follows
  <2>2. SeenAt(c) = TokensOf(l - 1) \o UpTo(l, DocLen(l))
    BY <2>1 DEF SeenAt
  <2> HIDE DEF l
  <2>3. UpTo(l, DocLen(l)) = Encoded(Docs[l], TRUE) /\ TokensOf(l - 1) \o Encoded(Docs[l], TRUE) = TokensOf(l)
    BY <2>1, EncodedIsSeq, DocTokens
  <2>4. e.docs[1] - 1 = l
    BY <2>1
  <2> QED
    BY <1>1, <2>2, <2>3, <2>4
<1>2. CASE e.from # 0
  <2>1. Len(c.docs) = 1 /\ e.docs[1] = c.docs[1] /\ e.from = c.to
    BY <1>2 DEF Follows
  <2>2. LastDoc(c) = e.docs[1] /\ EndOf(c) = e.from
    BY <2>1 DEF LastDoc, EndOf
  <2> QED
    BY <1>2, <2>2 DEF SeenAt
<1> QED
  BY <1>1, <1>2

LEMMA NoTokens == TokensOf(0) = <<>>
<1> DEFINE u == Upward(0)
<1>1. IsSeq(u) /\ Len(u) = 0
  BY UpwardFacts
<1> HIDE DEF u
<1>2. u = <<>>
  BY <1>1, EmptyJoin, SameSeq
<1> DEFINE r == Rows(<<>>)
<1>3. r = [n \in 1..0 |-> Encoded(Docs[<<>>[n]], TRUE)]
  BY EmptyJoin, SeqFacts DEF Rows
<1>4. IsSeq(r) /\ Len(r) = 0
  BY <1>3, FunSeq
<1> HIDE DEF r
<1>5. r = <<>>
  BY <1>4, EmptyJoin, SameSeq
<1> QED
  BY <1>2, <1>5, FlattenNone DEF TokensOf, r, u

(* The chunks of the first b documents encode to what the documents do. *)
LEMMA RunTokens ==
    ASSUME input \in Inputs, CutsExact(input), NEW b \in 0..Len(Docs), NEW cs, Run(cs, 0, b)
    PROVE  /\ FlattenSeq([c \in DOMAIN cs |-> FlattenSeq(RowsOf(cs[c]))]) = TokensOf(b)
<1> DEFINE n == Len(cs)
           ss == [c \in DOMAIN cs |-> FlattenSeq(RowsOf(cs[c]))]
<1>1. n \in Nat /\ DOMAIN cs = 1..n
  BY SeqFacts DEF Run
<1>2. IsSeq(ss) /\ Len(ss) = n
  <2>1. ss = [c \in 1..n |-> FlattenSeq(RowsOf(cs[c]))]
    BY <1>1
  <2> HIDE DEF n
  <2> QED
    BY <1>1, <2>1, FunSeq
<1>3. \A k \in 1..n : ss[k] = FlattenSeq(RowsOf(cs[k]))
  BY <1>1
<1> HIDE DEF ss
<1>4. \A k \in 1..n : ChunkOK(cs[k]) /\ (k > 1 => Follows(cs[k], cs[k - 1]))
  BY DEF Run
<1> HIDE DEF n
<1>5. AllSeqs(ss)
  <2>1. \A k \in 1..n : IsSeq(ss[k])
    BY <1>3, <1>4, ChunkSeen
  <2> QED
    BY <1>2, <2>1 DEF AllSeqs
<1>6. PICK f : JoinedTo(f, ss, n)
  <2>1. n \in Nat
    BY <1>1
  <2> QED
    BY <2>1, JoinedExists
<1>7. FlattenSeq(ss) = f[n]
  BY <1>2, <1>5, <1>6, FlattenIs
<1> DEFINE bad == {k \in 1..n : f[k] # SeenAt(cs[k])}
<1>8. bad = {}
  <2> SUFFICES ASSUME bad # {} PROVE FALSE
    OBVIOUS
  <2>1. PICK k \in bad : \A y \in bad : k <= y
    <3>1. bad \in SUBSET Nat
      OBVIOUS
    <3> HIDE DEF bad
    <3> QED
      BY <3>1, LeastNat
  <2>2. k \in 1..n /\ f[k] # SeenAt(cs[k])
    OBVIOUS
  <2>3. f[k] = f[k - 1] \o FlattenSeq(RowsOf(cs[k]))
    BY <1>3, <1>6, <2>2 DEF JoinedTo
  <2>4. f[k - 1] = IF cs[k].from = 0 THEN TokensOf(cs[k].docs[1] - 1)
                   ELSE TokensOf(cs[k].docs[1] - 1) \o UpTo(cs[k].docs[1], cs[k].from)
    <3>1. CASE k = 1
      <4>1. f[k - 1] = <<>>
        BY <1>6, <3>1 DEF JoinedTo
      <4>2. cs[1].from = 0 /\ cs[1].docs[1] = 0 + 1
        <5>1. n > 0
          BY <1>1, <2>2
        <5> QED
          BY <5>1 DEF Run, n
      <4>3. cs[1].docs[1] - 1 = 0
        BY <4>2
      <4> QED
        BY <3>1, <4>1, <4>2, <4>3, NoTokens
    <3>2. CASE k > 1
      <4>1. k - 1 \in 1..n /\ k - 1 \notin bad
        <5> HIDE DEF bad
        <5> QED
          BY <1>1, <2>1, <2>2, <3>2
      <4>2. f[k - 1] = SeenAt(cs[k - 1])
        BY <4>1
      <4>3. ChunkOK(cs[k - 1]) /\ Follows(cs[k], cs[k - 1])
        BY <1>4, <2>2, <3>2, <4>1
      <4> DEFINE c == cs[k - 1]
                 e == cs[k]
      <4>4. ChunkOK(c) /\ Follows(e, c)
        BY <4>3
      <4> HIDE DEF c, e
      <4>5. SeenAt(c) = IF e.from = 0 THEN TokensOf(e.docs[1] - 1)
                        ELSE TokensOf(e.docs[1] - 1) \o UpTo(e.docs[1], e.from)
        BY <4>4, SeenFollows
      <4> QED
        BY <4>2, <4>5 DEF c, e
    <3> QED
      BY <2>2, <3>1, <3>2
  <2>5. ChunkOK(cs[k])
    BY <1>4, <2>2
  <2> DEFINE e == cs[k]
  <2>6. ChunkOK(e)
    BY <2>5
  <2> HIDE DEF e
  <2>7. IF e.from = 0 THEN TokensOf(e.docs[1] - 1) \o FlattenSeq(RowsOf(e)) = SeenAt(e)
        ELSE (TokensOf(e.docs[1] - 1) \o UpTo(e.docs[1], e.from)) \o FlattenSeq(RowsOf(e)) = SeenAt(e)
    BY <2>6, ChunkSeen
  <2>8. f[k] = SeenAt(e)
    BY <2>3, <2>4, <2>7 DEF e
  <2> QED
    BY <2>2, <2>8 DEF e
<1>9. CASE n = 0
  <2>1. b = 0
    BY <1>9 DEF Run, n
  <2> QED
    BY <1>6, <1>7, <1>9, <2>1, NoTokens DEF JoinedTo, ss
<1>10. CASE n > 0
  <2>1. n \in 1..n
    BY <1>1, <1>10
  <2>2. f[n] = SeenAt(cs[n])
    BY <1>8, <2>1
  <2>3. LastDoc(cs[n]) = b /\ EndOf(cs[n]) = DocLen(b)
    BY <1>10 DEF Run, n
  <2>4. b \in 1..Len(Docs)
    BY <1>4, <2>1, <2>3, RowsOfIs
  <2>5. UpTo(b, DocLen(b)) = Encoded(Docs[b], TRUE) /\ TokensOf(b - 1) \o Encoded(Docs[b], TRUE) = TokensOf(b)
    BY <2>4, EncodedIsSeq, DocTokens
  <2> QED
    BY <1>7, <2>2, <2>3, <2>5 DEF SeenAt, ss
<1> QED
  BY <1>1, <1>9, <1>10
-----------------------------------------------------------------------------
(* The row lengths once chunk e is counted, and what they are just before. *)
CountsAfter(cn, e) ==
    /\ IsSeq(cn) /\ Len(cn) = LastDoc(e)
    /\ \A d \in 1..(LastDoc(e) - 1) : cn[d] = Len(Encoded(Docs[d], TRUE))
    /\ cn[LastDoc(e)] = Len(UpTo(LastDoc(e), EndOf(e)))
CountsBefore(cn, e) ==
    /\ IsSeq(cn) /\ Len(cn) = IF e.from = 0 THEN e.docs[1] - 1 ELSE e.docs[1]
    /\ \A d \in 1..(e.docs[1] - 1) : cn[d] = Len(Encoded(Docs[d], TRUE))
    /\ e.from # 0 => cn[e.docs[1]] = Len(UpTo(e.docs[1], e.from))

LEMMA CountsGoOn ==
    ASSUME input \in Inputs, CutsExact(input), NEW c, ChunkOK(c), NEW e, Follows(e, c), NEW cn, CountsAfter(cn, c)
    PROVE  CountsBefore(cn, e)
<1> DEFINE l == LastDoc(c)
<1>1. l \in 1..Len(Docs) /\ Len(Docs) \in Nat
  BY RowsOfIs, InputFacts
<1>2. /\ IsSeq(cn) /\ Len(cn) = l /\ (\A d \in 1..(l - 1) : cn[d] = Len(Encoded(Docs[d], TRUE)))
      /\ cn[l] = Len(UpTo(l, EndOf(c)))
  BY DEF CountsAfter
<1>3. CASE e.from = 0
  <2>1. e.docs[1] = l + 1 /\ EndOf(c) = DocLen(l)
    BY <1>3 DEF Follows
  <2> HIDE DEF l
  <2>2. e.docs[1] - 1 = l
    BY <1>1, <2>1
  <2>3. UpTo(l, EndOf(c)) = Encoded(Docs[l], TRUE)
    BY <1>1, <2>1, EncodedIsSeq
  <2>4. \A d \in 1..l : cn[d] = Len(Encoded(Docs[d], TRUE))
    <3>1. \A d \in 1..l : d \in 1..(l - 1) \/ d = l
      BY <1>1
    <3> QED
      BY <1>2, <2>3, <3>1
  <2> QED
    BY <1>2, <1>3, <2>2, <2>4 DEF CountsBefore
<1>4. CASE e.from # 0
  <2>1. Len(c.docs) = 1 /\ e.docs[1] = c.docs[1] /\ e.from = c.to
    BY <1>4 DEF Follows
  <2>2. e.docs[1] = l /\ EndOf(c) = e.from
    BY <2>1 DEF LastDoc, EndOf
  <2> HIDE DEF l
  <2> QED
    BY <1>2, <1>4, <2>2 DEF CountsBefore
<1> QED
  BY <1>3, <1>4

LEMMA LensAre ==
    ASSUME NEW e, ChunkOK(e)
    PROVE  IsSeq(Lens(e)) /\ Len(Lens(e)) = Len(e.docs) /\ \A n \in 1..Len(e.docs) : Lens(e)[n] = Len(RowsOf(e)[n])
<1>1. IsSeq(e.docs) /\ Len(e.docs) \in Nat /\ DOMAIN e.docs = 1..Len(e.docs)
  BY SeqFacts DEF ChunkOK
<1> DEFINE t == Lens(e)
<1>2. t = [n \in 1..Len(e.docs) |-> Len(RowsOf(e)[n])]
  BY <1>1 DEF Lens
<1>3. IsSeq(t) /\ Len(t) = Len(e.docs)
  BY <1>1, <1>2, FunSeq
<1>4. \A n \in 1..Len(e.docs) : t[n] = Len(RowsOf(e)[n])
  BY <1>2
<1> HIDE DEF t
<1> QED
  BY <1>3, <1>4 DEF t

(* A chunk that starts rows of its own. *)
LEMMA CountsStart ==
    ASSUME input \in Inputs, CutsExact(input), NEW e, ChunkOK(e), e.from = 0, NEW cn, CountsBefore(cn, e)
    PROVE  CountsAfter(cn \o Lens(e), e)
<1> DEFINE a == e.docs[1] - 1
           n == Len(e.docs)
           l == LastDoc(e)
           s == Lens(e)
           t == cn \o s
<1>1. n \in Nat /\ n > 0 /\ \A k \in 1..n : e.docs[k] = e.docs[1] + k - 1 /\ e.docs[k] \in 1..Len(Docs)
  BY DEF ChunkOK
<1>2. l = e.docs[1] + n - 1 /\ l \in 1..Len(Docs) /\ Len(Docs) \in Nat /\ l = e.docs[n]
  BY RowsOfIs, InputFacts DEF LastDoc
<1>3. e.docs[1] \in Int
  <2> HIDE DEF n
  <2>1. 1 \in 1..n
    BY <1>1
  <2> QED
    BY <1>1, <1>2, <2>1
<1>4. IsSeq(cn) /\ Len(cn) = a /\ \A d \in 1..a : cn[d] = Len(Encoded(Docs[d], TRUE))
  BY DEF CountsBefore
<1>5. IsSeq(s) /\ Len(s) = n /\ \A k \in 1..n : s[k] = Len(RowsOf(e)[k])
  BY LensAre
<1>6. \A k \in 1..n : RowsOf(e)[k] = IF k = n THEN UpTo(l, EndOf(e)) ELSE Encoded(Docs[e.docs[k]], TRUE)
  <2>1. CASE n = 1
    <3>1. RowsOf(e) = <<UpTo(e.docs[1], e.to)>> /\ l = e.docs[1] /\ EndOf(e) = e.to
      BY <2>1, RowsOfIs DEF LastDoc, EndOf
    <3>2. RowsOf(e)[1] = UpTo(l, EndOf(e))
      BY <3>1, OneIsSeq
    <3> HIDE DEF n, l
    <3>3. \A k \in 1..n : k = 1
      BY <2>1
    <3> QED
      BY <2>1, <3>2, <3>3
  <2>2. CASE n > 1
    <3>1. n # 1
      <4> HIDE DEF n
      <4> QED
        BY <2>2, <1>1
    <3>2. RowsOf(e) = Rows(e.docs) /\ EndOf(e) = DocLen(l)
      BY <2>2, <3>1, RowsOfIs DEF EndOf
    <3>3. IsSeq(e.docs)
      BY DEF ChunkOK
    <3>4. \A k \in 1..n : Rows(e.docs)[k] = Encoded(Docs[e.docs[k]], TRUE)
      BY <1>1, <3>3, RowsAre
    <3>5. UpTo(l, EndOf(e)) = Encoded(Docs[e.docs[n]], TRUE)
      BY <1>2, <3>2, EncodedIsSeq
    <3> HIDE DEF n, l
    <3> QED
      BY <3>2, <3>4, <3>5
  <2> HIDE DEF n, l
  <2>3. n = 1 \/ n > 1
    BY <1>1
  <2> QED
    BY <2>1, <2>2, <2>3
<1>7. a \in Nat /\ l = a + n /\ \A k \in 1..n : e.docs[k] = a + k
  <2> HIDE DEF n, l
  <2>1. 1 \in 1..n
    BY <1>1
  <2>2. e.docs[1] \in 1..Len(Docs)
    BY <1>1, <2>1
  <2> DEFINE d == e.docs[1]
  <2>3. d \in Nat /\ d > 0 /\ a = d - 1 /\ l = d + n - 1 /\ \A k \in 1..n : e.docs[k] = d + k - 1
    BY <1>1, <1>2, <2>2
  <2> HIDE DEF d, a
  <2> QED
    BY <1>1, <2>3
<1> HIDE DEF a, n, l, s
<1>8. /\ IsSeq(t) /\ Len(t) = a + n
      /\ (\A k \in 1..a : t[k] = cn[k]) /\ \A k \in 1..n : t[a + k] = s[k]
  <2>1. IsSeq(cn) /\ IsSeq(s) /\ Len(cn) \in Nat /\ Len(s) \in Nat
    BY <1>1, <1>4, <1>5, <1>7
  <2>2. /\ IsSeq(t) /\ Len(t) = Len(cn) + Len(s)
        /\ (\A k \in 1..Len(cn) : t[k] = cn[k]) /\ \A k \in 1..Len(s) : t[Len(cn) + k] = s[k]
    BY <2>1, Joined2
  <2> HIDE DEF t
  <2> QED
    BY <1>4, <1>5, <2>2
<1> HIDE DEF t
<1>9. ASSUME NEW d \in 1..(l - 1) PROVE t[d] = Len(Encoded(Docs[d], TRUE))
  <2>1. CASE d <= a
    <3>1. d \in 1..a
      BY <2>1
    <3> QED
      BY <1>4, <1>8, <3>1
  <2>2. CASE d > a
    <3> DEFINE k == d - a
    <3>1. k \in 1..n /\ k # n /\ d = a + k
      BY <1>1, <1>7, <2>2
    <3> HIDE DEF k
    <3>2. t[d] = s[k] /\ e.docs[k] = d
      BY <1>7, <1>8, <3>1
    <3>3. s[k] = Len(Encoded(Docs[d], TRUE))
      BY <1>5, <1>6, <3>1, <3>2
    <3> QED
      BY <3>2, <3>3
  <2>3. d <= a \/ d > a
    BY <1>1, <1>7
  <2> QED
    BY <2>1, <2>2, <2>3
<1>10. t[l] = Len(UpTo(l, EndOf(e)))
  <2>1. n \in 1..n
    BY <1>1
  <2> QED
    BY <1>5, <1>6, <1>7, <1>8, <2>1
<1>11. CountsAfter(t, e)
  BY <1>7, <1>8, <1>9, <1>10 DEF CountsAfter, l
<1> QED
  BY <1>11 DEF t, s

(* A fragment goes on with the row of the one before it. *)
LEMMA CountsContinue ==
    ASSUME input \in Inputs, CutsExact(input), NEW e, ChunkOK(e), e.from # 0, NEW cn, CountsBefore(cn, e)
    PROVE  CountsAfter([cn EXCEPT ![Len(cn)] = @ + Lens(e)[1]] \o Tail(Lens(e)), e)
<1> DEFINE d == e.docs[1]
           s == Lens(e)
           x == cn[d] + s[1]
           t == [cn EXCEPT ![Len(cn)] = @ + s[1]]
<1>1. Len(e.docs) = 1 /\ IsSeq(Rest(d, e.from, e.to)) /\ UpTo(d, e.to) = UpTo(d, e.from) \o Rest(d, e.from, e.to)
  BY DEF ChunkOK
<1>2. RowsOf(e) = <<Rest(d, e.from, e.to)>> /\ LastDoc(e) = d /\ EndOf(e) = e.to /\ d \in 1..Len(Docs)
  BY <1>1, RowsOfIs DEF LastDoc, EndOf
<1>3. IsSeq(s) /\ Len(s) = 1 /\ s[1] = Len(Rest(d, e.from, e.to))
  <2>1. RowsOf(e)[1] = Rest(d, e.from, e.to)
    BY <1>2, OneIsSeq
  <2>2. IsSeq(s) /\ Len(s) = 1 /\ \A n \in 1..1 : s[n] = Len(RowsOf(e)[n])
    BY <1>1, LensAre
  <2> HIDE DEF s
  <2>3. 1 \in 1..1
    OBVIOUS
  <2> QED
    BY <2>1, <2>2, <2>3
<1>4. Tail(s) = <<>>
  <2> HIDE DEF s
  <2>1. PICK S : s \in Seq(S)
    BY <1>3 DEF IsSeq
  <2>2. s # <<>>
    <3> SUFFICES ASSUME s = <<>> PROVE FALSE
      OBVIOUS
    <3>1. Len(s) = Len(<<>>) /\ Len(<<>>) = 0
      BY EmptyJoin, Zenon
    <3> QED
      BY <1>3, <3>1
  <2>3. Tail(s) \in Seq(S) /\ Len(Tail(s)) = Len(s) - 1
    BY <2>1, <2>2, HeadTailProperties
  <2>4. IsSeq(Tail(s)) /\ Len(Tail(s)) = 0
    BY <1>3, <2>3 DEF IsSeq
  <2> DEFINE q == Tail(s)
  <2>5. IsSeq(q) /\ Len(q) = 0
    BY <2>4
  <2> HIDE DEF q
  <2>6. IsSeq(<<>>) /\ Len(<<>>) = 0 /\ \A k \in 1..0 : FALSE
    BY EmptyJoin
  <2>7. q = <<>>
    BY <2>5, <2>6, SameSeq
  <2> QED
    BY <2>7 DEF q
<1>5. /\ IsSeq(cn) /\ Len(cn) = d /\ cn[d] = Len(UpTo(d, e.from))
      /\ \A k \in 1..(d - 1) : cn[k] = Len(Encoded(Docs[k], TRUE))
  BY DEF CountsBefore
<1>6. e.from \in 0..DocLen(d)
  <2>1. e.from \in Nat /\ e.to \in Nat /\ e.from <= e.to /\ e.to <= DocLen(d)
    BY <1>1 DEF ChunkOK
  <2>2. DocLen(d) \in Nat
    BY <1>2, InputFacts
  <2> HIDE DEF d
  <2> QED
    BY <2>1, <2>2
<1>7. x = Len(UpTo(d, e.to))
  <2> DEFINE u == UpTo(d, e.from)
             r == Rest(d, e.from, e.to)
  <2>1. IsSeq(u) /\ IsSeq(r)
    BY <1>1, <1>2, <1>6, EncodedIsSeq
  <2>2. UpTo(d, e.to) = u \o r /\ cn[d] = Len(u) /\ s[1] = Len(r)
    BY <1>1, <1>3, <1>5
  <2> HIDE DEF u, r, s, d
  <2>3. Len(u \o r) = Len(u) + Len(r)
    BY <2>1, Joined2
  <2> QED
    BY <2>2, <2>3
<1>8. IsSeq(t) /\ Len(t) = d /\ t[d] = x /\ \A k \in 1..(d - 1) : t[k] = cn[k]
  <2>1. DOMAIN cn = 1..d /\ d \in Nat /\ d > 0
    BY <1>2, <1>5, SeqFacts, InputFacts
  <2> HIDE DEF d, s
  <2>2. t = [k \in 1..d |-> IF k = d THEN cn[d] + s[1] ELSE cn[k]]
    BY <1>5, <2>1
  <2>3. DOMAIN t = 1..d /\ t = [k \in 1..d |-> t[k]]
    BY <2>2
  <2>4. t[d] = x /\ \A k \in 1..(d - 1) : t[k] = cn[k]
    BY <2>1, <2>2
  <2> HIDE DEF t
  <2>5. IsSeq(t) /\ Len(t) = d
    BY <2>1, <2>3, FunSeq
  <2> QED
    BY <2>4, <2>5
<1> HIDE DEF t, x
<1>9. t \o <<>> = t
  BY <1>8, EmptyJoin
<1>10. CountsAfter(t, e)
  <2> HIDE DEF d
  <2> QED
    BY <1>2, <1>5, <1>7, <1>8 DEF CountsAfter
<1> QED
  BY <1>4, <1>9, <1>10 DEF t, s
-----------------------------------------------------------------------------
(* A chunk of the tail is small as far as its documents allow. *)
SmallChunk(c) ==
    ~SentencePiece /\ SumLen(Upward(c.docs[1] - 1)) + c.from >= HeadBytes =>
        IF Len(c.docs) = 1
        THEN \A p \in (c.from + TailTarget)..(c.to - 2) :
                ~SafeAt(Docs[c.docs[1]], input.tokens, p) \/ Len(Docs[c.docs[1]]) <= 2 * Target
        ELSE SumLen(Front(c.docs)) < TailTarget

(* The inductive invariant: the open group holds the last documents taken, and acc and
   emitted are its bytes and those of the documents before it; the chunks run from the
   first document to the open group; a chunk of the tail is small, and an open group
   too; and counts holds the rows up to the last chunk counted. *)
InputInv == input \in Inputs /\ CutsExact(input) /\ taken \in 0..Len(Docs)
GroupInv ==
    /\ IsSeq(group) /\ Len(group) <= taken
    /\ \A k \in 1..Len(group) : group[k] = (taken - Len(group)) + k /\ ~Oversized(group[k])
BytesInv ==
    /\ acc = SumLen(group) /\ emitted = SumLen(Upward(taken - Len(group)))
    /\ emitted + acc = SumLen(Upward(taken))
RunInv == Run(chunks, 0, taken - Len(group))
SmallInv ==
    /\ Len(group) > 0 /\ ~SentencePiece /\ emitted >= HeadBytes => acc < TailTarget
    /\ \A k \in 1..Len(chunks) : SmallChunk(chunks[k])
CountInv ==
    /\ counted \in 0..Len(chunks)
    /\ counted = 0 => counts = <<>>
    /\ counted > 0 => taken = Len(Docs) /\ group = <<>> /\ CountsAfter(counts, chunks[counted])
ChunksInv == InputInv /\ GroupInv /\ BytesInv /\ RunInv /\ SmallInv /\ CountInv

LEMMA BytesAre ==
    ASSUME input \in Inputs
    PROVE  /\ \A n \in 0..Len(Docs) : SumLen(Upward(n)) \in Nat
           /\ HeadBytes \in Nat
<1>1. Len(Docs) \in Nat /\ DOMAIN Docs = 1..Len(Docs) /\ \A d \in 1..Len(Docs) : DocLen(d) \in Nat
  BY InputFacts
<1>2. ASSUME NEW n \in 0..Len(Docs) PROVE SumLen(Upward(n)) \in Nat
  <2> DEFINE u == Upward(n)
  <2>1. Len(u) = n /\ \A k \in 1..n : u[k] = k
    BY UpwardFacts
  <2> HIDE DEF u
  <2>2. Len(u) \in Nat /\ \A k \in 1..Len(u) : DocLen(u[k]) \in Nat
    BY <1>1, <2>1
  <2>3. SumLen(u) \in Nat
    BY <2>2, SumIsNat
  <2> QED
    BY <2>3 DEF u
<1>3. TotalBytes \in Nat
  <2>1. Len(Docs) \in 0..Len(Docs)
    BY <1>1
  <2>2. TotalBytes = SumLen(Upward(Len(Docs)))
    BY <1>1 DEF TotalBytes, Upward
  <2> QED
    BY <1>2, <2>1, <2>2
<1>4. HeadBytes \in Nat
  <2>1. TotalBytes - TotalBytes \div 5 \in Nat
    BY <1>3
  <2> QED
    BY <2>1 DEF HeadBytes
<1> QED
  BY <1>2, <1>4

LEMMA SmallGroup ==
    ASSUME input \in Inputs, NEW a \in Nat, NEW ds, IsSeq(ds), Len(ds) > 0, a + Len(ds) <= Len(Docs),
           \A n \in 1..Len(ds) : ds[n] = a + n,
           Len(ds) = 1 => ~Oversized(ds[1]),
           Len(ds) > 1 /\ ~SentencePiece /\ SumLen(Upward(a)) >= HeadBytes => SumLen(Front(ds)) < TailTarget
    PROVE  SmallChunk(Group(ds))
<1> DEFINE c == Group(ds)
<1>1. c.docs = ds /\ c.from = 0
  BY DEF Group
<1> HIDE DEF c
<1>2. Len(ds) \in Nat /\ Len(Docs) \in Nat
  BY SeqFacts, InputFacts
<1>3. ds[1] = a + 1 /\ ds[1] \in 1..Len(Docs)
  <2>1. 1 \in 1..Len(ds)
    BY <1>2
  <2> QED
    BY <1>2, <2>1
<1>4. SUFFICES ASSUME ~SentencePiece, SumLen(Upward(c.docs[1] - 1)) + c.from >= HeadBytes
      PROVE  IF Len(c.docs) = 1
             THEN \A p \in (c.from + TailTarget)..(c.to - 2) :
                     ~SafeAt(Docs[c.docs[1]], input.tokens, p) \/ Len(Docs[c.docs[1]]) <= 2 * Target
             ELSE SumLen(Front(c.docs)) < TailTarget
  BY DEF SmallChunk, c
<1>5. SumLen(Upward(a)) >= HeadBytes
  <2>1. c.docs[1] - 1 = a /\ a \in 0..Len(Docs)
    BY <1>1, <1>2, <1>3
  <2>2. SumLen(Upward(a)) \in Nat
    BY <2>1, BytesAre
  <2> QED
    BY <1>1, <1>4, <2>1, <2>2
<1>6. CASE Len(ds) = 1
  <2>1. DocLen(ds[1]) <= 2 * Target
    <3>1. ~Oversized(ds[1]) /\ CanSplit
      BY <1>4, <1>6 DEF CanSplit
    <3>2. ~(DocLen(ds[1]) > 2 * Target)
      BY <3>1 DEF Oversized
    <3>3. DocLen(ds[1]) \in Nat /\ Target \in Nat
      BY <1>3, InputFacts
    <3> QED
      BY <3>2, <3>3
  <2>2. Len(Docs[ds[1]]) <= 2 * Target
    BY <1>3, <2>1, InputFacts
  <2> QED
    BY <1>1, <1>6, <2>2
<1>7. CASE Len(ds) # 1
  <2>1. Len(ds) > 1
    <3> DEFINE l == Len(ds)
    <3>1. l \in Nat /\ l > 0 /\ l # 1
      BY <1>2, <1>7
    <3> HIDE DEF l
    <3>2. l > 1
      BY <3>1
    <3> QED
      BY <3>2 DEF l
  <2>2. SumLen(Front(ds)) < TailTarget
    BY <1>4, <1>5, <2>1
  <2> QED
    BY <1>1, <1>7, <2>2
<1> QED
  BY <1>6, <1>7

LEMMA SmallFragment ==
    ASSUME input \in Inputs, taken \in 0..Len(Docs), taken + 1 <= Len(Docs), NEW x \in Nat, NEW y \in Nat,
           SmallOK(taken + 1, HeadLen(SumLen(Upward(taken))), <<x, y>>)
    PROVE  SmallChunk(Fragment(taken + 1, x, y))
<1> DEFINE d == taken + 1
           b == SumLen(Upward(taken))
           c == Fragment(d, x, y)
<1>1. c.docs = <<d>> /\ c.from = x /\ c.to = y
  BY DEF Fragment
<1>2. Len(c.docs) = 1 /\ c.docs[1] = d
  BY <1>1, OneIsSeq
<1> HIDE DEF c
<1>3. SUFFICES ASSUME ~SentencePiece, SumLen(Upward(c.docs[1] - 1)) + c.from >= HeadBytes
      PROVE  \A p \in (x + TailTarget)..(y - 2) : ~SafeAt(Docs[d], input.tokens, p)
  BY <1>1, <1>2 DEF SmallChunk, c
<1>4. d - 1 = taken /\ b \in Nat /\ HeadBytes \in Nat
  BY BytesAre
<1>5. b + x >= HeadBytes
  <2>1. c.docs[1] - 1 = taken
    BY <1>2, <1>4
  <2> QED
    BY <1>1, <1>3, <2>1
<1>6. ~(input.lpt /\ x < HeadLen(b))
  <2> HIDE DEF b
  <2> SUFFICES ASSUME input.lpt PROVE ~(x < HeadLen(b))
    OBVIOUS
  <2>1. HeadLen(b) = IF HeadBytes < b THEN 0 ELSE HeadBytes - b
    BY DEF HeadLen
  <2> QED
    BY <1>4, <1>5, <2>1
<1> HIDE DEF b
<1>7. \A p \in (<<x, y>>[1] + TailTarget)..(<<x, y>>[2] - 2) : ~SafeAt(Docs[d], input.tokens, p)
  BY <1>3, <1>6 DEF SmallOK, b
<1> QED
  BY <1>7

(* The documents ds become a chunk behind those of the first a documents. *)
LEMMA CloseGroup ==
    ASSUME input \in Inputs, NEW a \in Nat, Run(chunks, 0, a), \A k \in 1..Len(chunks) : SmallChunk(chunks[k]),
           NEW ds, IsSeq(ds), Len(ds) > 0, a + Len(ds) <= Len(Docs),
           \A n \in 1..Len(ds) : ds[n] = a + n,
           Len(ds) = 1 => ~Oversized(ds[1]),
           Len(ds) > 1 /\ ~SentencePiece /\ SumLen(Upward(a)) >= HeadBytes => SumLen(Front(ds)) < TailTarget
    PROVE  /\ Run(Append(chunks, Group(ds)), 0, a + Len(ds))
           /\ \A k \in 1..Len(Append(chunks, Group(ds))) : SmallChunk(Append(chunks, Group(ds))[k])
<1> DEFINE g == Group(ds)
           n == Len(chunks)
<1>1. SmallChunk(g)
  BY SmallGroup
<1>2. Run(<<g>>, a, a + Len(ds))
  BY RunGroup
<1> HIDE DEF g
<1>3. IsSeq(chunks) /\ n \in Nat /\ Len(ds) \in Nat /\ a + Len(ds) \in Nat
  BY SeqFacts DEF Run
<1>4. /\ Len(Append(chunks, g)) = n + 1 /\ Append(chunks, g) = chunks \o <<g>>
      /\ (\A k \in 1..n : Append(chunks, g)[k] = chunks[k]) /\ Append(chunks, g)[n + 1] = g
  BY <1>3, AppendFacts
<1>5. Run(chunks \o <<g>>, 0, a + Len(ds))
  BY <1>2, <1>3, RunJoin
<1>6. Run(Append(chunks, g), 0, a + Len(ds))
  BY <1>4, <1>5
<1> DEFINE t == Append(chunks, g)
<1>7. Len(t) = n + 1 /\ (\A k \in 1..n : t[k] = chunks[k]) /\ t[n + 1] = g
  BY <1>4
<1> HIDE DEF t
<1>8. ASSUME NEW k \in 1..Len(t) PROVE SmallChunk(t[k])
  <2>1. CASE k \in 1..n
    <3>1. t[k] = chunks[k]
      BY <1>7, <2>1
    <3> QED
      BY <2>1, <3>1
  <2>2. CASE k = n + 1
    BY <1>1, <1>7, <2>2
  <2>3. k \in 1..n \/ k = n + 1
    BY <1>3, <1>7
  <2> QED
    BY <2>1, <2>2, <2>3
<1> QED
  BY <1>6, <1>8 DEF t, g

LEMMA FlushedIs ==
    ASSUME InputInv, GroupInv, BytesInv, RunInv, SmallInv
    PROVE  Run(Flushed, 0, taken) /\ \A k \in 1..Len(Flushed) : SmallChunk(Flushed[k])
<1> DEFINE a == taken - Len(group)
<1>1. /\ input \in Inputs /\ taken \in 0..Len(Docs) /\ Len(Docs) \in Nat
      /\ IsSeq(group) /\ Len(group) \in Nat /\ Len(group) <= taken
      /\ \A k \in 1..Len(group) : group[k] = a + k /\ ~Oversized(group[k])
  BY InputFacts, SeqFacts DEF InputInv, GroupInv
<1>2. Run(chunks, 0, a) /\ \A k \in 1..Len(chunks) : SmallChunk(chunks[k])
  BY DEF RunInv, SmallInv
<1>3. CASE group = <<>>
  <2>1. Len(group) = 0
    BY <1>3, EmptyJoin, Zenon
  <2>2. a = taken /\ Flushed = chunks
    BY <1>1, <1>3, <2>1 DEF Flushed
  <2> QED
    BY <1>2, <2>2
<1>4. CASE group # <<>>
  <2>1. Len(group) > 0
    <3>1. Len(group) # 0
      <4> SUFFICES ASSUME Len(group) = 0 PROVE group = <<>>
        BY <1>4
      <4>1. \A k \in 1..Len(group) : group[k] = <<>>[k]
        OBVIOUS
      <4> QED
        BY <1>1, <4>1, EmptyJoin, SameSeq
    <3> QED
      BY <1>1, <3>1
  <2>2. a \in Nat /\ a + Len(group) = taken /\ taken <= Len(Docs)
    BY <1>1
  <2>3. Len(group) = 1 => ~Oversized(group[1])
    BY <1>1
  <2>4. ASSUME Len(group) > 1, ~SentencePiece, SumLen(Upward(a)) >= HeadBytes PROVE SumLen(Front(group)) < TailTarget
    <3> DEFINE l == Len(group)
               ds == Front(group)
    <3>1. acc < TailTarget
      BY <2>1, <2>4 DEF SmallInv, BytesInv
    <3>2. ds = Slice(group, 0, l - 1)
      BY DEF Front, Slice
    <3>3. l \in Nat /\ 0 <= l - 1 /\ l - 1 <= Len(group) /\ l - 1 \in Nat
      BY <1>1, <2>1
    <3>4. Len(ds) = l - 1 /\ \A k \in 1..(l - 1) : ds[k] = group[k]
      <4> HIDE DEF ds, l
      <4> DEFINE m == l - 1
      <4>1. m \in Nat /\ 0 \in Nat /\ 0 <= m /\ m <= Len(group) /\ m - 0 = m /\ \A k \in 1..m : 0 + k = k
        BY <3>3
      <4>2. ds = Slice(group, 0, m)
        BY <3>2
      <4> HIDE DEF m
      <4>3. Len(ds) = m - 0 /\ \A k \in 1..(m - 0) : ds[k] = group[0 + k]
        <5>1. IsSeq(group)
          BY <1>1
        <5>2. /\ Len(Slice(group, 0, m)) = m - 0
              /\ \A k \in 1..(m - 0) : Slice(group, 0, m)[k] = group[0 + k]
          BY <4>1, <5>1, SliceFacts
        <5> QED
          BY <4>2, <5>2
      <4>4. Len(ds) = m /\ \A k \in 1..m : ds[k] = group[k]
        BY <4>1, <4>3
      <4> QED
        BY <4>4 DEF m
    <3> HIDE DEF ds
    <3>5. Len(ds) \in Nat /\ Len(group) = Len(ds) + 1 /\ \A k \in 1..Len(ds) : group[k] = ds[k]
      BY <3>3, <3>4
    <3>6. SumLen(group) = SumLen(ds) + DocLen(group[Len(group)])
      BY <3>5, SumMore
    <3>7. \A k \in 1..Len(group) : group[k] \in 1..Len(Docs)
      BY <1>1, <2>2
    <3> DEFINE good == {d \in 1..Len(Docs) : DocLen(d) \in Nat}
    <3>12. \A k \in 1..Len(group) : group[k] \in good
      BY <1>1, <3>7, InputFacts
    <3>13. \A k \in 1..Len(group) : DocLen(group[k]) \in Nat
      BY <3>12
    <3>8. DocLen(group[Len(group)]) \in Nat
      <4>1. Len(group) \in 1..Len(group)
        BY <1>1, <2>1
      <4> QED
        BY <3>13, <4>1
    <3>9. SumLen(ds) \in Nat
      <4>1. \A k \in 1..Len(ds) : DocLen(ds[k]) \in Nat
        <5>1. \A k \in 1..Len(ds) : k \in 1..Len(group) /\ ds[k] = group[k]
          BY <3>5
        <5> QED
          BY <3>13, <5>1
      <4> QED
        BY <3>5, <4>1, SumIsNat
    <3>10. acc = SumLen(ds) + DocLen(group[Len(group)]) /\ TailTarget \in Nat
      BY <1>1, <3>6, InputFacts DEF BytesInv
    <3>11. SumLen(ds) < TailTarget
      BY <3>1, <3>8, <3>9, <3>10
    <3> QED
      BY <3>11 DEF ds
  <2>5. /\ Run(Append(chunks, Group(group)), 0, a + Len(group))
        /\ \A k \in 1..Len(Append(chunks, Group(group))) : SmallChunk(Append(chunks, Group(group))[k])
    <3> HIDE DEF a
    <3> QED
      BY <1>1, <1>2, <2>1, <2>2, <2>3, <2>4, CloseGroup
  <2>6. Flushed = Append(chunks, Group(group))
    BY <1>4 DEF Flushed
  <2> QED
    BY <2>2, <2>5, <2>6
<1> QED
  BY <1>3, <1>4

(* Nothing depends on when it is asked: the input stays. *)
LEMMA InputStays ==
    ASSUME input' = input
    PROVE  /\ Docs' = Docs /\ Target' = Target /\ SentencePiece' = SentencePiece
           /\ HeadBytes' = HeadBytes /\ TailTarget' = TailTarget
<1>1. Docs' = Docs /\ Target' = Target /\ SentencePiece' = SentencePiece
  BY DEF Docs, Target, SentencePiece
<1>2. TotalBytes' = TotalBytes
  <2>1. \A ds : SumLen(ds)' = SumLen(ds)
    BY <1>1, Zenon DEF SumLen, DocLen
  <2> QED
    BY <1>1, <2>1, Zenon DEF TotalBytes
<1>3. HeadBytes' = HeadBytes
  BY <1>2 DEF HeadBytes
<1>4. TailTarget' = TailTarget
  BY <1>1 DEF TailTarget
<1> QED
  BY <1>1, <1>3, <1>4

(* What the tokens are made of, and the rows counted, depend on the input alone. *)
LEMMA EncodedStays ==
    ASSUME input' = input
    PROVE  /\ \A b, f : Encoded(b, f)' = Encoded(b, f)
           /\ \A d : DocLen(d)' = DocLen(d)
           /\ \A d, y : UpTo(d, y)' = UpTo(d, y)
           /\ \A d, x, y : Rest(d, x, y)' = Rest(d, x, y)
           /\ \A c : LastDoc(c)' = LastDoc(c)
           /\ \A c : EndOf(c)' = EndOf(c)
<1>1. Docs' = Docs /\ SentencePiece' = SentencePiece
  BY InputStays
<1>2. \A b, f : Encoded(b, f)' = Encoded(b, f)
  BY <1>1, Zenon DEF Encoded
<1>3. \A d : DocLen(d)' = DocLen(d)
  BY <1>1, Zenon DEF DocLen
<1>4. \A d, y : UpTo(d, y)' = UpTo(d, y)
  BY <1>1, <1>2, Zenon DEF UpTo
<1>5. \A d, x, y : Rest(d, x, y)' = Rest(d, x, y)
  BY <1>1, <1>2, Zenon DEF Rest
<1>6. \A c : LastDoc(c)' = LastDoc(c)
  BY Zenon DEF LastDoc
<1>7. \A c : EndOf(c)' = EndOf(c)
  BY <1>3, <1>6, Zenon DEF EndOf
<1> QED
  BY <1>2, <1>3, <1>4, <1>5, <1>6, <1>7, Zenon

LEMMA CountsStay ==
    ASSUME input' = input
    PROVE  \A cn, x : CountsAfter(cn, x)' = CountsAfter(cn, x)
<1>1. Docs' = Docs
  BY InputStays
<1> QED
  BY <1>1, EncodedStays, Zenon DEF CountsAfter

LEMMA RunStays ==
    ASSUME input' = input, Run(chunks', 0, taken' - Len(group'))
    PROVE  RunInv'
<1>1. Docs' = Docs /\ SentencePiece' = SentencePiece
  BY InputStays
<1>2. (\A c : ChunkOK(c)' = ChunkOK(c)) /\ (\A c, e : Follows(e, c)' = Follows(e, c))
  <2>1. ASSUME NEW c PROVE ChunkOK(c)' = ChunkOK(c)
    <3>1. DocLen(c.docs[1])' = DocLen(c.docs[1])
      BY EncodedStays, Zenon
    <3>2. /\ Rest(c.docs[1], c.from, c.to)' = Rest(c.docs[1], c.from, c.to)
          /\ UpTo(c.docs[1], c.to)' = UpTo(c.docs[1], c.to) /\ UpTo(c.docs[1], c.from)' = UpTo(c.docs[1], c.from)
      BY EncodedStays, Zenon
    <3> QED
      BY <1>1, <3>1, <3>2 DEF ChunkOK
  <2>2. \A c, e : Follows(e, c)' = Follows(e, c)
    BY EncodedStays, Zenon DEF Follows
  <2> QED
    BY <2>1, <2>2, Zenon
<1>3. \A c : EndOf(c)' = EndOf(c) /\ DocLen(c)' = DocLen(c) /\ LastDoc(c)' = LastDoc(c)
  BY EncodedStays, Zenon
<1>4. Run(chunks, 0, taken - Len(group))'
  BY <1>2, <1>3, Zenon DEF Run
<1> QED
  BY <1>4 DEF RunInv

LEMMA SmallStays ==
    ASSUME input' = input, \A k \in 1..Len(chunks') : SmallChunk(chunks'[k])
    PROVE  (\A k \in 1..Len(chunks) : SmallChunk(chunks[k]))'
<1>1. /\ Docs' = Docs /\ Target' = Target /\ SentencePiece' = SentencePiece
      /\ HeadBytes' = HeadBytes /\ TailTarget' = TailTarget
  BY InputStays
<1>2. ASSUME NEW c, SmallChunk(c) PROVE SmallChunk(c)'
  <2>1. \A ds : SumLen(ds)' = SumLen(ds)
    BY <1>1, Zenon DEF SumLen, DocLen
  <2> QED
    BY <1>1, <1>2, <2>1, Zenon DEF SmallChunk
<1> QED
  BY <1>2

(* What the next state is made of, whatever has been counted. *)
LEMMA PartsStay ==
    ASSUME ChunksInv, input' = input,
           taken' \in 0..Len(Docs), IsSeq(group'), Len(group') <= taken',
           \A k \in 1..Len(group') : group'[k] = (taken' - Len(group')) + k /\ ~Oversized(group'[k]),
           acc' = SumLen(group'), emitted' = SumLen(Upward(taken' - Len(group'))),
           emitted' + acc' = SumLen(Upward(taken')),
           Run(chunks', 0, taken' - Len(group')),
           Len(group') > 0 /\ ~SentencePiece /\ emitted' >= HeadBytes => acc' < TailTarget,
           \A k \in 1..Len(chunks') : SmallChunk(chunks'[k])
    PROVE  InputInv' /\ GroupInv' /\ BytesInv' /\ RunInv' /\ SmallInv'
<1>1. Docs' = Docs
  BY DEF Docs
<1>2. InputInv'
  <2>1. CutsExact(input)' = CutsExact(input)
    <3> DEFINE i == input
    <3>1. CutsExact(input') = CutsExact(input)
      OBVIOUS
    <3>2. CutsExact(input)' = CutsExact(input')
      BY Zenon DEF CutsExact, UnitsJoin, SpUpTo, SpRest
    <3> QED
      BY <3>1, <3>2
  <2>2. CutsExact(input) /\ input \in Inputs
    BY DEF ChunksInv, InputInv
  <2> QED
    BY <1>1, <2>1, <2>2 DEF InputInv
<1>3. (IsSeq(group) /\ Len(group) <= taken)'
  BY DEF IsSeq
<1>4. (\A k \in 1..Len(group) : group[k] = (taken - Len(group)) + k /\ ~Oversized(group[k]))'
  BY <1>1 DEF Oversized, CanSplit, SentencePiece, DocLen, Target
<1>5. BytesInv'
  BY <1>1, Zenon DEF BytesInv, SumLen, DocLen
<1>6. RunInv'
  BY RunStays
<1>7. HeadBytes' = HeadBytes /\ TailTarget' = TailTarget /\ SentencePiece' = SentencePiece
  BY InputStays
<1>8. (\A k \in 1..Len(chunks) : SmallChunk(chunks[k]))'
  BY SmallStays
<1>9. SmallInv'
  BY <1>7, <1>8 DEF SmallInv
<1> QED
  BY <1>2, <1>3, <1>4, <1>5, <1>6, <1>9 DEF GroupInv

(* A step that makes chunks: nothing is counted yet. *)
LEMMA BuiltInv ==
    ASSUME ChunksInv, input' = input, counted = 0, counted' = counted, counts' = counts,
           taken' \in 0..Len(Docs), IsSeq(group'), Len(group') <= taken',
           \A k \in 1..Len(group') : group'[k] = (taken' - Len(group')) + k /\ ~Oversized(group'[k]),
           acc' = SumLen(group'), emitted' = SumLen(Upward(taken' - Len(group'))),
           emitted' + acc' = SumLen(Upward(taken')),
           Run(chunks', 0, taken' - Len(group')),
           Len(group') > 0 /\ ~SentencePiece /\ emitted' >= HeadBytes => acc' < TailTarget,
           \A k \in 1..Len(chunks') : SmallChunk(chunks'[k])
    PROVE  ChunksInv'
<1>1. InputInv' /\ GroupInv' /\ BytesInv' /\ RunInv' /\ SmallInv'
  BY PartsStay
<1>2. counted' = 0 /\ counts' = <<>>
  BY DEF ChunksInv, CountInv
<1>3. Len(chunks') \in Nat
  BY DEF Run
<1>4. CountInv'
  BY <1>2, <1>3 DEF CountInv
<1> QED
  BY <1>1, <1>4 DEF ChunksInv

(* What the steps that make chunks start from. *)
LEMMA BuildFacts ==
    ASSUME ChunksInv, taken < Len(Docs)
    PROVE  /\ input \in Inputs /\ CutsExact(input) /\ taken \in 0..Len(Docs) /\ Len(Docs) \in Nat
           /\ taken + 1 \in 1..Len(Docs) /\ counted = 0 /\ DocLen(taken + 1) \in Nat
           /\ SumLen(Upward(taken + 1)) = SumLen(Upward(taken)) + DocLen(taken + 1)
           /\ SumLen(Upward(taken)) \in Nat /\ emitted \in Nat /\ acc \in Int
           /\ IsSeq(group) /\ Len(group) \in Nat /\ Len(group) <= taken
           /\ HeadBytes \in Nat /\ TailTarget \in Nat
<1>1. input \in Inputs /\ CutsExact(input) /\ taken \in 0..Len(Docs) /\ IsSeq(group) /\ Len(group) <= taken
  BY DEF ChunksInv, InputInv, GroupInv
<1>2. Len(Docs) \in Nat /\ Len(group) \in Nat /\ HeadBytes \in Nat /\ TailTarget \in Nat
  BY <1>1, InputFacts, SeqFacts, BytesAre
<1>3. taken + 1 \in 1..Len(Docs)
  BY <1>1, <1>2
<1>4. counted = 0
  BY <1>1, <1>2 DEF ChunksInv, CountInv, RunInv, Run
<1>5. DocLen(taken + 1) \in Nat
  BY <1>1, <1>3, InputFacts
<1>6. SumLen(Upward(taken + 1)) = SumLen(Upward(taken)) + DocLen(taken + 1)
  BY <1>1, SumUpward
<1>7. SumLen(Upward(taken)) \in Nat /\ emitted \in Nat
  <2>1. taken - Len(group) \in 0..Len(Docs)
    BY <1>1, <1>2
  <2> QED
    BY <1>1, <2>1, BytesAre DEF ChunksInv, BytesInv
<1>8. acc \in Int
  <2>1. acc = SumLen(group) /\ \A k \in 1..Len(group) : group[k] \in 1..Len(Docs)
    BY <1>1, <1>2 DEF ChunksInv, BytesInv, GroupInv
  <2>2. \A k \in 1..Len(group) : DocLen(group[k]) \in Nat
    BY <1>1, <2>1, InputFacts
  <2>3. SumLen(group) \in Nat
    BY <1>2, <2>2, SumIsNat
  <2> QED
    BY <2>1, <2>3
<1> QED
  BY <1>1, <1>2, <1>3, <1>4, <1>5, <1>6, <1>7, <1>8

LEMMA TakeHugeInv ==
    ASSUME ChunksInv, TakeHuge
    PROVE  ChunksInv'
<1> DEFINE d == taken + 1
           b == SumLen(Upward(taken))
           head == HeadLen(b)
           frs == FragmentsOf(d, head)
<1>1. /\ input \in Inputs /\ CutsExact(input) /\ taken \in 0..Len(Docs) /\ Len(Docs) \in Nat
      /\ d \in 1..Len(Docs) /\ counted = 0 /\ DocLen(d) \in Nat /\ SumLen(Upward(d)) = b + DocLen(d)
      /\ b \in Nat /\ HeadBytes \in Nat
  BY BuildFacts DEF TakeHuge, Building
<1>2. emitted + acc = b
  BY DEF ChunksInv, BytesInv
<1>3. /\ Oversized(d) /\ chunks' = Flushed \o frs /\ emitted' = b + DocLen(d)
      /\ group' = <<>> /\ acc' = 0 /\ taken' = d /\ input' = input /\ counted' = counted /\ counts' = counts
  BY <1>2 DEF TakeHuge
<1>4. Run(Flushed, 0, taken) /\ \A k \in 1..Len(Flushed) : SmallChunk(Flushed[k])
  BY FlushedIs DEF ChunksInv
<1>5. head \in Int /\ (~input.lpt => head = DocLen(d))
  <2> HIDE DEF b
  <2> QED
    BY <1>1 DEF HeadLen
<1>6. PICK all : /\ Tiles(all, 0, DocLen(d), FragOK(d, head))
                 /\ frs = [n \in 1..Len(all) |-> Fragment(d, all[n][1], all[n][2])]
  <2> HIDE DEF d, head
  <2> QED
    BY <1>1, <1>3, <1>5, FragmentsTile
<1> HIDE DEF frs, head, b
<1>7. Run(frs, taken, d)
  <2>1. d - 1 = taken
    BY <1>1
  <2> HIDE DEF d
  <2>2. Run(frs, d - 1, d)
    BY <1>1, <1>6, RunFragments
  <2> QED
    BY <2>1, <2>2
<1>8. ASSUME NEW k \in 1..Len(frs) PROVE SmallChunk(frs[k])
  <2>1. Len(all) \in Nat
    BY <1>6, SeqFacts DEF Tiles
  <2>2. Len(frs) = Len(all)
    BY <1>6, <2>1, FunSeq
  <2> DEFINE x == all[k][1]
             y == all[k][2]
  <2>3. k \in 1..Len(all) /\ frs[k] = Fragment(d, x, y)
    BY <1>6, <2>2
  <2>4. all[k] \in FragOK(d, head)
    BY <1>6, <2>3 DEF Tiles
  <2>5. all[k] \in (0..DocLen(d)) \X (0..DocLen(d)) /\ SmallOK(d, head, all[k])
    BY <2>4 DEF FragOK
  <2>6. x \in Nat /\ y \in Nat /\ all[k] = <<x, y>>
    BY <2>5
  <2> HIDE DEF x, y
  <2>7. SmallOK(d, head, <<x, y>>)
    BY <2>5, <2>6
  <2>8. SmallChunk(Fragment(d, x, y))
    BY <1>1, <2>6, <2>7, SmallFragment DEF head, b
  <2> QED
    BY <2>3, <2>8
<1>9. Run(chunks', 0, d)
  <2>1. d \in Nat /\ taken \in Nat
    BY <1>1
  <2> HIDE DEF d
  <2> QED
    BY <1>3, <1>4, <1>7, <2>1, RunJoin
<1>10. \A k \in 1..Len(chunks') : SmallChunk(chunks'[k])
  <2> DEFINE s == Flushed
             t == s \o frs
  <2>1. IsSeq(s) /\ IsSeq(frs) /\ Len(s) \in Nat /\ Len(frs) \in Nat
    BY <1>4, <1>7 DEF Run
  <2> HIDE DEF s
  <2>2. /\ Len(t) = Len(s) + Len(frs)
        /\ (\A k \in 1..Len(s) : t[k] = s[k]) /\ \A k \in 1..Len(frs) : t[Len(s) + k] = frs[k]
    BY <2>1, Joined2
  <2> HIDE DEF t
  <2>3. ASSUME NEW k \in 1..Len(t) PROVE SmallChunk(t[k])
    <3>1. CASE k <= Len(s)
      <4>1. k \in 1..Len(s)
        BY <3>1
      <4> QED
        BY <1>4, <2>2, <4>1 DEF s
    <3>2. CASE k > Len(s)
      <4> DEFINE j == k - Len(s)
      <4>1. j \in 1..Len(frs) /\ k = Len(s) + j
        BY <2>1, <2>2, <3>2
      <4> HIDE DEF j
      <4> QED
        BY <1>8, <2>2, <4>1
    <3> QED
      BY <2>1, <3>1, <3>2
  <2>4. chunks' = t
    BY <1>3 DEF t, s
  <2> QED
    BY <2>3, <2>4
<1>11. IsSeq(group') /\ Len(group') = 0 /\ SumLen(group') = 0
  BY <1>3, EmptyJoin, SumNone
<1>12. taken' - Len(group') = d
  BY <1>1, <1>3, <1>11
<1>13. /\ taken' \in 0..Len(Docs) /\ Len(group') <= taken'
       /\ acc' = SumLen(group') /\ emitted' = SumLen(Upward(d)) /\ emitted' + acc' = SumLen(Upward(d)) /\ taken' = d
  BY <1>1, <1>3, <1>11 DEF b
<1>14. ~(Len(group') > 0) /\ \A k \in 1..Len(group') : FALSE
  BY <1>11
<1> HIDE DEF d
<1> QED
  BY <1>1, <1>3, <1>9, <1>10, <1>11, <1>12, <1>13, <1>14, BuiltInv

(* t is s with x behind it. *)
Appended(t, s, x) ==
    /\ IsSeq(t) /\ Len(t) = Len(s) + 1
    /\ \A k \in 1..Len(s) : t[k] = s[k]
    /\ t[Len(s) + 1] = x
LEMMA AppendIs ==
    ASSUME NEW s, IsSeq(s), NEW x
    PROVE  Appended(Append(s, x), s, x)
<1>1. PICK t : t = Append(s, x)
  OBVIOUS
<1>2. /\ IsSeq(t) /\ Len(t) = Len(s) + 1
      /\ \A k \in 1..Len(s) : t[k] = s[k]
      /\ t[Len(s) + 1] = x
  BY <1>1, AppendFacts
<1>3. Appended(t, s, x)
  BY <1>2, Zenon DEF Appended
<1> QED
  BY <1>1, <1>3, Zenon

LEMMA FrontAppend ==
    ASSUME NEW s, IsSeq(s), NEW x
    PROVE  Front(Append(s, x)) = s
<1> DEFINE t == Append(s, x)
           n == Len(s)
<1>1. IsSeq(t) /\ Len(t) = n + 1 /\ n \in Nat /\ \A k \in 1..n : t[k] = s[k]
  <2>1. n \in Nat
    BY SeqFacts
  <2>2. Appended(t, s, x)
    BY AppendIs, Zenon
  <2> HIDE DEF t
  <2> QED
    BY <2>1, <2>2, Zenon DEF Appended
<1> HIDE DEF t
<1>2. Front(t) = Slice(t, 0, n)
  <2>1. Len(t) - 1 = n /\ 0 + 1 = 1
    BY <1>1
  <2> QED
    BY <2>1 DEF Front, Slice
<1> HIDE DEF n
<1>3. IsSeq(Slice(t, 0, n)) /\ Len(Slice(t, 0, n)) = n - 0 /\ \A k \in 1..(n - 0) : Slice(t, 0, n)[k] = t[0 + k]
  <2>1. 0 \in Nat /\ n \in Nat /\ 0 <= n /\ n <= Len(t) /\ IsSeq(t)
    BY <1>1
  <2> QED
    BY <2>1, SliceFacts
<1> DEFINE f == Front(t)
<1>4. IsSeq(f) /\ Len(f) = Len(s) /\ \A k \in 1..Len(f) : f[k] = s[k]
  <2>1. n - 0 = n /\ \A k \in 1..n : 0 + k = k
    BY <1>1
  <2> QED
    BY <1>1, <1>2, <1>3, <2>1 DEF n
<1> HIDE DEF f
<1>5. f = s
  BY <1>4, SameSeq
<1> QED
  BY <1>5 DEF f, t

LEMMA TakeDocInv ==
    ASSUME ChunksInv, TakeDoc
    PROVE  ChunksInv'
<1> DEFINE d == taken + 1
           g == Len(group)
           a == taken - g
           ds == Append(group, d)
           size == acc + DocLen(d)
           big == size >= (IF emitted < HeadBytes THEN GroupBig ELSE TailTarget)
<1>1. /\ input \in Inputs /\ CutsExact(input) /\ taken \in 0..Len(Docs) /\ Len(Docs) \in Nat
      /\ d \in 1..Len(Docs) /\ counted = 0 /\ DocLen(d) \in Nat
      /\ SumLen(Upward(d)) = SumLen(Upward(taken)) + DocLen(d)
      /\ SumLen(Upward(taken)) \in Nat /\ emitted \in Nat /\ acc \in Int
      /\ IsSeq(group) /\ g \in Nat /\ g <= taken /\ HeadBytes \in Nat /\ TailTarget \in Nat
  BY BuildFacts DEF TakeDoc, Building
<1>2. /\ acc = SumLen(group) /\ emitted = SumLen(Upward(a)) /\ emitted + acc = SumLen(Upward(taken))
      /\ Run(chunks, 0, a) /\ (\A k \in 1..Len(chunks) : SmallChunk(chunks[k]))
      /\ \A k \in 1..g : group[k] = a + k /\ ~Oversized(group[k])
      /\ (g > 0 /\ ~SentencePiece /\ emitted >= HeadBytes => acc < TailTarget)
  BY DEF ChunksInv, GroupInv, BytesInv, RunInv, SmallInv
<1>3. /\ ~Oversized(d) /\ taken' = d /\ input' = input /\ counted' = counted /\ counts' = counts
      /\ big => chunks' = Append(chunks, Group(ds)) /\ emitted' = emitted + size /\ group' = <<>> /\ acc' = 0
      /\ ~big => group' = ds /\ acc' = size /\ chunks' = chunks /\ emitted' = emitted
  BY DEF TakeDoc
<1>4. /\ IsSeq(ds) /\ Len(ds) = g + 1 /\ Front(ds) = group
      /\ \A k \in 1..g : ds[k] = group[k]
      /\ ds[g + 1] = d
  <2>1. Appended(ds, group, d) /\ Front(ds) = group
    <3> HIDE DEF d
    <3> QED
      BY <1>1, AppendIs, FrontAppend, Zenon
  <2> HIDE DEF ds, d
  <2> QED
    BY <2>1, Zenon DEF Appended
<1>5. a \in Nat /\ a + (g + 1) = d /\ d - (g + 1) = a /\ d \in 0..Len(Docs)
  BY <1>1
<1>6. SumLen(ds) = acc + DocLen(d)
  <2> HIDE DEF ds, d
  <2>1. Len(group) \in Nat /\ Len(ds) = Len(group) + 1 /\ (\A k \in 1..Len(group) : ds[k] = group[k]) /\ ds[Len(ds)] = d
    BY <1>1, <1>4
  <2>2. SumLen(ds) = SumLen(group) + DocLen(ds[Len(ds)])
    BY <2>1, SumMore
  <2> QED
    BY <1>2, <2>1, <2>2
<1> HIDE DEF ds
<1>7. \A k \in 1..Len(ds) : ds[k] = a + k /\ ~Oversized(ds[k])
  <2>1. ASSUME NEW k \in 1..Len(ds) PROVE ds[k] = a + k /\ ~Oversized(ds[k])
    <3> HIDE DEF g, a, d
    <3>1. k \in 1..g \/ k = g + 1
      BY <1>1, <1>4
    <3> QED
      BY <1>2, <1>3, <1>4, <1>5, <3>1
  <2> QED
    BY <2>1
<1>8. CASE big
  <2>1. Len(ds) = 1 => ~Oversized(ds[1])
    BY <1>7
  <2>2. Len(ds) > 1 /\ ~SentencePiece /\ SumLen(Upward(a)) >= HeadBytes => SumLen(Front(ds)) < TailTarget
    <3> HIDE DEF g, a
    <3>1. Len(ds) > 1 => g > 0
      BY <1>1, <1>4
    <3> QED
      BY <1>2, <1>4, <3>1
  <2>3. Run(Append(chunks, Group(ds)), 0, d) /\ \A k \in 1..Len(Append(chunks, Group(ds))) : SmallChunk(Append(chunks, Group(ds))[k])
    <3>1. Len(ds) > 0 /\ a + Len(ds) <= Len(Docs) /\ a + Len(ds) = d
      BY <1>1, <1>4, <1>5
    <3> HIDE DEF a, d, g
    <3>2. /\ Run(Append(chunks, Group(ds)), 0, a + Len(ds))
          /\ \A k \in 1..Len(Append(chunks, Group(ds))) : SmallChunk(Append(chunks, Group(ds))[k])
      BY <1>1, <1>2, <1>4, <1>5, <1>7, <2>1, <2>2, <3>1, CloseGroup
    <3> QED
      BY <3>1, <3>2
  <2>4. /\ chunks' = Append(chunks, Group(ds)) /\ emitted' = emitted + size /\ group' = <<>> /\ acc' = 0
    BY <1>3, <1>8
  <2>5. IsSeq(group') /\ Len(group') = 0 /\ SumLen(group') = 0
    BY <2>4, EmptyJoin, SumNone
  <2>6. emitted' = SumLen(Upward(d))
    <3> HIDE DEF d, g, a
    <3> QED
      BY <1>1, <1>2, <2>4
  <2>7. taken' - Len(group') = d
    BY <1>1, <1>3, <2>5
  <2>8. /\ taken' \in 0..Len(Docs) /\ Len(group') <= taken' /\ taken' = d
        /\ acc' = SumLen(group') /\ emitted' + acc' = SumLen(Upward(d))
    <3>1. SumLen(Upward(d)) \in Nat
      BY <1>1
    <3> HIDE DEF d
    <3> QED
      BY <1>1, <1>3, <1>5, <2>4, <2>5, <2>6, <3>1
  <2>9. ~(Len(group') > 0) /\ \A k \in 1..Len(group') : FALSE
    BY <2>5
  <2>10. Run(chunks', 0, d) /\ \A k \in 1..Len(chunks') : SmallChunk(chunks'[k])
    BY <2>3, <2>4
  <2> HIDE DEF d, big
  <2> QED
    BY <1>1, <1>3, <2>5, <2>6, <2>7, <2>8, <2>9, <2>10, BuiltInv
<1>9. CASE ~big
  <2>1. group' = ds /\ acc' = size /\ chunks' = chunks /\ emitted' = emitted
    BY <1>3, <1>9
  <2>2. IsSeq(group') /\ Len(group') = g + 1 /\ taken' - Len(group') = a /\ taken' = d
    BY <1>3, <1>4, <1>5, <2>1
  <2>3. /\ taken' \in 0..Len(Docs) /\ Len(group') <= taken'
        /\ \A k \in 1..Len(group') : group'[k] = (taken' - Len(group')) + k /\ ~Oversized(group'[k])
    <3>1. d \in 0..Len(Docs) /\ g + 1 <= d
      BY <1>1, <1>5
    <3> HIDE DEF d, g, a
    <3> QED
      BY <1>7, <2>1, <2>2, <3>1
  <2>4. acc' = SumLen(group') /\ emitted' = SumLen(Upward(taken' - Len(group'))) /\ emitted' + acc' = SumLen(Upward(taken'))
    <3>1. acc' = SumLen(group')
      BY <1>6, <2>1
    <3>2. emitted + size = SumLen(Upward(d))
      <4> HIDE DEF d
      <4> QED
        BY <1>1, <1>2
    <3> HIDE DEF d, g, a, size
    <3> QED
      BY <1>2, <2>1, <2>2, <3>1, <3>2
  <2>5. Len(group') > 0 /\ ~SentencePiece /\ emitted' >= HeadBytes => acc' < TailTarget
    <3> HIDE DEF d
    <3>1. ~(emitted < HeadBytes) => size < TailTarget
      BY <1>1, <1>9
    <3>2. emitted >= HeadBytes => ~(emitted < HeadBytes)
      BY <1>1
    <3> QED
      BY <2>1, <3>1, <3>2
  <2>6. Run(chunks', 0, taken' - Len(group')) /\ \A k \in 1..Len(chunks') : SmallChunk(chunks'[k])
    BY <1>2, <2>1, <2>2
  <2> HIDE DEF d, big, a, g, size
  <2> QED
    BY <1>1, <1>3, <2>2, <2>3, <2>4, <2>5, <2>6, BuiltInv
<1> QED
  BY <1>8, <1>9

LEMMA FlushInv ==
    ASSUME ChunksInv, Flush
    PROVE  ChunksInv'
<1>1. /\ input \in Inputs /\ taken \in 0..Len(Docs) /\ emitted + acc = SumLen(Upward(taken))
      /\ counted \in 0..Len(chunks) /\ (counted > 0 => group = <<>>) /\ Len(chunks) \in Nat
  BY DEF ChunksInv, InputInv, BytesInv, CountInv, RunInv, Run
<1>2. /\ group # <<>> /\ chunks' = Flushed /\ group' = <<>> /\ emitted' = emitted + acc /\ acc' = 0
      /\ input' = input /\ taken' = taken /\ counted' = counted /\ counts' = counts
  BY DEF Flush
<1>3. counted = 0
  BY <1>1, <1>2
<1>4. Run(Flushed, 0, taken) /\ \A k \in 1..Len(Flushed) : SmallChunk(Flushed[k])
  BY FlushedIs DEF ChunksInv
<1>5. IsSeq(group') /\ Len(group') = 0 /\ SumLen(group') = 0
  BY <1>2, EmptyJoin, SumNone
<1>6. SumLen(Upward(taken)) \in Nat
  BY <1>1, BytesAre
<1>7. taken' - Len(group') = taken /\ Len(group') <= taken' /\ taken' \in 0..Len(Docs)
  BY <1>1, <1>2, <1>5
<1>8. acc' = SumLen(group') /\ emitted' = SumLen(Upward(taken)) /\ emitted' + acc' = SumLen(Upward(taken))
  BY <1>1, <1>2, <1>5, <1>6
<1>9. ~(Len(group') > 0) /\ \A k \in 1..Len(group') : FALSE
  BY <1>5
<1>10. Run(chunks', 0, taken) /\ \A k \in 1..Len(chunks') : SmallChunk(chunks'[k])
  BY <1>2, <1>4
<1> QED
  BY <1>2, <1>3, <1>5, <1>7, <1>8, <1>9, <1>10, BuiltInv

(* What the chunk to be counted next finds. *)
LEMMA CountsReady ==
    ASSUME ChunksInv, counted < Len(chunks)
    PROVE  ChunkOK(chunks[counted + 1]) /\ CountsBefore(counts, chunks[counted + 1])
<1> DEFINE e == chunks[counted + 1]
<1>1. /\ input \in Inputs /\ CutsExact(input) /\ counted \in 0..Len(chunks) /\ Len(chunks) \in Nat
      /\ Run(chunks, 0, taken - Len(group))
  BY DEF ChunksInv, InputInv, CountInv, RunInv, Run
<1>2. counted + 1 \in 1..Len(chunks) /\ Len(chunks) > 0
  BY <1>1
<1>3. ChunkOK(e)
  BY <1>1, <1>2 DEF Run
<1>4. CASE counted = 0
  <2>1. counts = <<>> /\ counted + 1 = 1
    BY <1>4 DEF ChunksInv, CountInv
  <2>2. e.from = 0 /\ e.docs[1] = 0 + 1
    BY <1>1, <1>2, <2>1 DEF Run
  <2>3. IsSeq(counts) /\ Len(counts) = 0 /\ e.docs[1] - 1 = 0
    BY <2>1, <2>2, EmptyJoin
  <2> HIDE DEF e
  <2>4. CountsBefore(counts, e)
    BY <2>2, <2>3 DEF CountsBefore
  <2> QED
    BY <1>3, <2>4 DEF e
<1>5. CASE counted > 0
  <2> DEFINE c == chunks[counted]
  <2>1. CountsAfter(counts, c)
    BY <1>5 DEF ChunksInv, CountInv
  <2>2. counted \in 1..Len(chunks) /\ (counted + 1) - 1 = counted /\ counted + 1 > 1
    BY <1>1, <1>5
  <2>3. ChunkOK(c) /\ Follows(e, c)
    BY <1>1, <1>2, <2>2 DEF Run
  <2> HIDE DEF c, e
  <2>4. CountsBefore(counts, e)
    BY <1>1, <2>1, <2>3, CountsGoOn
  <2> QED
    BY <1>3, <2>4 DEF e
<1> QED
  BY <1>1, <1>4, <1>5

LEMMA RowCountsInv ==
    ASSUME ChunksInv, RowCounts
    PROVE  ChunksInv'
<1> DEFINE e == chunks[counted + 1]
<1>1. /\ input \in Inputs /\ CutsExact(input) /\ taken \in 0..Len(Docs) /\ Len(Docs) \in Nat
      /\ counted \in 0..Len(chunks) /\ Len(chunks) \in Nat
  <2>1. /\ input \in Inputs /\ CutsExact(input) /\ taken \in 0..Len(Docs)
        /\ counted \in 0..Len(chunks) /\ Len(chunks) \in Nat
    BY DEF ChunksInv, InputInv, CountInv, RunInv, Run
  <2> QED
    BY <2>1, InputFacts
<1>2. /\ ~(taken < Len(Docs)) /\ group = <<>> /\ counted < Len(chunks) /\ counted' = counted + 1
      /\ input' = input /\ taken' = taken /\ group' = group /\ acc' = acc /\ emitted' = emitted /\ chunks' = chunks
      /\ e.first => counts' = counts \o Lens(e)
      /\ ~e.first => counts' = [counts EXCEPT ![Len(counts)] = @ + Lens(e)[1]] \o Tail(Lens(e))
  <2>1. ~(taken < Len(Docs)) /\ group = <<>> /\ counted < Len(chunks) /\ counted' = counted + 1
      /\ input' = input /\ taken' = taken /\ group' = group /\ acc' = acc /\ emitted' = emitted /\ chunks' = chunks
    BY DEF RowCounts, Building
  <2>2. counts' = IF ~e.first THEN [counts EXCEPT ![Len(counts)] = @ + Lens(e)[1]] \o Tail(Lens(e))
                  ELSE counts \o Lens(e)
    BY DEF RowCounts, Continues
  <2> HIDE DEF e
  <2> QED
    BY <2>1, <2>2
<1>3. ChunkOK(e) /\ CountsBefore(counts, e)
  BY <1>2, CountsReady
<1> HIDE DEF e
<1>4. CountsAfter(counts', e)
  <2>1. e.first = (e.from = 0)
    BY <1>3 DEF ChunkOK
  <2>2. CASE e.from = 0
    <3>1. e.first
      BY <2>1, <2>2, Zenon
    <3>2. CountsAfter(counts \o Lens(e), e)
      BY <1>1, <1>3, <2>2, CountsStart
    <3> QED
      BY <1>2, <3>1, <3>2
  <2>3. CASE e.from # 0
    <3>1. ~e.first
      BY <2>1, <2>3, Zenon
    <3>2. CountsAfter([counts EXCEPT ![Len(counts)] = @ + Lens(e)[1]] \o Tail(Lens(e)), e)
      BY <1>1, <1>3, <2>3, CountsContinue
    <3> QED
      BY <1>2, <3>1, <3>2
  <2> QED
    BY <2>2, <2>3
<1>5. CountInv'
  <2>1. Docs' = Docs /\ SentencePiece' = SentencePiece
    BY <1>2, InputStays
  <2>2. \A cn, x : CountsAfter(cn, x)' = CountsAfter(cn, x)
    BY <1>2, CountsStay
  <2>3. chunks'[counted'] = e
    BY <1>2 DEF e
  <2>4. CountsAfter(counts, chunks[counted])'
    BY <1>4, <2>2, <2>3, Zenon
  <2>5. taken' = Len(Docs') /\ group' = <<>> /\ counted' \in 0..Len(chunks') /\ counted' # 0
    BY <1>1, <1>2, <2>1
  <2> QED
    BY <2>4, <2>5 DEF CountInv
<1>6. InputInv' /\ GroupInv' /\ BytesInv' /\ RunInv' /\ SmallInv'
  <2>1. /\ taken' \in 0..Len(Docs) /\ IsSeq(group') /\ Len(group') <= taken'
        /\ \A k \in 1..Len(group') : group'[k] = (taken' - Len(group')) + k /\ ~Oversized(group'[k])
    BY <1>1, <1>2 DEF ChunksInv, GroupInv
  <2>2. /\ acc' = SumLen(group') /\ emitted' = SumLen(Upward(taken' - Len(group')))
        /\ emitted' + acc' = SumLen(Upward(taken'))
    BY <1>2 DEF ChunksInv, BytesInv
  <2>3. Run(chunks', 0, taken' - Len(group'))
    BY <1>2 DEF ChunksInv, RunInv
  <2>4. /\ Len(group') > 0 /\ ~SentencePiece /\ emitted' >= HeadBytes => acc' < TailTarget
        /\ \A k \in 1..Len(chunks') : SmallChunk(chunks'[k])
    BY <1>2 DEF ChunksInv, SmallInv
  <2> QED
    BY <1>2, <2>1, <2>2, <2>3, <2>4, PartsStay
<1> QED
  BY <1>5, <1>6 DEF ChunksInv

LEMMA StartInv ==
    ASSUME ChunksInit, CutsExact(input)
    PROVE  ChunksInv
<1>1. /\ input \in Inputs /\ taken = 0 /\ group = <<>> /\ acc = 0 /\ emitted = 0
      /\ chunks = <<>> /\ counted = 0 /\ counts = <<>>
  BY DEF ChunksInit
<1>2. Len(Docs) \in Nat
  BY <1>1, InputFacts
<1>3. IsSeq(group) /\ Len(group) = 0 /\ SumLen(group) = 0 /\ Len(chunks) = 0
  BY <1>1, EmptyJoin, SumNone
<1>4. taken - Len(group) = 0
  <2> DEFINE l == Len(group)
  <2>1. l = 0 /\ taken = 0
    BY <1>1, <1>3
  <2> HIDE DEF l
  <2>2. taken - l = 0
    BY <2>1
  <2> QED
    BY <2>2 DEF l
<1>5. SumLen(Upward(0)) = 0
  BY SumUpward
<1>6. InputInv
  BY <1>1, <1>2 DEF InputInv
<1>7. GroupInv
  BY <1>1, <1>3 DEF GroupInv
<1>8. BytesInv
  BY <1>1, <1>3, <1>4, <1>5 DEF BytesInv
<1>9. RunInv
  BY <1>1, <1>4, RunNone DEF RunInv
<1>10. SmallInv
  BY <1>3 DEF SmallInv
<1>11. CountInv
  BY <1>1, <1>3 DEF CountInv
<1> QED
  BY <1>6, <1>7, <1>8, <1>9, <1>10, <1>11 DEF ChunksInv

LEMMA StepInv ==
    ASSUME ChunksInv, [ChunksNext]_chunkVars
    PROVE  ChunksInv'
<1>1. CASE TakeHuge
  BY <1>1, TakeHugeInv
<1>2. CASE TakeDoc
  BY <1>2, TakeDocInv
<1>3. CASE Flush
  BY <1>3, FlushInv
<1>4. CASE RowCounts
  BY <1>4, RowCountsInv
<1>5. CASE UNCHANGED chunkVars
  <2>1. /\ input' = input /\ taken' = taken /\ group' = group /\ acc' = acc /\ emitted' = emitted
        /\ chunks' = chunks /\ counted' = counted /\ counts' = counts
    BY <1>5 DEF chunkVars
  <2>2. /\ taken' \in 0..Len(Docs) /\ IsSeq(group') /\ Len(group') <= taken'
        /\ \A k \in 1..Len(group') : group'[k] = (taken' - Len(group')) + k /\ ~Oversized(group'[k])
    BY <2>1 DEF ChunksInv, InputInv, GroupInv
  <2>3. /\ acc' = SumLen(group') /\ emitted' = SumLen(Upward(taken' - Len(group')))
        /\ emitted' + acc' = SumLen(Upward(taken'))
    BY <2>1 DEF ChunksInv, BytesInv
  <2>4. Run(chunks', 0, taken' - Len(group'))
    BY <2>1 DEF ChunksInv, RunInv
  <2>5. /\ Len(group') > 0 /\ ~SentencePiece /\ emitted' >= HeadBytes => acc' < TailTarget
        /\ \A k \in 1..Len(chunks') : SmallChunk(chunks'[k])
    BY <2>1 DEF ChunksInv, SmallInv
  <2>6. InputInv' /\ GroupInv' /\ BytesInv' /\ RunInv' /\ SmallInv'
    BY <2>1, <2>2, <2>3, <2>4, <2>5, PartsStay
  <2>7. Docs' = Docs /\ SentencePiece' = SentencePiece
    BY <2>1, InputStays
  <2>8. \A cn, x : CountsAfter(cn, x)' = CountsAfter(cn, x)
    BY <2>1, CountsStay
  <2>9. CountInv'
    <3>1. /\ counted' \in 0..Len(chunks') /\ (counted' = 0 => counts' = <<>>)
          /\ counted' > 0 => taken' = Len(Docs') /\ group' = <<>> /\ CountsAfter(counts', chunks'[counted'])
      BY <2>1, <2>7 DEF ChunksInv, CountInv
    <3>2. counted' > 0 => CountsAfter(counts, chunks[counted])'
      BY <2>8, <3>1, Zenon
    <3> QED
      BY <3>1, <3>2 DEF CountInv
  <2> QED
    BY <2>6, <2>9 DEF ChunksInv
<1> QED
  BY <1>1, <1>2, <1>3, <1>4, <1>5 DEF ChunksNext, ChunksFinished

(* The properties follow. *)
LEMMA InvTypeOK == ChunksInv => ChunksTypeOK
<1> SUFFICES ASSUME ChunksInv PROVE ChunksTypeOK
  OBVIOUS
<1>1. input \in Inputs /\ taken \in 0..Len(Docs)
  BY DEF ChunksInv, InputInv
<1>2. acc = SumLen(group) /\ emitted + acc = SumLen([d \in 1..taken |-> d])
  BY DEF ChunksInv, BytesInv, Upward
<1>3. counted \in 0..Len(chunks)
  BY DEF ChunksInv, CountInv
<1>4. ASSUME NEW c \in DOMAIN chunks PROVE chunks[c].docs # <<>> /\ chunks[c].from <= chunks[c].to
  <2>1. IsSeq(chunks) /\ \A k \in 1..Len(chunks) : ChunkOK(chunks[k])
    BY DEF ChunksInv, RunInv, Run
  <2> DEFINE x == chunks[c]
  <2>2. ChunkOK(x)
    BY <2>1, SeqFacts
  <2> HIDE DEF x
  <2>3. Len(x.docs) > 0 /\ x.from <= x.to
    BY <2>2 DEF ChunkOK
  <2>4. x.docs # <<>>
    <3> SUFFICES ASSUME x.docs = <<>> PROVE FALSE
      OBVIOUS
    <3>1. Len(x.docs) = Len(<<>>) /\ Len(<<>>) = 0
      BY EmptyJoin, Zenon
    <3> QED
      BY <2>3, <3>1
  <2> QED
    BY <2>3, <2>4 DEF x
<1> QED
  BY <1>1, <1>2, <1>3, <1>4 DEF ChunksTypeOK

LEMMA InvSameTokens == ChunksInv => SameTokens
<1> SUFFICES ASSUME ChunksInv PROVE SameTokens
  OBVIOUS
<1> DEFINE a == taken - Len(group)
<1>1. /\ input \in Inputs /\ CutsExact(input) /\ taken \in 0..Len(Docs) /\ Len(Docs) \in Nat
      /\ IsSeq(group) /\ Len(group) \in Nat /\ Len(group) <= taken /\ \A k \in 1..Len(group) : group[k] = a + k
  <2>1. /\ input \in Inputs /\ CutsExact(input) /\ taken \in 0..Len(Docs)
        /\ IsSeq(group) /\ Len(group) <= taken /\ \A k \in 1..Len(group) : group[k] = a + k
    BY DEF ChunksInv, InputInv, GroupInv
  <2> QED
    BY <2>1, InputFacts, SeqFacts
<1>2. Run(chunks, 0, a)
  BY DEF ChunksInv, RunInv
<1>3. a \in Nat /\ a \in 0..Len(Docs) /\ a + Len(group) = taken /\ a + Len(group) <= Len(Docs)
  BY <1>1
<1> HIDE DEF a
<1>4. ChunkTokens = TokensOf(a)
  BY <1>1, <1>2, <1>3, RunTokens DEF ChunkTokens
<1>5. TokensOf(a) \o FlattenSeq(Rows(group)) = TokensOf(a + Len(group))
  BY <1>1, <1>3, TokensGrow
<1>6. TokensOf(taken) = FlattenSeq(Rows([d \in 1..taken |-> d]))
  BY DEF TokensOf, Upward
<1> QED
  BY <1>3, <1>4, <1>5, <1>6 DEF SameTokens

LEMMA InvRowsPerDocument == ChunksInv => RowsPerDocument
<1> SUFFICES ASSUME ChunksInv PROVE RowsPerDocument
  OBVIOUS
<1>1. /\ input \in Inputs /\ CutsExact(input) /\ taken \in 0..Len(Docs) /\ Len(Docs) \in Nat
      /\ DOMAIN Docs = 1..Len(Docs)
  <2>1. input \in Inputs /\ CutsExact(input) /\ taken \in 0..Len(Docs)
    BY DEF ChunksInv, InputInv
  <2> QED
    BY <2>1, InputFacts
<1>2. Run(chunks, 0, taken - Len(group)) /\ Len(chunks) \in Nat /\ counted \in 0..Len(chunks)
  BY DEF ChunksInv, RunInv, Run, CountInv
<1>3. ASSUME chunks # <<>> PROVE chunks[1].first
  <2>1. Len(chunks) > 0
    <3>1. Len(chunks) # 0
      <4> SUFFICES ASSUME Len(chunks) = 0 PROVE chunks = <<>>
        BY <1>3
      <4>1. IsSeq(chunks) /\ \A k \in 1..Len(chunks) : chunks[k] = <<>>[k]
        BY <1>2 DEF Run
      <4> QED
        BY <4>1, EmptyJoin, SameSeq
    <3> QED
      BY <1>2, <3>1
  <2>2. 1 \in 1..Len(chunks)
    BY <1>2, <2>1
  <2> DEFINE x == chunks[1]
  <2>3. x.from = 0 /\ ChunkOK(x)
    BY <1>2, <2>1, <2>2 DEF Run
  <2> HIDE DEF x
  <2>4. x.first = (x.from = 0)
    BY <2>3 DEF ChunkOK
  <2>5. x.first
    BY <2>3, <2>4, Zenon
  <2> QED
    BY <2>5 DEF x
<1>4. ASSUME Done PROVE counts = [d \in DOMAIN Docs |-> Len(Encoded(Docs[d], TRUE))]
  <2> DEFINE n == Len(Docs)
  <2>1. taken = n /\ group = <<>> /\ counted = Len(chunks)
    <3>1. ~(taken < n) /\ group = <<>> /\ counted = Len(chunks)
      BY <1>4 DEF Done, Building
    <3>2. taken \in 0..n /\ n \in Nat
      BY <1>1
    <3> HIDE DEF n
    <3>3. taken = n
      BY <3>1, <3>2
    <3> QED
      BY <3>1, <3>3
  <2>2. taken - Len(group) = n
    <3>1. Len(group) = 0
      BY <2>1, EmptyJoin, Zenon
    <3> QED
      BY <1>1, <2>1, <3>1
  <2>3. Run(chunks, 0, n)
    BY <1>2, <2>2
  <2>4. IsSeq(counts) /\ Len(counts) = n /\ \A d \in 1..n : counts[d] = Len(Encoded(Docs[d], TRUE))
    <3>1. CASE counted = 0
      <4>1. n = 0 /\ counts = <<>>
        BY <2>1, <2>3, <3>1 DEF Run, ChunksInv, CountInv
      <4> HIDE DEF n
      <4>2. Len(counts) = 0 /\ IsSeq(counts)
        BY <4>1, EmptyJoin
      <4> QED
        BY <4>1, <4>2
    <3>2. CASE counted > 0
      <4> DEFINE c == chunks[counted]
      <4>1. CountsAfter(counts, c) /\ LastDoc(c) = n /\ EndOf(c) = DocLen(n)
        BY <2>1, <2>3, <3>2 DEF ChunksInv, CountInv, Run
      <4>2. ChunkOK(c)
        BY <1>2, <2>1, <2>3, <3>2 DEF Run
      <4> HIDE DEF c
      <4>3. n \in 1..Len(Docs)
        BY <4>1, <4>2, RowsOfIs
      <4>4. UpTo(n, DocLen(n)) = Encoded(Docs[n], TRUE)
        BY <1>1, <4>3, EncodedIsSeq
      <4>5. /\ IsSeq(counts) /\ Len(counts) = n /\ (\A d \in 1..(n - 1) : counts[d] = Len(Encoded(Docs[d], TRUE)))
            /\ counts[n] = Len(Encoded(Docs[n], TRUE))
        BY <4>1, <4>4 DEF CountsAfter
      <4>6. \A d \in 1..n : d \in 1..(n - 1) \/ d = n
        <5>1. n \in Nat
          BY <1>1
        <5> HIDE DEF n
        <5> QED
          BY <5>1
      <4> QED
        BY <4>5, <4>6
    <3>3. counted = 0 \/ counted > 0
      BY <1>2
    <3> QED
      BY <3>1, <3>2, <3>3
  <2>5. counts = [d \in 1..n |-> counts[d]]
    BY <2>4, SeqFacts
  <2> QED
    BY <1>1, <2>4, <2>5
<1> QED
  BY <1>3, <1>4 DEF RowsPerDocument

LEMMA InvSmallTail == ChunksInv => SmallTail
<1> SUFFICES ASSUME ChunksInv PROVE SmallTail
  OBVIOUS
<1>1. \A c \in 1..Len(chunks) : SmallChunk(chunks[c])
  BY DEF ChunksInv, SmallInv
<1>2. DOMAIN chunks = 1..Len(chunks)
  BY SeqFacts DEF ChunksInv, RunInv, Run
<1>3. ASSUME NEW c \in DOMAIN chunks, ~SentencePiece, Offset(c) >= HeadBytes
      PROVE  IF Len(chunks[c].docs) = 1
             THEN \A p \in (chunks[c].from + TailTarget)..(chunks[c].to - 2) :
                     ~SafeAt(Docs[chunks[c].docs[1]], input.tokens, p) \/ Len(Docs[chunks[c].docs[1]]) <= 2 * Target
             ELSE SumLen(Front(chunks[c].docs)) < TailTarget
  BY <1>1, <1>2, <1>3 DEF SmallChunk, Offset, Upward
<1> QED
  BY <1>3 DEF SmallTail
-----------------------------------------------------------------------------
(***************************************************************************)
(* The chunks are well formed and hold the documents in order.             *)
(***************************************************************************)
THEOREM ChunksTypeCorrect == ChunksSpec /\ CutsExact(input) => []ChunksTypeOK
<1>1. ChunksInit /\ CutsExact(input) => ChunksInv
  BY StartInv
<1>2. ChunksInv /\ [ChunksNext]_chunkVars => ChunksInv'
  BY StepInv
<1> QED
  BY <1>1, <1>2, InvTypeOK, PTL DEF ChunksSpec

(***************************************************************************)
(* The chunks, each encoded by itself, give the tokens of the documents,   *)
(* wherever the documents were grouped or cut.                             *)
(***************************************************************************)
THEOREM ChunksSameTokens == ChunksSpec /\ CutsExact(input) => []SameTokens
<1>1. ChunksInit /\ CutsExact(input) => ChunksInv
  BY StartInv
<1>2. ChunksInv /\ [ChunksNext]_chunkVars => ChunksInv'
  BY StepInv
<1> QED
  BY <1>1, <1>2, InvSameTokens, PTL DEF ChunksSpec

(***************************************************************************)
(* row_counts gives one row per document, of its length, however many      *)
(* chunks it was cut into.                                                 *)
(***************************************************************************)
THEOREM ChunksRowsPerDocument == ChunksSpec /\ CutsExact(input) => []RowsPerDocument
<1>1. ChunksInit /\ CutsExact(input) => ChunksInv
  BY StartInv
<1>2. ChunksInv /\ [ChunksNext]_chunkVars => ChunksInv'
  BY StepInv
<1> QED
  BY <1>1, <1>2, InvRowsPerDocument, PTL DEF ChunksSpec

(***************************************************************************)
(* A chunk of the last fifth of the bytes is small as far as its documents *)
(* allow.                                                                  *)
(***************************************************************************)
THEOREM ChunksSmallTail == ChunksSpec /\ CutsExact(input) => []SmallTail
<1>1. ChunksInit /\ CutsExact(input) => ChunksInv
  BY StartInv
<1>2. ChunksInv /\ [ChunksNext]_chunkVars => ChunksInv'
  BY StepInv
<1> QED
  BY <1>1, <1>2, InvSmallTail, PTL DEF ChunksSpec
=============================================================================
