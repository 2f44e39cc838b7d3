----------------------------- MODULE WorkerPool -----------------------------
(***************************************************************************)
(* WorkerPool of src/src/batch.rs: with_worker hands a thread one of the   *)
(* rayon-sized slots by scanning them with try_lock, with_serial_worker    *)
(* blocks on the one serial slot.  A slot keeps its forked tokenizer       *)
(* between calls; a panic inside an encode poisons the slot's mutex.       *)
(* (BatchProofs extends this module and ChunkGather: hence Pool- in the    *)
(* names both would have.)                                                 *)
(***************************************************************************)
EXTENDS Integers, FiniteSets

CONSTANTS
    Threads,   \* the threads there may be, rayon's and the callers'
    NumSlots,  \* rayon::current_num_threads() when the slots were sized
    Nobody     \* a slot's mutex is free

ASSUME ThreadsAssumption == IsFiniteSet(Threads) /\ Nobody \notin Threads
ASSUME SlotsAssumption == NumSlots \in Nat \ {0}

PoolSlots == 1..NumSlots
SerialSlot == 0
Slots == {SerialSlot} \cup PoolSlots

VARIABLES
    callers,   \* the threads that encode with this pool, fixed from the start
    stage,        \* "idle", "scan", "blocked" or "work"
    pos,       \* the slot a thread tries or holds; 0 outside with_worker
    sized,     \* the OnceLock holding the slots is filled
    holder,    \* who has locked the slot
    poisoned,  \* the poison flag of the slot's mutex
    worker     \* the slot's tokenizer: "none", "cold" (just forked), "warm"
               \* (has finished an encode) or "torn" (abandoned in the middle)

poolVars == <<callers, stage, pos, sized, holder, poisoned, worker>>

PoolInit ==
    /\ callers \in (SUBSET Threads) \ {{}}
    /\ stage = [t \in Threads |-> "idle"]
    /\ pos = [t \in Threads |-> 0]
    /\ sized = FALSE
    /\ holder = [k \in Slots |-> Nobody]
    /\ poisoned = [k \in Slots |-> FALSE]
    /\ worker = [k \in Slots |-> "none"]

(* Bug: the scan leaves the first slot to somebody else. *)
CallPoolFromSecond(t) ==
    /\ stage[t] = "idle"
    /\ sized' = TRUE
    /\ stage' = [stage EXCEPT ![t] = "scan"]
    /\ pos' = [pos EXCEPT ![t] = 2]
    /\ UNCHANGED <<holder, poisoned, worker>>

(* with_worker: the slots exist from the first call on, the scan is at the front. *)
CallPool(t) ==
    /\ stage[t] = "idle"
    /\ sized' = TRUE
    /\ stage' = [stage EXCEPT ![t] = "scan"]
    /\ pos' = [pos EXCEPT ![t] = 1]
    /\ UNCHANGED <<holder, poisoned, worker>>

(* with_serial_worker, up to its lock(). *)
CallSerial(t) ==
    /\ stage[t] = "idle"
    /\ stage' = [stage EXCEPT ![t] = "blocked"]
    /\ UNCHANGED <<pos, sized, holder, poisoned, worker>>

(* Bug: the worker of a panicked encode is used again. *)
TakeTorn(t, k) ==
    /\ holder[k] = Nobody
    /\ holder' = [holder EXCEPT ![k] = t]
    /\ worker' = [worker EXCEPT ![k] = IF @ = "none" THEN "cold" ELSE @]
    /\ stage' = [stage EXCEPT ![t] = "work"]

(* The lock is granted: a poisoned slot is emptied, an empty one is filled by
   fork_sized, and the encode starts. *)
Take(t, k) ==
    /\ holder[k] = Nobody
    /\ holder' = [holder EXCEPT ![k] = t]
    /\ worker' = [worker EXCEPT ![k] = IF poisoned[k] \/ @ = "none" THEN "cold" ELSE @]
    /\ stage' = [stage EXCEPT ![t] = "work"]

(* Bug: a poisoned slot is taken from whoever holds it. *)
ProbeStealing(t) ==
    /\ stage[t] = "scan" /\ pos[t] \in PoolSlots
    /\ IF poisoned[pos[t]]
       THEN /\ holder' = [holder EXCEPT ![pos[t]] = t]
            /\ worker' = [worker EXCEPT ![pos[t]] = "cold"]
            /\ stage' = [stage EXCEPT ![t] = "work"]
            /\ UNCHANGED <<pos, sized, poisoned>>
       ELSE \/ Take(t, pos[t]) /\ UNCHANGED <<pos, sized, poisoned>>
            \/ /\ holder[pos[t]] # Nobody
               /\ pos' = [pos EXCEPT ![t] = @ + 1]
               /\ UNCHANGED <<stage, sized, holder, poisoned, worker>>

(* One try_lock of the scan: the slot is taken, or the next one is tried. *)
Probe(t) ==
    /\ stage[t] = "scan" /\ pos[t] \in PoolSlots
    /\ \/ Take(t, pos[t]) /\ UNCHANGED <<pos, sized, poisoned>>
       \/ /\ holder[pos[t]] # Nobody
          /\ pos' = [pos EXCEPT ![t] = @ + 1]
          /\ UNCHANGED <<stage, sized, holder, poisoned, worker>>

(* Bug: the scan is not taken back to the front. *)
YieldOnwards(t) ==
    /\ stage[t] = "scan" /\ pos[t] = NumSlots + 1
    /\ pos' = [pos EXCEPT ![t] = @ + 1]
    /\ UNCHANGED <<stage, sized, holder, poisoned, worker>>

(* A whole scan found no slot free: yield_now, and from the front again. *)
Yield(t) ==
    /\ stage[t] = "scan" /\ pos[t] = NumSlots + 1
    /\ pos' = [pos EXCEPT ![t] = 1]
    /\ UNCHANGED <<stage, sized, holder, poisoned, worker>>

LockSerial(t) ==
    /\ stage[t] = "blocked"
    /\ Take(t, SerialSlot)
    /\ UNCHANGED <<pos, sized, poisoned>>

Leave(t) ==
    /\ stage[t] = "work"
    /\ stage' = [stage EXCEPT ![t] = "idle"]
    /\ pos' = [pos EXCEPT ![t] = 0]
    /\ holder' = [holder EXCEPT ![pos[t]] = Nobody]
    /\ UNCHANGED sized

(* f returns and the guard drops.  Nothing clears a poison flag. *)
Return(t) ==
    /\ Leave(t)
    /\ worker' = [worker EXCEPT ![pos[t]] = "warm"]
    /\ UNCHANGED poisoned

(* Bug: the guard of a panicking pooled encode is leaked. *)
PanicLeaking(t) ==
    /\ stage[t] = "work" /\ pos[t] # SerialSlot
    /\ stage' = [stage EXCEPT ![t] = "idle"]
    /\ pos' = [pos EXCEPT ![t] = 0]
    /\ poisoned' = [poisoned EXCEPT ![pos[t]] = TRUE]
    /\ worker' = [worker EXCEPT ![pos[t]] = "torn"]
    /\ UNCHANGED <<sized, holder>>

(* f panics: the guard drops while unwinding and poisons the mutex. *)
PoolPanic(t) ==
    /\ Leave(t)
    /\ worker' = [worker EXCEPT ![pos[t]] = "torn"]
    /\ poisoned' = [poisoned EXCEPT ![pos[t]] = TRUE]

Work(t) == Probe(t) \/ Yield(t) \/ Return(t) \/ PoolPanic(t)
PoolNext ==
    /\ \E t \in callers : CallPool(t) \/ CallSerial(t) \/ Work(t) \/ LockSerial(t)
    /\ UNCHANGED callers

(* A thread inside with_worker or inside an encode keeps running.  No fairness
   for LockSerial: std's Mutex does not promise its waiters a turn. *)
PoolFairness == \A t \in Threads : WF_poolVars(t \in callers /\ Work(t) /\ UNCHANGED callers)

PoolSpec == PoolInit /\ [][PoolNext]_poolVars
PoolFairSpec == PoolSpec /\ PoolFairness
-----------------------------------------------------------------------------
PoolTypeOK ==
    /\ callers \in (SUBSET Threads) \ {{}}
    /\ stage \in [Threads -> {"idle", "scan", "blocked", "work"}]
    /\ pos \in [Threads -> 0..(NumSlots + 1)]
    /\ sized \in BOOLEAN
    /\ holder \in [Slots -> Threads \cup {Nobody}]
    /\ poisoned \in [Slots -> BOOLEAN]
    /\ worker \in [Slots -> {"none", "cold", "warm", "torn"}]

(***************************************************************************)
(* Exclusive access to a pooled worker: no two encodes run on one slot.    *)
(***************************************************************************)
Exclusive ==
    \A t, u \in Threads :
        stage[t] = "work" /\ stage[u] = "work" /\ pos[t] = pos[u] => t = u

(***************************************************************************)
(* "its cache may be inconsistent, so rebuild it": no encode runs on a     *)
(* worker that an earlier panic left in the middle of an encode.           *)
(***************************************************************************)
NoTornWorker == \A t \in Threads : stage[t] = "work" => worker[pos[t]] # "torn"

(* As many slots as threads that encode, which is what rayon promises. *)
EnoughSlots == Cardinality(callers) <= NumSlots

(***************************************************************************)
(* "a free slot always exists": with no more encoding threads than slots,  *)
(* no scan comes to its end empty-handed, although slots are freed and     *)
(* taken behind the scanning thread's back.                                *)
(***************************************************************************)
NoMissedScan == EnoughSlots => \A t \in Threads : pos[t] # NumSlots + 1

(***************************************************************************)
(* Then every with_worker call also gets its slot and comes back, panics   *)
(* and the calls of other threads notwithstanding.                         *)
(***************************************************************************)
CallsReturn == \A t \in Threads : (EnoughSlots /\ stage[t] = "scan") ~> (stage[t] = "idle")
=============================================================================
