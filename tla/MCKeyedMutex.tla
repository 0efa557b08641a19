---------------------------- MODULE MCKeyedMutex ----------------------------
(***************************************************************************)
(* Model of KeyedMutex for TLC: four calls over two keys, any assignment   *)
(* of keys, which includes a queue of four, a release that meets an empty  *)
(* queue while another call arrives, and two independent queues.           *)
(***************************************************************************)
EXTENDS KeyedMutex, FiniteSets

\* No queue is longer than there are calls inside runExclusive.
Queues(k) == UNION {[1..n -> LiveOn(k)] : n \in 0..Cardinality(LiveOn(k))}

(***************************************************************************)
(* The chain of promises implements first-come-first-served queues, one    *)
(* per key: no call overtakes another, and none is served out of turn.     *)
(***************************************************************************)
Fifo == INSTANCE FifoLock WITH
            queue <- [k \in Key |-> CHOOSE s \in Queues(k) : InOrder(s, k)],
            inside <- Running

ServedInOrder == Fifo!FifoSpec

\* Every call has returned and no client makes another one.
AllReturned == \A c \in Call : Released(c)

Done == AllReturned /\ UNCHANGED mutexVars

MCSpec == MutexInit /\ [][MutexNext \/ Done]_mutexVars /\ MutexFairness
=============================================================================
