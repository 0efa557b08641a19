------------------------------ MODULE FifoLock ------------------------------
(***************************************************************************)
(* What a caller of the keyed lock relies on, with no promise in sight:    *)
(* one queue of calls per key, served strictly in the order of arrival,    *)
(* one at a time. KeyedMutex implements this (MCKeyedMutex).               *)
(***************************************************************************)
EXTENDS Naturals, Sequences

CONSTANTS Call, Key

VARIABLES
    queue,   \* the calls on a key in order of arrival, the served one first
    inside   \* the calls that are being served

fifoVars == <<queue, inside>>

Queued == UNION {{queue[k][i] : i \in 1..Len(queue[k])} : k \in Key}

FifoInit ==
    /\ queue = [k \in Key |-> <<>>]
    /\ inside = {}

Join(c, k) ==
    /\ c \notin Queued
    /\ queue' = [queue EXCEPT ![k] = Append(@, c)]
    /\ UNCHANGED inside

Acquire(k) ==
    /\ queue[k] # <<>>
    /\ Head(queue[k]) \notin inside
    /\ inside' = inside \cup {Head(queue[k])}
    /\ UNCHANGED queue

Leave(k) ==
    /\ queue[k] # <<>>
    /\ Head(queue[k]) \in inside
    /\ inside' = inside \ {Head(queue[k])}
    /\ queue' = [queue EXCEPT ![k] = Tail(@)]

FifoNext ==
    \E k \in Key :
        \/ \E c \in Call : Join(c, k)
        \/ Acquire(k)
        \/ Leave(k)

\* Whoever is at the head is served, and whoever is served leaves.
FifoFairness ==
    \A k \in Key : WF_fifoVars(Acquire(k)) /\ WF_fifoVars(Leave(k))

FifoSpec == FifoInit /\ [][FifoNext]_fifoVars /\ FifoFairness

=============================================================================
