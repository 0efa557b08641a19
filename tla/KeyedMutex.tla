----------------------------- MODULE KeyedMutex -----------------------------
(***************************************************************************)
(* The per-key promise lock of common/keyed-mutex.ts, which serialises the *)
(* read-modify-write of an endpoint's authentication block.                *)
(*                                                                         *)
(* The lock has no queue. A map holds, for each key, the promise of the    *)
(* last call that entered ("tail"); a call waits for the tail it found and *)
(* becomes the tail itself. The promise of call c is settled exactly when  *)
(* c has released, so a promise is represented by the call that created it *)
(* and "settled" by the stage of that call.                                *)
(*                                                                         *)
(* One member of Call is one invocation of runExclusive. The steps are the *)
(* code's: everything up to the first await (Enter), the turn of the event *)
(* loop that resumes it and calls fn (Start), and the settling of fn with  *)
(* the finally block (Finish).                                             *)
(***************************************************************************)
EXTENDS Naturals, Sequences

CONSTANTS
    Call,    \* invocations of runExclusive
    Key,     \* the strings it is called with (endpoint ids)
    NoCall   \* "no entry in the map", "no predecessor"

ASSUME NoCallAssumption == NoCall \notin Call

VARIABLES
    tails,   \* the map: the call whose promise is stored under the key
    stage,   \* how far each call is
    key,     \* the argument of each call that has entered
    prev     \* "previous": the call whose promise it found under its key

mutexVars == <<tails, stage, key, prev>>

Waiting == {c \in Call : stage[c] = "waiting"}
Running == {c \in Call : stage[c] = "running"}

\* The calls inside runExclusive on key k: waiting for their turn or in fn.
LiveOn(k) == {c \in Waiting \cup Running : key[c] = k}

\* held has been resolved: fn has settled either way and finally has run.
Released(c) == stage[c] \in {"resolved", "rejected"}

\* Mutant: a call waits only until its predecessor has begun.
PreviousSettled_Begun(c) == prev[c] # NoCall => stage[prev[c]] # "waiting"

\* Mutant: a predecessor that threw never lets its successor go.
PreviousSettled_Poisoned(c) == prev[c] # NoCall => stage[prev[c]] = "resolved"

\* The promise a call awaits is settled; with no entry it is Promise.resolve().
PreviousSettled(c) == prev[c] # NoCall => Released(prev[c])

\* The getter "size": the number of keys held or queued.
HeldKeys == {k \in Key : tails[k] # NoCall}

-----------------------------------------------------------------------------

MutexInit ==
    /\ tails = [k \in Key |-> NoCall]
    /\ stage = [c \in Call |-> "idle"]
    /\ key \in [Call -> Key]
    /\ prev = [c \in Call |-> NoCall]

\* Everything before the first await happens in one synchronous block.
Enter(c) ==
    /\ stage[c] = "idle"
    /\ prev' = [prev EXCEPT ![c] = tails[key[c]]]
    /\ tails' = [tails EXCEPT ![key[c]] = c]
    /\ stage' = [stage EXCEPT ![c] = "waiting"]
    /\ UNCHANGED key

\* previous has settled, fulfilled or not (".catch(() => undefined)").
Start(c) ==
    /\ stage[c] = "waiting"
    /\ PreviousSettled(c)
    /\ stage' = [stage EXCEPT ![c] = "running"]
    /\ UNCHANGED <<tails, key, prev>>

\* Mutant: the key is deleted although a later call has queued.
TailsWithout_Unchecked(c) == [tails EXCEPT ![key[c]] = NoCall]

\* Mutant: the key is never deleted.
TailsWithout_Leaky(c) == tails

\* The map after the finally block of c: the entry goes if c is still the tail.
TailsWithout(c) ==
    [k \in Key |-> IF k = key[c] /\ tails[k] = c THEN NoCall ELSE tails[k]]

\* fn resolves or throws; finally releases in both cases.
Finish(c, outcome) ==
    /\ stage[c] = "running"
    /\ stage' = [stage EXCEPT ![c] = outcome]
    /\ tails' = TailsWithout(c)
    /\ UNCHANGED <<key, prev>>

MutexNext ==
    \E c \in Call :
        \/ Enter(c)
        \/ Start(c)
        \/ Finish(c, "resolved")
        \/ Finish(c, "rejected")

\* The event loop resumes every settled await, and fn (database calls with a
\* timeout) settles. Nothing forces a client to make a call.
MutexFairness ==
    \A c \in Call :
        /\ WF_mutexVars(Start(c))
        /\ WF_mutexVars(Finish(c, "resolved") \/ Finish(c, "rejected"))

MutexSpec == MutexInit /\ [][MutexNext]_mutexVars /\ MutexFairness

-----------------------------------------------------------------------------

\* The shape of the lock's state.
MutexTypeOK ==
    /\ tails \in [Key -> Call \cup {NoCall}]
    /\ stage \in [Call -> {"idle", "waiting", "running", "resolved", "rejected"}]
    /\ key \in [Call -> Key]
    /\ prev \in [Call -> Call \cup {NoCall}]

(***************************************************************************)
(* At most one call per key is inside fn, although nothing in the code     *)
(* says "locked": exclusion comes only from the chain of promises, which   *)
(* the delete in the finally block cuts.                                   *)
(***************************************************************************)
MutualExclusion ==
    \A c, d \in Running : c # d => key[c] # key[d]

(***************************************************************************)
(* The map is exact: an entry exists for a key exactly while some call on  *)
(* that key is queued or running. More would leak keys for ever (the size  *)
(* getter exists to test this); fewer would let the next call start beside *)
(* the running one.                                                        *)
(***************************************************************************)
MapExact ==
    HeldKeys = {k \in Key : LiveOn(k) # {}}

(***************************************************************************)
(* The queue that the chain of promises stands for: the calls on k such    *)
(* that the last is the tail of the map, each awaits the one before it,    *)
(* and the first one awaits nobody.                                        *)
(***************************************************************************)
InOrder(s, k) ==
    /\ s = <<>> => tails[k] = NoCall
    /\ s # <<>> => s[Len(s)] = tails[k] /\ PreviousSettled(s[1])
    /\ \A i \in 1..Len(s) : s[i] \in LiveOn(k)
    /\ \A i \in 2..Len(s) : prev[s[i]] = s[i - 1]

(***************************************************************************)
(* Every call that entered gets its turn and settles, also behind a call   *)
(* whose fn threw: "a rejected predecessor must not poison the queue".     *)
(***************************************************************************)
EveryCallSettles ==
    \A c \in Call : (stage[c] = "waiting") ~> Released(c)

=============================================================================
