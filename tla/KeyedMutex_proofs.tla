-------------------------- MODULE KeyedMutex_proofs --------------------------
(***************************************************************************)
(* Proofs about KeyedMutex: for every set of calls and keys the promise    *)
(* chain gives mutual exclusion, the map holds exactly the busy keys, and  *)
(* calls are served in the order in which they came.                       *)
(*                                                                         *)
(* None of these is inductive. The invariant below describes the chain:    *)
(* the map points at a live call nobody waits for, no two calls wait for   *)
(* the same promise, the chain has no cycle, and on each key at most one   *)
(* live call has its predecessor settled.                                  *)
(***************************************************************************)
EXTENDS KeyedMutex, FiniteSetTheorems, SequenceTheorems, TLAPS

Live(c) == stage[c] \in {"waiting", "running"}

\* Its predecessor is settled: c may be started, or has been.
Eligible(c) == Live(c) /\ PreviousSettled(c)

\* The stored promise belongs to a live call on that key, and nobody awaits it.
TailIsLast ==
    \A k \in Key : tails[k] # NoCall =>
        /\ Live(tails[k])
        /\ key[tails[k]] = k
        /\ \A d \in Call : prev[d] # tails[k]

\* A key with a live call has an entry.
LiveHasTail ==
    \A c \in Call : Live(c) => tails[key[c]] # NoCall

\* A call that has not entered awaits nothing; a predecessor has entered.
PrevEntered ==
    \A d \in Call :
        /\ stage[d] = "idle" => prev[d] = NoCall
        /\ prev[d] # NoCall =>
              /\ stage[prev[d]] # "idle"
              /\ key[prev[d]] = key[d]

\* Two calls never await the same promise.
PrevInjective ==
    \A c, d \in Call : prev[c] = prev[d] /\ prev[c] # NoCall => c = d

\* No call awaits itself through any number of others.
NoCycle ==
    \A S \in SUBSET Call : (\A d \in S : prev[d] \in S) => S = {}

\* At most one live call per key may run, and a running call is that one.
OneEligible ==
    /\ \A c \in Call : stage[c] = "running" => Eligible(c)
    /\ \A c, d \in Call : Eligible(c) /\ Eligible(d) /\ key[c] = key[d] => c = d

MutexInv ==
    /\ MutexTypeOK
    /\ TailIsLast
    /\ LiveHasTail
    /\ PrevEntered
    /\ PrevInjective
    /\ NoCycle
    /\ OneEligible

-----------------------------------------------------------------------------

\* The chain is empty at first.
LEMMA MutexInitInv == MutexInit => MutexInv
  BY NoCallAssumption
  DEF MutexInit, MutexInv, MutexTypeOK, TailIsLast, LiveHasTail, PrevEntered,
      PrevInjective, NoCycle, OneEligible, Live, Eligible

\* A new call becomes the tail behind the old one and keeps the chain intact.
LEMMA EnterKeepsInv ==
  ASSUME MutexInv, NEW c \in Call, Enter(c)
  PROVE  MutexInv'
<1> USE NoCallAssumption
<1> DEFINE t == tails[key[c]]
<1>1. MutexTypeOK'
  BY DEF MutexInv, MutexTypeOK, Enter
<1>2. /\ stage[c] = "idle" /\ stage'[c] = "waiting" /\ prev[c] = NoCall
      /\ \A d \in Call : d # c => stage'[d] = stage[d] /\ prev'[d] = prev[d]
      /\ prev'[c] = t /\ key' = key
      /\ \A k \in Key : tails'[k] = IF k = key[c] THEN c ELSE tails[k]
      /\ t \in Call \cup {NoCall}
  BY DEF MutexInv, MutexTypeOK, Enter, PrevEntered
<1>3. \A d \in Call : prev[d] # c
  BY <1>2 DEF MutexInv, PrevEntered
<1>4. t # c /\ (t # NoCall => Live(t) /\ key[t] = key[c] /\ \A d \in Call : prev[d] # t)
  BY <1>2 DEF MutexInv, MutexTypeOK, TailIsLast, Live
<1>5. TailIsLast'
  BY <1>2, <1>3, <1>4 DEF MutexInv, MutexTypeOK, TailIsLast, Live
<1>6. LiveHasTail'
  BY <1>2 DEF MutexInv, MutexTypeOK, LiveHasTail, Live
<1>7. PrevEntered'
  BY <1>2, <1>4 DEF MutexInv, MutexTypeOK, PrevEntered, Live
<1>8. PrevInjective'
  BY <1>2, <1>4 DEF MutexInv, MutexTypeOK, PrevInjective
<1>9. NoCycle'
  <2> SUFFICES ASSUME NEW S \in SUBSET Call, \A d \in S : prev'[d] \in S, S # {}
               PROVE  FALSE
    BY DEF NoCycle
  <2>1. \A d \in S \ {c} : prev[d] \in S \ {c}
    BY <1>2, <1>3
  <2>2. S \ {c} = {}
    BY <2>1 DEF MutexInv, NoCycle
  <2>3. S = {c} /\ prev'[c] = c
    BY <2>2
  <2> QED BY <2>3, <1>2, <1>4
<1>10. OneEligible'
  <2>1. ASSUME NEW d \in Call, d # c
        PROVE  Eligible(d)' <=> Eligible(d)
    <3>1. Live(d)' <=> Live(d)
      BY <1>2, <2>1 DEF Live
    <3>2. prev'[d] = prev[d] /\ prev[d] # c /\ prev[d] \in Call \cup {NoCall}
      BY <1>2, <1>3, <2>1 DEF MutexInv, MutexTypeOK
    <3>3. PreviousSettled(d)' <=> PreviousSettled(d)
      BY <3>2, <1>2 DEF PreviousSettled, Released
    <3> QED BY <3>1, <3>3 DEF Eligible
  <2>2. ASSUME Eligible(c)', NEW d \in Call, d # c, key[d] = key[c], Eligible(d)
        PROVE  FALSE
    <3>1. t # NoCall
      BY <2>2 DEF MutexInv, LiveHasTail, Eligible
    <3>2. t \in Call /\ stage'[t] \in {"waiting", "running"}
      BY <3>1, <1>2, <1>4 DEF Live
    <3> QED BY <2>2, <3>1, <3>2, <1>2 DEF Eligible, PreviousSettled, Released
  <2> QED BY <2>1, <2>2, <1>2 DEF MutexInv, OneEligible
<1> QED BY <1>1, <1>5, <1>6, <1>7, <1>8, <1>9, <1>10 DEF MutexInv

\* Starting an eligible call changes nothing else.
LEMMA StartKeepsInv ==
  ASSUME MutexInv, NEW c \in Call, Start(c)
  PROVE  MutexInv'
<1> USE NoCallAssumption
<1>1. MutexTypeOK'
  BY DEF MutexInv, MutexTypeOK, Start
<1>2. /\ stage[c] = "waiting" /\ stage'[c] = "running" /\ PreviousSettled(c)
      /\ \A d \in Call : d # c => stage'[d] = stage[d]
      /\ prev' = prev /\ key' = key /\ tails' = tails
  BY DEF MutexInv, MutexTypeOK, Start
<1>3. \A d \in Call : (Live(d)' <=> Live(d)) /\ (Released(d)' <=> Released(d))
  BY <1>2 DEF Live, Released
<1>4. \A d \in Call : Eligible(d)' <=> Eligible(d)
  BY <1>2, <1>3 DEF Eligible, PreviousSettled, MutexInv, MutexTypeOK
<1>5. TailIsLast' /\ LiveHasTail'
  BY <1>2, <1>3 DEF MutexInv, MutexTypeOK, TailIsLast, LiveHasTail
<1>6. PrevEntered' /\ PrevInjective' /\ NoCycle'
  BY <1>2 DEF MutexInv, MutexTypeOK, PrevEntered, PrevInjective, NoCycle
<1>7. OneEligible'
  <2>1. Eligible(c)
    BY <1>2 DEF Eligible, Live
  <2> QED BY <2>1, <1>2, <1>4 DEF MutexInv, OneEligible
<1> QED BY <1>1, <1>5, <1>6, <1>7 DEF MutexInv

(***************************************************************************)
(* The step that needs the whole invariant: deleting the entry is right    *)
(* because a tail that may finish is alone on its key. If it were not, the *)
(* other live calls would form a set closed under "previous".              *)
(***************************************************************************)
LEMMA TailRunsAlone ==
  ASSUME MutexInv, NEW c \in Call, stage[c] = "running", tails[key[c]] = c
  PROVE  \A d \in Call : Live(d) /\ key[d] = key[c] => d = c
<1> USE NoCallAssumption
<1> DEFINE S == {d \in Call : Live(d) /\ key[d] = key[c] /\ d # c}
<1>1. Eligible(c)
  BY DEF MutexInv, OneEligible
<1>2. ASSUME NEW d \in S
      PROVE  prev[d] \in S
  <2>1. ~Eligible(d)
    BY <1>1, <1>2 DEF MutexInv, OneEligible
  <2>2. prev[d] \in Call /\ ~Released(prev[d])
    BY <2>1, <1>2 DEF Eligible, PreviousSettled, MutexInv, MutexTypeOK
  <2>3. Live(prev[d]) /\ key[prev[d]] = key[d]
    BY <2>2, <1>2 DEF MutexInv, MutexTypeOK, PrevEntered, Live, Released
  <2>4. prev[d] # c
    BY <1>2 DEF MutexInv, MutexTypeOK, TailIsLast
  <2> QED BY <2>2, <2>3, <2>4, <1>2
<1>3. S = {}
  BY <1>2 DEF MutexInv, NoCycle
<1> QED BY <1>3

\* Finishing makes the successor eligible, and nobody else.
LEMMA FinishKeepsInv ==
  ASSUME MutexInv, NEW c \in Call, NEW o \in {"resolved", "rejected"}, Finish(c, o)
  PROVE  MutexInv'
<1> USE NoCallAssumption
<1>1. MutexTypeOK'
  BY DEF MutexInv, MutexTypeOK, Finish, TailsWithout
<1>2. /\ stage[c] = "running" /\ stage'[c] = o
      /\ \A d \in Call : d # c => stage'[d] = stage[d]
      /\ prev' = prev /\ key' = key
      /\ \A k \in Key :
            tails'[k] = IF k = key[c] /\ tails[k] = c THEN NoCall ELSE tails[k]
  BY DEF MutexInv, MutexTypeOK, Finish, TailsWithout
<1>3. \A d \in Call : d # c => (Live(d)' <=> Live(d)) /\ (Released(d)' <=> Released(d))
  BY <1>2 DEF Live, Released
<1>4. Live(c) /\ ~Live(c)' /\ Released(c)' /\ Eligible(c)
  BY <1>2 DEF Live, Released, MutexInv, OneEligible
<1>5. TailIsLast'
  <2> SUFFICES ASSUME NEW k \in Key, tails'[k] # NoCall
               PROVE  /\ Live(tails[k])' /\ key[tails[k]] = k /\ tails'[k] = tails[k]
                      /\ \A d \in Call : prev[d] # tails[k]
    BY <1>2 DEF TailIsLast
  <2>1. /\ tails'[k] = tails[k] /\ tails[k] \in Call
        /\ Live(tails[k]) /\ key[tails[k]] = k
        /\ \A d \in Call : prev[d] # tails[k]
    BY <1>2 DEF MutexInv, MutexTypeOK, TailIsLast
  <2>2. tails[k] # c
    BY <2>1, <1>2
  <2> QED BY <2>1, <2>2, <1>2 DEF Live
<1>6. LiveHasTail'
  <2> SUFFICES ASSUME NEW d \in Call, Live(d)'
               PROVE  tails'[key[d]] # NoCall
    BY <1>2 DEF LiveHasTail
  <2>1. d # c /\ Live(d)
    BY <1>3, <1>4
  <2>2. tails[key[d]] # NoCall /\ key[d] \in Key
    BY <2>1 DEF MutexInv, MutexTypeOK, LiveHasTail
  <2>3. ~(key[d] = key[c] /\ tails[key[c]] = c)
    BY <2>1, <1>2, TailRunsAlone
  <2> QED BY <2>2, <2>3, <1>2
<1>7. PrevEntered' /\ PrevInjective' /\ NoCycle'
  BY <1>2 DEF MutexInv, MutexTypeOK, PrevEntered, PrevInjective, NoCycle
<1>8. OneEligible'
  <2>1. ASSUME NEW d \in Call, Eligible(d)', prev[d] # c
        PROVE  d # c /\ Eligible(d)
    BY <2>1, <1>2, <1>3, <1>4 DEF Eligible, PreviousSettled, MutexInv, MutexTypeOK
  <2>2. ASSUME NEW d \in Call, Eligible(d)', key[d] = key[c]
        PROVE  prev[d] = c
    BY <2>1, <2>2, <1>4 DEF MutexInv, OneEligible
  <2>3. ASSUME NEW d \in Call, prev[d] = c
        PROVE  key[d] = key[c]
    BY <2>3 DEF MutexInv, PrevEntered
  <2>4. ASSUME NEW d \in Call, NEW e \in Call, Eligible(d)', Eligible(e)', key[d] = key[e]
        PROVE  d = e
    <3>1. CASE key[d] = key[c]
      BY <3>1, <2>2, <2>4 DEF MutexInv, PrevInjective
    <3>2. CASE key[d] # key[c]
      <4>1. prev[d] # c /\ prev[e] # c
        BY <3>2, <2>3, <2>4
      <4> QED BY <4>1, <2>1, <2>4 DEF MutexInv, OneEligible
    <3> QED BY <3>1, <3>2
  <2>5. ASSUME NEW d \in Call, stage'[d] = "running"
        PROVE  Eligible(d)'
    <3>1. d # c /\ Eligible(d)
      BY <2>5, <1>2 DEF MutexInv, OneEligible
    <3>2. Live(d)'
      BY <3>1, <1>3 DEF Eligible
    <3>3. PreviousSettled(d)'
      BY <3>1, <1>2, <1>3, <1>4 DEF Eligible, PreviousSettled, MutexInv, MutexTypeOK
    <3> QED BY <3>2, <3>3 DEF Eligible
  <2> QED BY <2>4, <2>5, <1>2 DEF OneEligible
<1> QED BY <1>1, <1>5, <1>6, <1>7, <1>8 DEF MutexInv

\* Every step of the lock keeps the invariant.
LEMMA MutexNextInv == MutexInv /\ [MutexNext]_mutexVars => MutexInv'
<1> SUFFICES ASSUME MutexInv, [MutexNext]_mutexVars PROVE MutexInv'
  OBVIOUS
<1>1. ASSUME NEW c \in Call, Enter(c) PROVE MutexInv'
  BY <1>1, EnterKeepsInv
<1>2. ASSUME NEW c \in Call, Start(c) PROVE MutexInv'
  BY <1>2, StartKeepsInv
<1>3. ASSUME NEW c \in Call, Finish(c, "resolved") \/ Finish(c, "rejected")
      PROVE  MutexInv'
  BY <1>3, FinishKeepsInv
<1>4. CASE UNCHANGED mutexVars
  BY <1>4 DEF mutexVars, MutexInv, MutexTypeOK, TailIsLast, LiveHasTail, PrevEntered,
              PrevInjective, NoCycle, OneEligible, Eligible, Live, PreviousSettled, Released
<1> QED BY <1>1, <1>2, <1>3, <1>4 DEF MutexNext

-----------------------------------------------------------------------------

\* The invariant holds in every reachable state of the lock.
THEOREM MutexInvariant == MutexSpec => []MutexInv
  BY MutexInitInv, MutexNextInv, PTL DEF MutexSpec

\* The lock's variables keep their shape: no call ever has a foreign stage,
\* predecessor or map entry.
THEOREM MutexTypeCorrect == MutexSpec => []MutexTypeOK
<1>1. MutexInv => MutexTypeOK
  BY DEF MutexInv
<1> QED BY <1>1, MutexInvariant, PTL

\* runExclusive never runs two functions of one key at the same time, for any
\* number of calls and keys and whether or not they throw.
THEOREM MutexExcludes == MutexSpec => []MutualExclusion
<1>1. MutexInv => MutualExclusion
  BY DEF MutexInv, OneEligible, MutualExclusion, Running
<1> QED BY <1>1, MutexInvariant, PTL

\* The map never leaks a key and never forgets a busy one.
THEOREM MutexMapExact == MutexSpec => []MapExact
<1>1. MutexInv => MapExact
  BY NoCallAssumption DEF MutexInv, MutexTypeOK, TailIsLast, LiveHasTail, MapExact, HeldKeys,
     LiveOn, Waiting, Running, Live
<1> QED BY <1>1, MutexInvariant, PTL

-----------------------------------------------------------------------------
(***************************************************************************)
(* The lock implements first-come-first-served queues. The queue of a key  *)
(* is read off the chain of promises; it exists because every step leaves  *)
(* one (a new call at its end, a finished one off its front), and there is *)
(* no other, because from the tail back every promise leads to one other.  *)
(***************************************************************************)

\* A set of numbers up to n has a least one.
LEMMA LeastOf ==
  ASSUME NEW n \in Nat, NEW B \in SUBSET (0..n), B # {}
  PROVE  \E m \in B : \A i \in B : m <= i
<1> DEFINE Cuts == {T \in SUBSET (1..n) : \E m \in B : T = 1..m}
<1>1. IsFiniteSet(1..n)
  BY FS_Interval
<1>2. IsWellFoundedOn(StrictSubsetOrdering(1..n), FiniteSubsetsOf(1..n))
  BY <1>1, FS_StrictSubsetOrderingWellFounded
<1>3. FiniteSubsetsOf(1..n) = SUBSET (1..n)
  BY <1>1, FS_FiniteSubsetsOfFinite
<1>4. \A m \in B : 1..m \in Cuts
  OBVIOUS
<1>5. Cuts # {} /\ Cuts \subseteq FiniteSubsetsOf(1..n)
  BY <1>3, <1>4
<1> HIDE DEF Cuts
<1>6. \E x \in Cuts : \A y \in Cuts : ~ (<<y, x>> \in StrictSubsetOrdering(1..n))
  BY <1>2, <1>5, WFMin
<1>7. PICK x \in Cuts : \A y \in Cuts : ~ (<<y, x>> \in StrictSubsetOrdering(1..n))
  BY <1>6
<1>8. PICK m \in B : x = 1..m
  BY DEF Cuts
<1>9. ASSUME NEW i \in B, i < m PROVE FALSE
  <2>1. m \in Nat /\ i \in Nat /\ 1..i \subseteq 1..n /\ 1..m \subseteq 1..n
    OBVIOUS
  <2>2. 1..i \subseteq 1..m /\ m \in 1..m /\ m \notin 1..i
    BY <1>9, <2>1
  <2>3. <<1..i, x>> \in StrictSubsetOrdering(1..n)
    BY <1>8, <2>1, <2>2 DEF StrictSubsetOrdering
  <2> QED BY <1>4, <1>7, <2>3
<1>10. \A i \in B : m <= i
  BY <1>9
<1> QED BY <1>10

\* What the members of a queue are.
LEMMA QueueFacts ==
  ASSUME MutexInv, NEW k \in Key, NEW s \in Seq(Call), InOrder(s, k)
  PROVE  /\ \A i \in 1..Len(s) : s[i] \in Call /\ Live(s[i]) /\ key[s[i]] = k
         /\ \A i \in 2..Len(s) : ~Eligible(s[i])
         /\ s # <<>> => Eligible(s[1])
         /\ \A c \in Call : Live(c) /\ key[c] = k => s # <<>>
         /\ \A c \in Call : Eligible(c) /\ key[c] = k => s # <<>> /\ c = s[1]
<1> USE NoCallAssumption
<1>1. \A i \in 1..Len(s) : s[i] \in Call /\ Live(s[i]) /\ key[s[i]] = k
  BY DEF InOrder, LiveOn, Waiting, Running, Live
<1>2. ASSUME NEW i \in 2..Len(s) PROVE ~Eligible(s[i])
  <2>1. i - 1 \in 1..Len(s) /\ prev[s[i]] = s[i - 1]
    BY DEF InOrder
  <2>2. Live(prev[s[i]]) /\ prev[s[i]] \in Call
    BY <1>1, <2>1
  <2> QED BY <2>2 DEF Eligible, PreviousSettled, Released, Live
<1>3. s # <<>> => Eligible(s[1])
  <2>1. s # <<>> => 1 \in 1..Len(s)
    OBVIOUS
  <2> QED BY <1>1, <2>1 DEF InOrder, Eligible
<1>4. ASSUME NEW c \in Call, Live(c), key[c] = k PROVE s # <<>>
  BY <1>4 DEF MutexInv, LiveHasTail, InOrder
<1>5. ASSUME NEW c \in Call, Eligible(c), key[c] = k PROVE s # <<>> /\ c = s[1]
  <2>1. s # <<>> /\ 1 \in 1..Len(s)
    BY <1>4, <1>5 DEF Eligible
  <2>2. Eligible(s[1]) /\ s[1] \in Call /\ key[s[1]] = k
    BY <1>1, <1>3, <2>1
  <2> QED BY <1>5, <2>1, <2>2 DEF MutexInv, OneEligible
<1> QED BY <1>1, <1>2, <1>3, <1>4, <1>5

\* From their ends two queues of a key agree, as far as both go.
LEMMA QueuesAgree ==
  ASSUME MutexInv, NEW k \in Key, NEW s \in Seq(Call), NEW t \in Seq(Call),
         InOrder(s, k), InOrder(t, k), s # <<>>, t # <<>>,
         NEW i \in Nat, i < Len(s), i < Len(t)
  PROVE  s[Len(s) - i] = t[Len(t) - i]
<1> DEFINE B == {j \in 0..i : s[Len(s) - j] # t[Len(t) - j]}
<1> HIDE DEF B
<1>1. SUFFICES ASSUME B # {} PROVE FALSE
  <2>1. i \in 0..i
    OBVIOUS
  <2> QED BY <2>1 DEF B
<1>2. B \in SUBSET (0..i)
  BY DEF B
<1>3. PICK j \in B : \A b \in B : j <= b
  BY <1>1, <1>2, LeastOf
<1>4. j \in 0..i /\ s[Len(s) - j] # t[Len(t) - j]
  BY DEF B
<1>5. j # 0
  BY <1>4 DEF InOrder
<1>6. j - 1 \in 0..i /\ ~(j <= j - 1)
  BY <1>4, <1>5
<1>7. s[Len(s) - (j - 1)] = t[Len(t) - (j - 1)]
  BY <1>3, <1>6 DEF B
<1>8. /\ Len(s) - (j - 1) \in 2..Len(s) /\ (Len(s) - (j - 1)) - 1 = Len(s) - j
      /\ Len(t) - (j - 1) \in 2..Len(t) /\ (Len(t) - (j - 1)) - 1 = Len(t) - j
  BY <1>4, <1>5
<1>9. /\ prev[s[Len(s) - (j - 1)]] = s[Len(s) - j]
      /\ prev[t[Len(t) - (j - 1)]] = t[Len(t) - j]
  BY <1>8 DEF InOrder
<1> QED BY <1>4, <1>7, <1>9

\* A queue is not longer than another of its key: the first of the other one
\* awaits nobody.
LEMMA QueueNotLonger ==
  ASSUME MutexInv, NEW k \in Key, NEW s \in Seq(Call), NEW t \in Seq(Call),
         InOrder(s, k), InOrder(t, k), s # <<>>, t # <<>>
  PROVE  Len(t) <= Len(s)
<1>1. SUFFICES ASSUME Len(t) > Len(s) PROVE FALSE
  OBVIOUS
<1> DEFINE i == Len(s) - 1
           j == Len(t) - i
<1>2. i \in Nat /\ i < Len(s) /\ i < Len(t) /\ Len(s) - i = 1 /\ j \in 2..Len(t)
  BY <1>1
<1>3. s[1] = t[j]
  BY <1>2, QueuesAgree
<1>4. Eligible(s[1]) /\ ~Eligible(t[j])
  BY <1>2, QueueFacts
<1> QED BY <1>3, <1>4

\* A key has one queue.
LEMMA QueueUnique ==
  ASSUME MutexInv, NEW k \in Key, NEW s \in Seq(Call), NEW t \in Seq(Call),
         InOrder(s, k), InOrder(t, k)
  PROVE  s = t
<1> USE NoCallAssumption
<1>1. CASE tails[k] = NoCall
  <2>1. ASSUME NEW r \in Seq(Call), InOrder(r, k) PROVE r = <<>>
    <3>1. SUFFICES ASSUME r # <<>> PROVE FALSE
      OBVIOUS
    <3>2. Len(r) \in 1..Len(r)
      BY <3>1
    <3>3. r[Len(r)] \in Call /\ r[Len(r)] = NoCall
      BY <1>1, <2>1, <3>1, <3>2 DEF InOrder
    <3> QED BY <3>3
  <2> QED BY <2>1
<1>2. CASE tails[k] # NoCall
  <2>1. s # <<>> /\ t # <<>>
    BY <1>2 DEF InOrder
  <2>2. Len(s) <= Len(t) /\ Len(t) <= Len(s)
    BY <2>1, QueueNotLonger
  <2>3. Len(s) = Len(t)
    BY <2>2
  <2>4. ASSUME NEW i \in 1..Len(s) PROVE s[i] = t[i]
    <3>1. /\ Len(s) - i \in Nat /\ Len(s) - i < Len(s) /\ Len(s) - i < Len(t)
          /\ Len(s) - (Len(s) - i) = i /\ Len(t) - (Len(s) - i) = i
      BY <2>3
    <3> QED BY <2>1, <3>1, QueuesAgree
  <2> QED BY <2>3, <2>4, SeqEqual
<1> QED BY <1>1, <1>2

Order(k) == CHOOSE s \in Seq(Call) : InOrder(s, k)

QueuesExist == \A k \in Key : \E s \in Seq(Call) : InOrder(s, k)

LEMMA OrderIsQueue ==
  MutexInv => \A k \in Key : \A s \in Seq(Call) : InOrder(s, k) => Order(k) = s
<1> SUFFICES ASSUME MutexInv, NEW k \in Key, NEW s \in Seq(Call), InOrder(s, k)
             PROVE  Order(k) = s
  OBVIOUS
<1>1. Order(k) \in Seq(Call) /\ InOrder(Order(k), k)
  BY DEF Order
<1> QED BY <1>1, QueueUnique

LEMMA OrderIsQueueNext ==
  (MutexInv => \A k \in Key : \A s \in Seq(Call) : InOrder(s, k) => Order(k) = s)'
BY OrderIsQueue, PTL

-----------------------------------------------------------------------------

\* A new call goes to the end.
LEMMA EnterOrder ==
  ASSUME MutexInv, NEW c \in Call, Enter(c), NEW k \in Key, NEW s \in Seq(Call), InOrder(s, k)
  PROVE  IF k = key[c] THEN InOrder(Append(s, c), k)' ELSE InOrder(s, k)'
<1> USE NoCallAssumption
<1>1. /\ stage[c] = "idle" /\ stage'[c] = "waiting" /\ prev[c] = NoCall
      /\ \A d \in Call \ {c} : stage'[d] = stage[d] /\ prev'[d] = prev[d]
      /\ prev'[c] = tails[key[c]] /\ key' = key
      /\ \A j \in Key : tails'[j] = IF j = key[c] THEN c ELSE tails[j]
  BY DEF MutexInv, MutexTypeOK, Enter, PrevEntered
<1>2. \A d \in Call : prev[d] # c
  BY <1>1 DEF MutexInv, PrevEntered
<1>3. \A i \in 1..Len(s) : s[i] \in Call \ {c} /\ Live(s[i]) /\ key[s[i]] = k
  BY <1>1, QueueFacts DEF Live
<1>4. \A i \in 1..Len(s) : s[i] \in LiveOn(k)'
  BY <1>1, <1>3 DEF LiveOn, Waiting, Running, Live
<1>5. \A i \in 2..Len(s) : prev'[s[i]] = s[i - 1]
  BY <1>1, <1>3 DEF InOrder
<1>6. s # <<>> => PreviousSettled(s[1])'
  <2>1. SUFFICES ASSUME s # <<>> PROVE PreviousSettled(s[1])'
    OBVIOUS
  <2>2. s[1] \in Call \ {c} /\ PreviousSettled(s[1])
    BY <1>3, <2>1 DEF InOrder
  <2>3. prev'[s[1]] = prev[s[1]] /\ prev[s[1]] \in (Call \ {c}) \cup {NoCall}
    BY <1>1, <1>2, <2>2 DEF MutexInv, MutexTypeOK
  <2> QED BY <1>1, <2>2, <2>3 DEF PreviousSettled, Released
<1>7. CASE k # key[c]
  <2>1. tails'[k] = tails[k]
    BY <1>1, <1>7
  <2> QED BY <1>4, <1>5, <1>6, <1>7, <2>1 DEF InOrder
<1>8. CASE k = key[c]
  <2> DEFINE t == Append(s, c)
  <2>1. /\ Len(t) = Len(s) + 1 /\ t[Len(t)] = c /\ t # <<>>
        /\ \A i \in 1..Len(s) : t[i] = s[i]
    OBVIOUS
  <2>2. \A i \in 1..Len(t) : t[i] \in LiveOn(k)'
    <3>1. c \in LiveOn(k)'
      BY <1>1, <1>8 DEF LiveOn, Waiting
    <3> HIDE DEF t
    <3> QED BY <1>4, <2>1, <3>1
  <2>3. \A i \in 2..Len(t) : prev'[t[i]] = t[i - 1]
    <3> SUFFICES ASSUME NEW i \in 2..Len(t) PROVE prev'[t[i]] = t[i - 1]
      OBVIOUS
    <3>1. CASE i \in 2..Len(s)
      <4>1. i \in 1..Len(s) /\ i - 1 \in 1..Len(s)
        BY <3>1
      <4> HIDE DEF t
      <4> QED BY <1>5, <2>1, <3>1, <4>1
    <3>2. CASE i = Len(s) + 1
      <4>1. s # <<>> /\ Len(s) \in 1..Len(s) /\ i - 1 = Len(s)
        BY <2>1, <3>2
      <4>2. t[i] = c /\ t[i - 1] = s[Len(s)]
        BY <2>1, <3>2, <4>1
      <4>3. s[Len(s)] = tails[k]
        BY <4>1 DEF InOrder
      <4> HIDE DEF t
      <4> QED BY <1>1, <1>8, <4>2, <4>3
    <3> QED BY <2>1, <3>1, <3>2
  <2>4. PreviousSettled(t[1])'
    <3>1. CASE s = <<>>
      <4>1. t[1] = c /\ tails[k] = NoCall
        BY <3>1 DEF InOrder
      <4> HIDE DEF t
      <4> QED BY <1>1, <1>8, <4>1 DEF PreviousSettled
    <3>2. CASE s # <<>>
      <4>1. t[1] = s[1]
        BY <3>2
      <4> HIDE DEF t
      <4> QED BY <1>6, <3>2, <4>1 DEF PreviousSettled
    <3> QED BY <3>1, <3>2
  <2>5. t[Len(t)] = tails'[k]
    BY <1>1, <1>8, <2>1
  <2> HIDE DEF t
  <2>6. InOrder(t, k)'
    BY <2>1, <2>2, <2>3, <2>4, <2>5 DEF InOrder
  <2> USE DEF t
  <2> QED BY <1>8, <2>6
<1> QED BY <1>7, <1>8

\* Starting changes no queue.
LEMMA StartOrder ==
  ASSUME MutexInv, NEW c \in Call, Start(c), NEW k \in Key, NEW s \in Seq(Call), InOrder(s, k)
  PROVE  InOrder(s, k)'
<1> USE NoCallAssumption
<1>1. /\ stage[c] = "waiting" /\ stage'[c] = "running"
      /\ \A d \in Call \ {c} : stage'[d] = stage[d]
      /\ UNCHANGED <<prev, key, tails>>
  BY DEF MutexInv, MutexTypeOK, Start
<1>2. LiveOn(k)' = LiveOn(k)
  BY <1>1 DEF LiveOn, Waiting, Running
<1>3. \A d \in Call : PreviousSettled(d) => PreviousSettled(d)'
  BY <1>1 DEF PreviousSettled, Released, MutexInv, MutexTypeOK
<1>4. s # <<>> => s[1] \in Call
  OBVIOUS
<1> QED BY <1>1, <1>2, <1>3, <1>4 DEF InOrder

\* Who finishes is the first, and the others keep their order.
LEMMA FinishOrder ==
  ASSUME MutexInv, NEW c \in Call, NEW o \in {"resolved", "rejected"}, Finish(c, o),
         NEW k \in Key, NEW s \in Seq(Call), InOrder(s, k)
  PROVE  IF k = key[c] THEN s # <<>> /\ Head(s) = c /\ InOrder(Tail(s), k)' ELSE InOrder(s, k)'
<1> USE NoCallAssumption
<1>1. /\ stage[c] = "running" /\ stage'[c] = o
      /\ \A d \in Call \ {c} : stage'[d] = stage[d]
      /\ UNCHANGED <<prev, key>>
      /\ \A j \in Key : tails'[j] = IF j = key[c] /\ tails[j] = c THEN NoCall ELSE tails[j]
  BY DEF MutexInv, MutexTypeOK, Finish, TailsWithout
<1>2. Eligible(c) /\ ~Live(c)' /\ Released(c)'
  BY <1>1 DEF MutexInv, OneEligible, Live, Released
<1>3. \A d \in Call \ {c} : Live(d) => Live(d)'
  BY <1>1 DEF Live
<1>4. \A d \in Call : PreviousSettled(d) => PreviousSettled(d)'
  BY <1>1 DEF PreviousSettled, Released, MutexInv, MutexTypeOK
<1>5. \A d \in Call : Live(d)' /\ key[d] = k => d \in LiveOn(k)'
  BY <1>1 DEF LiveOn, Live, Waiting, Running
<1>6. \A i \in 1..Len(s) : s[i] \in Call /\ Live(s[i]) /\ key[s[i]] = k
  BY QueueFacts
<1>7. CASE k # key[c]
  <2>1. \A i \in 1..Len(s) : s[i] # c
    BY <1>6, <1>7
  <2>2. \A i \in 1..Len(s) : s[i] \in LiveOn(k)'
    BY <1>3, <1>5, <1>6, <2>1
  <2>3. s # <<>> => PreviousSettled(s[1])'
    BY <1>4, <1>6 DEF InOrder
  <2>4. tails'[k] = tails[k]
    BY <1>1, <1>7
  <2> QED BY <1>1, <1>7, <2>2, <2>3, <2>4 DEF InOrder
<1>8. CASE k = key[c]
  <2> DEFINE t == Tail(s)
  <2>1. s # <<>> /\ c = s[1] /\ Head(s) = c
    BY <1>2, <1>8, QueueFacts
  <2>2. \A i \in 2..Len(s) : s[i] # c
    BY <1>2, QueueFacts
  <2>3. /\ t \in Seq(Call) /\ Len(t) = Len(s) - 1 /\ Len(s) \in Nat /\ Len(s) > 0
        /\ \A i \in 1..Len(t) : t[i] = s[i + 1]
    BY <2>1
  <2> HIDE DEF t
  <2>4. \A i \in 1..Len(t) : t[i] \in LiveOn(k)'
    <3> SUFFICES ASSUME NEW i \in 1..Len(t) PROVE t[i] \in LiveOn(k)'
      OBVIOUS
    <3>1. i + 1 \in 2..Len(s) /\ i + 1 \in 1..Len(s) /\ t[i] = s[i + 1]
      BY <2>3
    <3>2. t[i] \in Call \ {c} /\ Live(t[i]) /\ key[t[i]] = k
      BY <1>6, <2>2, <3>1
    <3> QED BY <1>3, <1>5, <3>2
  <2>5. \A i \in 2..Len(t) : prev'[t[i]] = t[i - 1]
    <3> SUFFICES ASSUME NEW i \in 2..Len(t) PROVE prev'[t[i]] = t[i - 1]
      OBVIOUS
    <3>1. /\ i \in 1..Len(t) /\ i - 1 \in 1..Len(t) /\ i + 1 \in 2..Len(s)
          /\ (i - 1) + 1 = i /\ (i + 1) - 1 = i
      BY <2>3
    <3>2. t[i] = s[i + 1] /\ t[i - 1] = s[i]
      BY <2>3, <3>1
    <3>3. prev[s[i + 1]] = s[i]
      BY <3>1 DEF InOrder
    <3> QED BY <1>1, <3>2, <3>3
  <2>6. CASE t = <<>>
    <3>1. Len(s) = 1
      BY <2>3, <2>6
    <3>2. tails[k] = c
      BY <2>1, <3>1 DEF InOrder
    <3>3. tails'[k] = NoCall
      BY <1>1, <1>8, <3>2
    <3>4. InOrder(t, k)'
      BY <2>6, <3>3 DEF InOrder
    <3> QED BY <1>8, <2>1, <3>4 DEF t
  <2>7. CASE t # <<>>
    <3>1. /\ Len(t) \in 1..Len(t) /\ 1 \in 1..Len(t) /\ Len(s) \in 2..Len(s) /\ 2 \in 2..Len(s)
          /\ Len(t) + 1 = Len(s)
      BY <2>3, <2>7
    <3>2. t[Len(t)] = s[Len(s)] /\ t[1] = s[2]
      BY <2>3, <3>1
    <3>3. s[Len(s)] = tails[k] /\ s[Len(s)] # c /\ prev[s[2]] = s[1]
      BY <2>1, <2>2, <3>1 DEF InOrder
    <3>4. t[Len(t)] = tails'[k]
      BY <1>1, <3>2, <3>3
    <3>5. PreviousSettled(t[1])'
      BY <1>1, <1>2, <2>1, <3>2, <3>3 DEF PreviousSettled
    <3>6. InOrder(t, k)'
      BY <2>4, <2>5, <2>7, <3>4, <3>5 DEF InOrder
    <3> QED BY <1>8, <2>1, <3>6 DEF t
  <2> QED BY <2>6, <2>7
<1> QED BY <1>7, <1>8

LEMMA QueuesExistFirst == MutexInit => QueuesExist
<1>1. MutexInit => \A k \in Key : InOrder(<<>>, k)
  BY DEF MutexInit, InOrder
<1>2. <<>> \in Seq(Call)
  OBVIOUS
<1> QED BY <1>1, <1>2 DEF QueuesExist

LEMMA StutterOrder ==
  ASSUME UNCHANGED mutexVars, NEW k, NEW s, InOrder(s, k)
  PROVE  InOrder(s, k)'
BY DEF mutexVars, InOrder, PreviousSettled, Released, LiveOn, Waiting, Running

LEMMA QueuesExistNext == MutexInv /\ QueuesExist /\ [MutexNext]_mutexVars => QueuesExist'
<1> SUFFICES ASSUME MutexInv, QueuesExist, [MutexNext]_mutexVars, NEW k \in Key
             PROVE  \E s \in Seq(Call) : InOrder(s, k)'
  BY DEF QueuesExist
<1>1. PICK s \in Seq(Call) : InOrder(s, k)
  BY DEF QueuesExist
<1>2. ASSUME NEW c \in Call, Enter(c) PROVE \E t \in Seq(Call) : InOrder(t, k)'
  <2>1. Append(s, c) \in Seq(Call)
    OBVIOUS
  <2> QED BY <1>1, <1>2, <2>1, EnterOrder
<1>3. ASSUME NEW c \in Call, Start(c) PROVE \E t \in Seq(Call) : InOrder(t, k)'
  BY <1>1, <1>3, StartOrder
<1>4. ASSUME NEW c \in Call, Finish(c, "resolved") \/ Finish(c, "rejected")
      PROVE  \E t \in Seq(Call) : InOrder(t, k)'
  <2>1. s # <<>> => Tail(s) \in Seq(Call)
    OBVIOUS
  <2> QED BY <1>1, <1>4, <2>1, FinishOrder
<1>5. CASE UNCHANGED mutexVars
  BY <1>1, <1>5, StutterOrder
<1> QED BY <1>2, <1>3, <1>4, <1>5 DEF MutexNext

-----------------------------------------------------------------------------

Fifo == INSTANCE FifoLock WITH
            queue <- [k \in Key |-> Order(k)],
            inside <- Running

\* At first nobody is queued.
LEMMA FifoInitHolds == MutexInit => Fifo!FifoInit
<1> SUFFICES ASSUME MutexInit PROVE Fifo!FifoInit
  OBVIOUS
<1>1. \A k \in Key : InOrder(<<>>, k)
  BY DEF MutexInit, InOrder
<1>2. <<>> \in Seq(Call)
  OBVIOUS
<1>3. \A k \in Key : Order(k) = <<>>
  BY <1>1, <1>2, MutexInitInv, OrderIsQueue
<1>4. Running = {}
  BY DEF MutexInit, Running
<1> QED BY <1>3, <1>4 DEF Fifo!FifoInit

\* Every step of the lock is a step of the queues.
LEMMA FifoNextHolds ==
  MutexInv /\ QueuesExist /\ [MutexNext]_mutexVars => [Fifo!FifoNext]_(Fifo!fifoVars)
<1> SUFFICES ASSUME MutexInv, QueuesExist, [MutexNext]_mutexVars
             PROVE  [Fifo!FifoNext]_(Fifo!fifoVars)
  OBVIOUS
<1>1. MutexInv'
  BY MutexNextInv
<1>2. \A k \in Key : Order(k) \in Seq(Call) /\ InOrder(Order(k), k)
  BY DEF QueuesExist, Order
<1>3. \A k \in Key : \A s \in Seq(Call) : InOrder(s, k)' => Order(k)' = s
  BY <1>1, OrderIsQueueNext
<1>4. /\ tails \in [Key -> Call \cup {NoCall}] /\ key \in [Call -> Key]
      /\ stage \in [Call -> {"idle", "waiting", "running", "resolved", "rejected"}]
  BY DEF MutexInv, MutexTypeOK
<1>5. ASSUME NEW c \in Call, Enter(c), NEW j \in Key, j = key[c] PROVE Fifo!Join(c, j)
  <2>1. Append(Order(j), c) \in Seq(Call)
    BY <1>2
  <2>2. /\ Order(j)' = Append(Order(j), c)
        /\ \A k \in Key \ {j} : Order(k)' = Order(k)
    BY <1>2, <1>3, <1>5, <2>1, EnterOrder
  <2>3. stage[c] = "idle" /\ Running' = Running
    BY <1>4, <1>5 DEF Enter, Running
  <2>4. ASSUME NEW k \in Key, NEW i \in 1..Len(Order(k)) PROVE Order(k)[i] # c
    BY <1>2, <2>3, QueueFacts DEF Live
  <2>5. c \notin Fifo!Queued
    BY <2>4 DEF Fifo!Queued
  <2>6. [k \in Key |-> Order(k)'] =
           [[k \in Key |-> Order(k)] EXCEPT ![j] = Append(@, c)]
    BY <2>2
  <2> QED BY <2>3, <2>5, <2>6 DEF Fifo!Join
<1>6. ASSUME NEW c \in Call, Start(c), NEW j \in Key, j = key[c] PROVE Fifo!Acquire(j)
  <2>1. \A k \in Key : Order(k)' = Order(k)
    BY <1>2, <1>3, <1>6, StartOrder
  <2>2. stage[c] = "waiting" /\ Eligible(c)
    BY <1>6 DEF Start, Eligible, Live
  <2>3. Order(j) # <<>> /\ Head(Order(j)) = c
    BY <1>2, <1>6, <2>2, QueueFacts
  <2>4. c \notin Running /\ Running' = Running \cup {c}
    BY <1>4, <1>6, <2>2 DEF Start, Running
  <2> QED BY <2>1, <2>3, <2>4 DEF Fifo!Acquire
<1>7. ASSUME NEW c \in Call, NEW o \in {"resolved", "rejected"}, Finish(c, o),
             NEW j \in Key, j = key[c]
      PROVE  Fifo!Leave(j)
  <2>1. Order(j) # <<>> /\ Head(Order(j)) = c
    BY <1>2, <1>7, FinishOrder
  <2>2. Tail(Order(j)) \in Seq(Call)
    BY <1>2, <2>1
  <2>3. /\ Order(j)' = Tail(Order(j))
        /\ \A k \in Key \ {j} : Order(k)' = Order(k)
    BY <1>2, <1>3, <1>7, <2>2, FinishOrder
  <2>4. c \in Running /\ Running' = Running \ {c}
    BY <1>4, <1>7 DEF Finish, Running
  <2>5. [k \in Key |-> Order(k)'] =
           [[k \in Key |-> Order(k)] EXCEPT ![j] = Tail(@)]
    BY <2>3
  <2> QED BY <2>1, <2>4, <2>5 DEF Fifo!Leave
<1>8. CASE UNCHANGED mutexVars
  <2>1. \A k \in Key : Order(k)' = Order(k)
    BY <1>2, <1>3, <1>8, StutterOrder
  <2>2. Running' = Running
    BY <1>8 DEF mutexVars, Running
  <2> QED BY <2>1, <2>2 DEF Fifo!fifoVars
<1>9. \A c \in Call : \E j \in Key : j = key[c]
  BY <1>4
<1> QED BY <1>5, <1>6, <1>7, <1>8, <1>9 DEF MutexNext, Fifo!FifoNext

(***************************************************************************)
(* Callers are served in the order in which they came, one at a time: the  *)
(* lock, which has no queue, implements one queue per key. (That the first *)
(* in line is served at all is fairness, which is left to TLC.)            *)
(***************************************************************************)
THEOREM ServesInOrder == MutexSpec => Fifo!FifoInit /\ [][Fifo!FifoNext]_(Fifo!fifoVars)
<1>1. MutexSpec => []QueuesExist
  BY QueuesExistFirst, QueuesExistNext, MutexInvariant, PTL DEF MutexSpec
<1> QED
  BY <1>1, FifoInitHolds, FifoNextHolds, MutexInvariant, PTL DEF MutexSpec

=============================================================================
