------------------------- MODULE Monitoring_proofs -------------------------
(***************************************************************************)
(* Theorems about what the server tells of its own work: the log of        *)
(* requests (RequestLogBuffer) and the counters of the dashboard           *)
(* (StatsProjection). The two share no state, and neither part of the      *)
(* module uses the other.                                                  *)
(***************************************************************************)
EXTENDS RequestLogBuffer, StatsProjection, SequenceTheorems, FiniteSetTheorems,
        WellFoundedInduction, TLAPS

(***************************************************************************)
(* RequestLogBuffer, for any buffer size, any cap and any                  *)
(* number of rows, force-flushes and failures. The argument follows the    *)
(* rows in memory (Pending): recording appends one, starting a flush moves *)
(* rows without changing the sequence, a successful insert cuts its front  *)
(* (which is in the table by then), a failed one cuts what exceeds the cap *)
(* and counts it.                                                          *)
(***************************************************************************)
\* An insert is under way exactly while there is a batch; what has been
\* executed is in the table.
InsertInv ==
    /\ InProgress <=> batch # <<>>
    /\ insert = "executed" => Range(batch) \subseteq table

\* No timer is left once shutdown has begun, and the flush that shutdown
\* awaits has taken the rows recorded before, and no others; when the hook has
\* returned without one, or after it, no insert is under way.
ShutdownInv ==
    /\ shuttingDown => flushTimer # "armed"
    /\ phase = "draining" =>
          InProgress /\ (~missed => Range(logBuffer) = (stopAt + 1)..recorded)
    /\ phase \in {"destroyed", "closed"} /\ ~missed => ~InProgress

\* What a force-flush found in memory and is nowhere any more.
Lost(c) == asked[c].rows \ (table \cup Range(Pending))

\* What is lost since a force-flush began has been counted since, and of what
\* it found nothing is in memory once it has returned.
ForceInv ==
    \A c \in Flusher :
        /\ drain[c] = "drained" => asked[c].rows \cap Range(Pending) = {}
        /\ Cardinality(Lost(c)) <= droppedLogRows - asked[c].dropped

LogInv ==
    /\ TypeOK
    /\ InsertInv
    /\ PendingInOrder /\ Len(Pending) <= recorded
    /\ NothingLostSilently
    /\ ForceInv
    /\ ShutdownInv /\ ShutdownDrains

\* What a step does to the rows in memory and to the table, for the invariants
\* that are only about them.
Keeps == Pending' = Pending /\ table \subseteq table' /\ recorded' = recorded
         /\ droppedLogRows' = droppedLogRows

-----------------------------------------------------------------------------
(* Sequences of rows                                                        *)

\* The rows of a sequence, by index.
LEMMA RowsOf ==
  ASSUME NEW s \in Seq(Nat)
  PROVE  Range(s) = {s[i] : i \in 1..Len(s)} /\ Range(s) \subseteq Nat /\ Len(s) \in Nat
  BY LenProperties DEF Range

\* No rows.
LEMMA NoRows == <<>> \in Seq(Nat) /\ Len(<<>>) = 0 /\ Range(<<>>) = {}
<1>1. <<>> \in Seq(Nat) /\ Len(<<>>) = 0
  BY EmptySeq
<1>2. Range(<<>>) = {<<>>[i] : i \in 1..0}
  BY <1>1, RowsOf
<1>3. 1..0 = {}
  OBVIOUS
<1> QED BY <1>1, <1>2, <1>3

\* Both parts of the memory are sequences of rows, and so is the whole.
LEMMA PendingType ==
  ASSUME TypeOK
  PROVE  /\ Pending \in Seq(Nat) /\ Len(Pending) \in Nat
         /\ Len(Pending) = Len(batch) + Len(logBuffer)
         /\ Range(Pending) = Range(batch) \cup Range(logBuffer)
<1>1. batch \in Seq(Nat) /\ logBuffer \in Seq(Nat)
  BY DEF TypeOK
<1>2. /\ Pending \in Seq(Nat)
      /\ Len(Pending) = Len(batch) + Len(logBuffer)
      /\ \A i \in 1..(Len(batch) + Len(logBuffer)) :
            Pending[i] = IF i <= Len(batch) THEN batch[i] ELSE logBuffer[i - Len(batch)]
  BY <1>1, ConcatProperties DEF Pending
<1>3. /\ Len(batch) \in Nat /\ Len(logBuffer) \in Nat
      /\ Range(batch) = {batch[i] : i \in 1..Len(batch)}
      /\ Range(logBuffer) = {logBuffer[i] : i \in 1..Len(logBuffer)}
      /\ Range(Pending) = {Pending[i] : i \in 1..Len(Pending)}
  BY <1>1, <1>2, RowsOf
<1>4. Range(Pending) \subseteq Range(batch) \cup Range(logBuffer)
  <2> SUFFICES ASSUME NEW i \in 1..Len(Pending)
               PROVE  Pending[i] \in Range(batch) \cup Range(logBuffer)
    BY <1>3
  <2>1. CASE i <= Len(batch)
    BY <2>1, <1>2, <1>3
  <2>2. CASE ~(i <= Len(batch))
    <3>1. i - Len(batch) \in 1..Len(logBuffer)
      BY <2>2, <1>2, <1>3
    <3> QED BY <3>1, <2>2, <1>2, <1>3
  <2> QED BY <2>1, <2>2
<1>5. Range(batch) \subseteq Range(Pending)
  <2> SUFFICES ASSUME NEW i \in 1..Len(batch) PROVE batch[i] \in Range(Pending)
    BY <1>3
  <2>1. i \in 1..Len(Pending) /\ Pending[i] = batch[i]
    BY <1>2, <1>3
  <2> QED BY <2>1, <1>3
<1>6. Range(logBuffer) \subseteq Range(Pending)
  <2> SUFFICES ASSUME NEW i \in 1..Len(logBuffer) PROVE logBuffer[i] \in Range(Pending)
    BY <1>3
  <2>1. PICK k \in 1..Len(Pending) : k = i + Len(batch)
    BY <1>2, <1>3
  <2>2. ~(k <= Len(batch)) /\ k - Len(batch) = i
    BY <2>1, <1>3
  <2>3. Pending[k] = logBuffer[i]
    BY <2>2, <1>2
  <2> QED BY <2>3, <1>3
<1>7. Range(Pending) = Range(batch) \cup Range(logBuffer)
  BY <1>4, <1>5, <1>6
<1>8. Len(Pending) \in Nat
  BY <1>2, <1>3
<1> QED BY <1>2, <1>7, <1>8

\* Starting a flush, or not, keeps the order of what was in memory.
LEMMA FlushKeepsOrder ==
  ASSUME TypeOK, InsertInv, NEW buffer \in Seq(Nat), NEW timer, NEW allowed \in BOOLEAN,
         FlushLogs(buffer, timer, allowed)
  PROVE  /\ batch' \o logBuffer' = batch \o buffer
         /\ batch' \in Seq(Nat) /\ logBuffer' \in Seq(Nat)
         /\ insert' \in {"none", "sent", "executed"} /\ missed' \in BOOLEAN
         /\ (insert' # "none") <=> batch' # <<>>
         /\ insert' = "executed" => insert = "executed" /\ batch' = batch
         /\ InProgress => UNCHANGED <<batch, insert>> /\ logBuffer' = buffer
         /\ flushTimer' \in {"none", timer}
<1>1. batch \in Seq(Nat) /\ missed \in BOOLEAN /\ insert \in {"none", "sent", "executed"}
  BY DEF TypeOK
<1>2. CASE allowed /\ ~InProgress /\ buffer # <<>>
  <2>1. batch = <<>>
    BY <1>2 DEF InsertInv
  <2>2. batch' = buffer /\ logBuffer' = <<>> /\ insert' = "sent" /\ missed' = FALSE
        /\ flushTimer' = "none"
    BY <1>2 DEF FlushLogs
  <2>3. batch' \o logBuffer' = batch \o buffer
    BY <2>1, <2>2, ConcatEmptySeq
  <2> QED BY <1>2, <2>2, <2>3, EmptySeq DEF InProgress
<1>3. CASE ~(allowed /\ ~InProgress /\ buffer # <<>>)
  <2>1. logBuffer' = buffer /\ UNCHANGED <<batch, insert>> /\ flushTimer' = timer
        /\ missed' = (missed \/ (allowed /\ InProgress))
    BY <1>3 DEF FlushLogs
  <2>2. missed' \in BOOLEAN
    BY <1>1, <2>1 DEF InProgress
  <2>3. batch' \o logBuffer' = batch \o buffer
    BY <2>1
  <2> QED BY <1>1, <2>1, <2>2, <2>3 DEF InsertInv, InProgress
<1> QED BY <1>2, <1>3

-----------------------------------------------------------------------------
(* The rows in memory and the rows that are nowhere                         *)

\* There are finitely many missing rows.
LEMMA MissingFinite ==
  ASSUME TypeOK
  PROVE  IsFiniteSet(Missing) /\ Cardinality(Missing) \in Nat
<1>1. IsFiniteSet(1..recorded) /\ Missing \in SUBSET (1..recorded)
  BY FS_Interval DEF TypeOK, Missing
<1>2. IsFiniteSet(Missing)
  BY ONLY <1>1, FS_Subset
<1> QED BY <1>2, FS_CardinalityType

\* Fewer missing rows, the same count.
LEMMA FewerMissing ==
  ASSUME TypeOK, NothingLostSilently, Missing' \subseteq Missing,
         droppedLogRows' = droppedLogRows
  PROVE  NothingLostSilently'
<1>1. IsFiniteSet(Missing) /\ Cardinality(Missing) \in Nat /\ Missing' \in SUBSET Missing
  BY MissingFinite
<1>2. IsFiniteSet(Missing') /\ Cardinality(Missing') <= Cardinality(Missing)
  BY ONLY <1>1, FS_Subset
<1>3. Cardinality(Missing') \in Nat
  BY ONLY <1>2, FS_CardinalityType
<1>4. droppedLogRows \in Nat
  BY DEF TypeOK
<1> QED BY <1>1, <1>2, <1>3, <1>4 DEF NothingLostSilently

\* Steps that only move rows between buffer and batch, or add to the table.
LEMMA KeepsMemory ==
  ASSUME LogInv, Keeps
  PROVE  PendingInOrder' /\ Len(Pending)' <= recorded' /\ NothingLostSilently'
<1>1. PendingInOrder' /\ Len(Pending)' <= recorded'
  BY DEF Keeps, LogInv, PendingInOrder
<1>2. Missing' \subseteq Missing
  BY DEF Keeps, Missing
<1> QED BY <1>1, <1>2, FewerMissing DEF LogInv, Keeps

\* A recorded row is appended.
LEMMA AppendKeepsMemory ==
  ASSUME LogInv, Pending' = Append(Pending, recorded + 1), recorded' = recorded + 1,
         UNCHANGED <<table, droppedLogRows>>
  PROVE  /\ PendingInOrder' /\ Len(Pending)' <= recorded' /\ NothingLostSilently'
         /\ Range(Pending)' = Range(Pending) \cup {recorded + 1}
<1> DEFINE n == Len(Pending)
<1>1. /\ Pending \in Seq(Nat) /\ n \in Nat /\ recorded \in Nat /\ n <= recorded
  BY PendingType DEF LogInv, TypeOK
<1>2. /\ Pending' \in Seq(Nat) /\ Len(Pending') = n + 1
      /\ \A i \in 1..n : Pending'[i] = Pending[i]
      /\ Pending'[n + 1] = recorded + 1
  BY <1>1, AppendProperties
<1>3. \A i \in 1..n : Pending[i] = recorded - n + i
  BY DEF LogInv, PendingInOrder
<1>4. \A i \in 1..(n + 1) : Pending'[i] = recorded' - (n + 1) + i
  <2> SUFFICES ASSUME NEW i \in 1..(n + 1) PROVE Pending'[i] = recorded' - (n + 1) + i
    OBVIOUS
  <2>1. CASE i = n + 1
    BY <2>1, <1>1, <1>2
  <2>2. CASE i \in 1..n
    BY <2>2, <1>1, <1>2, <1>3
  <2> QED BY <2>1, <2>2, <1>1
<1>5. PendingInOrder' /\ Len(Pending)' <= recorded'
  BY <1>1, <1>2, <1>4 DEF PendingInOrder
<1>6. Range(Pending)' = Range(Pending) \cup {recorded + 1}
  <2>1. Range(Pending)' = {Pending'[i] : i \in 1..(n + 1)}
    BY <1>1, <1>2, RowsOf
  <2>2. Range(Pending) = {Pending[i] : i \in 1..n}
    BY <1>1, RowsOf
  <2>3. 1..(n + 1) = (1..n) \cup {n + 1}
    BY <1>1
  <2> HIDE DEF n
  <2> QED BY <2>1, <2>2, <2>3, <1>2
<1>7. Missing' \subseteq Missing
  BY <1>1, <1>6 DEF Missing
<1> QED BY <1>5, <1>6, <1>7, FewerMissing DEF LogInv

\* The front of the memory goes: the rows that follow are still the newest ones.
LEMMA SuffixKeepsOrder ==
  ASSUME LogInv, NEW k \in 0..Len(Pending), Pending' \in Seq(Nat),
         Len(Pending') = Len(Pending) - k,
         \A i \in 1..(Len(Pending) - k) : Pending'[i] = Pending[k + i],
         recorded' = recorded
  PROVE  /\ PendingInOrder' /\ Len(Pending)' <= recorded'
         /\ Range(Pending)' \subseteq Range(Pending)
         /\ \A x \in Range(Pending) \ Range(Pending)' :
               x \in (recorded - Len(Pending) + 1)..(recorded - Len(Pending) + k)
<1> DEFINE n == Len(Pending)
<1>1. /\ Pending \in Seq(Nat) /\ n \in Nat /\ recorded \in Nat /\ n <= recorded
      /\ \A i \in 1..n : Pending[i] = recorded - n + i
  BY PendingType DEF LogInv, TypeOK, PendingInOrder
<1>2. \A i \in 1..(n - k) : k + i \in 1..n /\ Pending'[i] = recorded' - (n - k) + i
  BY <1>1
<1>3. PendingInOrder' /\ Len(Pending)' <= recorded'
  BY <1>1, <1>2 DEF PendingInOrder
<1>4. /\ Range(Pending)' = {Pending'[i] : i \in 1..(n - k)}
      /\ Range(Pending) = {Pending[i] : i \in 1..n}
  BY <1>1, RowsOf
<1>5. Range(Pending)' \subseteq Range(Pending)
  BY <1>2, <1>4
<1>6. ASSUME NEW j \in 1..n, Pending[j] \notin Range(Pending)'
      PROVE  Pending[j] \in (recorded - n + 1)..(recorded - n + k)
  <2>1. ~(j > k)
    <3> SUFFICES ASSUME j > k PROVE FALSE
      OBVIOUS
    <3>1. PICK i \in 1..(n - k) : k + i = j
      <4>1. j - k \in 1..(n - k) /\ k + (j - k) = j
        BY <1>1
      <4> QED BY <4>1
    <3>2. Pending'[i] = Pending[j]
      BY <3>1
    <3> QED BY <3>2, <1>4, <1>6
  <2> QED BY <2>1, <1>1
<1> QED BY <1>3, <1>4, <1>5, <1>6

\* A batch that has been stored leaves the memory.
LEMMA ResolveCuts ==
  ASSUME LogInv, Resolve
  PROVE  /\ PendingInOrder' /\ Len(Pending)' <= recorded' /\ NothingLostSilently'
         /\ Range(Pending)' \subseteq Range(Pending) /\ Range(Pending)' = Range(logBuffer)
         /\ Range(Pending) \subseteq table \cup Range(Pending)'
<1>1. /\ batch \in Seq(Nat) /\ logBuffer \in Seq(Nat) /\ batch' = <<>>
      /\ logBuffer' = logBuffer /\ recorded' = recorded /\ table' = table
      /\ droppedLogRows' = droppedLogRows /\ Range(batch) \subseteq table
  BY DEF LogInv, TypeOK, InsertInv, Resolve, Release
<1>2. Pending' = logBuffer
  BY <1>1, ConcatEmptySeq DEF Pending
<1>3. /\ Len(Pending) = Len(batch) + Len(logBuffer) /\ Len(batch) \in Nat
      /\ Len(logBuffer) \in Nat /\ Range(Pending) = Range(batch) \cup Range(logBuffer)
      /\ \A i \in 1..(Len(batch) + Len(logBuffer)) :
            Pending[i] = IF i <= Len(batch) THEN batch[i] ELSE logBuffer[i - Len(batch)]
  BY <1>1, PendingType, LenProperties, ConcatProperties DEF LogInv, Pending
<1>4. \A i \in 1..(Len(Pending) - Len(batch)) : Pending'[i] = Pending[Len(batch) + i]
  BY <1>2, <1>3
<1>5. /\ Len(batch) \in 0..Len(Pending) /\ Len(Pending') = Len(Pending) - Len(batch)
      /\ Pending' \in Seq(Nat)
  BY <1>1, <1>2, <1>3
<1>6. PendingInOrder' /\ Len(Pending)' <= recorded' /\ Range(Pending)' \subseteq Range(Pending)
  BY <1>1, <1>4, <1>5, SuffixKeepsOrder
<1>7. Range(Pending)' = Range(logBuffer)
  BY <1>2
<1>8. Missing' \subseteq Missing
  BY <1>1, <1>3, <1>7 DEF Missing
<1>9. Range(Pending) \subseteq table \cup Range(Pending)'
  BY <1>1, <1>3, <1>7
<1> QED BY <1>1, <1>6, <1>7, <1>8, <1>9, FewerMissing DEF LogInv

\* A failed batch goes back, and what is over the cap is dropped and counted.
LEMMA RejectCuts ==
  ASSUME LogInv, Reject
  PROVE  /\ PendingInOrder' /\ Len(Pending)' <= recorded' /\ NothingLostSilently'
         /\ Range(Pending)' \subseteq Range(Pending)
         /\ logBuffer' \in Seq(Nat) /\ droppedLogRows' \in Nat
         /\ \E gone : /\ IsFiniteSet(gone) /\ droppedLogRows' = droppedLogRows + Cardinality(gone)
                      /\ Range(Pending) \ Range(Pending)' \subseteq gone
<1> DEFINE n == Len(Pending)
           k == Excess
           gone == (recorded - n + 1)..(recorded - n + k)
<1>1. /\ Pending \in Seq(Nat) /\ n \in Nat /\ recorded \in Nat /\ n <= recorded
      /\ droppedLogRows \in Nat
  BY PendingType DEF LogInv, TypeOK
<1>2. Cap \in Nat
  BY BufferAssumption DEF Cap
<1>3. k \in 0..n
  BY <1>1, <1>2 DEF Excess
<1>4. /\ logBuffer' = SubSeq(Pending, k + 1, n) /\ batch' = <<>>
      /\ droppedLogRows' = droppedLogRows + k
      /\ recorded' = recorded /\ table' = table
  BY DEF Reject, CountDropped, Release, Requeued
<1> HIDE DEF k
<1>5. \A i \in (k + 1)..n : Pending[i] \in Nat
  BY <1>1, <1>3, ElementOfSeq
<1>6. /\ logBuffer' \in Seq(Nat)
      /\ Len(logBuffer') = IF k + 1 <= n THEN n - (k + 1) + 1 ELSE 0
      /\ \A i \in 1..(n - (k + 1) + 1) : logBuffer'[i] = Pending[(k + 1) + i - 1]
  <2>1. k + 1 \in Int /\ n \in Int
    BY <1>1, <1>3
  <2> HIDE DEF n
  <2> QED BY <2>1, <1>4, <1>5, SubSeqProperties
<1>7. Pending' = logBuffer'
  BY <1>4, <1>6, ConcatEmptySeq DEF Pending
<1>8. Len(Pending') = n - k /\ \A i \in 1..(n - k) : Pending'[i] = Pending[k + i]
  <2>1. Len(Pending') = n - k
    BY <1>1, <1>3, <1>6, <1>7
  <2>2. ASSUME NEW i \in 1..(n - k) PROVE Pending'[i] = Pending[k + i]
    <3>1. i \in 1..(n - (k + 1) + 1) /\ (k + 1) + i - 1 = k + i
      BY <1>1, <1>3
    <3> QED BY <3>1, <1>6, <1>7
  <2> QED BY <2>1, <2>2
<1>9. /\ PendingInOrder' /\ Len(Pending)' <= recorded' /\ Range(Pending)' \subseteq Range(Pending)
      /\ \A x \in Range(Pending) \ Range(Pending)' : x \in gone
  BY <1>3, <1>4, <1>6, <1>7, <1>8, SuffixKeepsOrder
<1>10. Missing' \subseteq Missing \cup gone
  BY <1>4, <1>9 DEF Missing
<1>11. IsFiniteSet(gone) /\ Cardinality(gone) = k
  <2>1. recorded - n + 1 \in Int /\ recorded - n + k \in Int
    BY <1>1, <1>3
  <2>2. IsFiniteSet(gone) /\ Cardinality(gone) =
          IF recorded - n + 1 > recorded - n + k THEN 0 ELSE (recorded - n + k) - (recorded - n + 1) + 1
    BY ONLY <2>1, FS_Interval
  <2> HIDE DEF gone
  <2> QED BY <2>2, <1>1, <1>3
<1> HIDE DEF gone
<1>12. IsFiniteSet(Missing) /\ Cardinality(Missing) \in Nat
  BY MissingFinite DEF LogInv
<1>13. /\ IsFiniteSet(Missing \cup gone)
       /\ Cardinality(Missing \cup gone)
            = Cardinality(Missing) + Cardinality(gone) - Cardinality(Missing \cap gone)
  BY ONLY <1>11, <1>12, FS_Union
<1>14. Cardinality(Missing \cap gone) \in Nat
  <2>1. IsFiniteSet(Missing \cap gone)
    <3>1. Missing \cap gone \in SUBSET Missing
      OBVIOUS
    <3> QED BY ONLY <3>1, <1>12, FS_Subset
  <2> QED BY ONLY <2>1, FS_CardinalityType
<1>15. Cardinality(Missing') <= Cardinality(Missing \cup gone) /\ Cardinality(Missing') \in Nat
  <2>1. Missing' \in SUBSET (Missing \cup gone)
    BY <1>10
  <2>2. IsFiniteSet(Missing') /\ Cardinality(Missing') <= Cardinality(Missing \cup gone)
    BY ONLY <2>1, <1>13, FS_Subset
  <2> QED BY ONLY <2>2, FS_CardinalityType
<1>16. Cardinality(Missing) <= droppedLogRows
  BY DEF LogInv, NothingLostSilently
<1>17. Cardinality(Missing') <= droppedLogRows + k
  BY <1>1, <1>3, <1>11, <1>12, <1>13, <1>14, <1>15, <1>16
<1>18. droppedLogRows' \in Nat
  BY <1>1, <1>3, <1>4
<1>19. NothingLostSilently'
  BY <1>4, <1>17 DEF NothingLostSilently
<1>20. \E g : /\ IsFiniteSet(g) /\ droppedLogRows' = droppedLogRows + Cardinality(g)
              /\ Range(Pending) \ Range(Pending)' \subseteq g
  BY <1>4, <1>9, <1>11
<1> QED BY <1>6, <1>9, <1>18, <1>19, <1>20

\* Rows in memory have been recorded.
LEMMA PendingRecorded ==
  ASSUME LogInv
  PROVE  Range(Pending) \subseteq 1..recorded
<1>1. /\ Pending \in Seq(Nat) /\ Len(Pending) \in Nat /\ recorded \in Nat
      /\ Len(Pending) <= recorded
      /\ \A i \in 1..Len(Pending) : Pending[i] = recorded - Len(Pending) + i
  BY PendingType DEF LogInv, TypeOK, PendingInOrder
<1>2. \A i \in 1..Len(Pending) : Pending[i] \in 1..recorded
  BY <1>1
<1> QED BY <1>1, <1>2, RowsOf

\* The rows a force-flush found, and those of them that are lost, are finitely many.
LEMMA LostFinite ==
  ASSUME TypeOK, NEW c \in Flusher
  PROVE  /\ asked[c].rows \subseteq 1..recorded /\ asked[c].dropped \in 0..droppedLogRows
         /\ IsFiniteSet(Lost(c)) /\ Cardinality(Lost(c)) \in Nat
<1>1. asked[c] \in [rows : SUBSET (1..recorded), dropped : 0..droppedLogRows]
      /\ recorded \in Nat
  BY DEF TypeOK
<1>2. IsFiniteSet(1..recorded) /\ Lost(c) \in SUBSET (1..recorded)
  BY <1>1, FS_Interval DEF Lost
<1>3. IsFiniteSet(Lost(c))
  BY ONLY <1>2, FS_Subset
<1> QED BY <1>1, <1>3, FS_CardinalityType

\* What leaves the memory by a step is in the table, or among the rows gone,
\* which the step has counted.
LossCounted(gone) ==
    /\ IsFiniteSet(gone) /\ droppedLogRows' = droppedLogRows + Cardinality(gone)
    /\ table \subseteq table'
    /\ Range(Pending) \ Range(Pending)' \subseteq table' \cup gone
    /\ \A x \in Range(Pending)' : x \in Range(Pending) \/ x = recorded + 1

\* A force-flush goes on with what it found, or finds what is in memory now.
AskedNow(c) == [rows |-> Range(Pending), dropped |-> droppedLogRows]

AskedStays ==
    \A c \in Flusher :
        /\ asked'[c] = asked[c] \/ asked'[c] = AskedNow(c)
        /\ drain'[c] = "drained" =>
              \/ drain[c] = "drained" /\ asked'[c] = asked[c]
              \/ Range(Pending)' = {}

\* The promise of a force-flush is kept.
LEMMA ForceKeeps ==
  ASSUME LogInv, NEW gone, LossCounted(gone), AskedStays
  PROVE  ForceInv'
<1> SUFFICES ASSUME NEW c \in Flusher
             PROVE  /\ drain'[c] = "drained" => asked'[c].rows \cap Range(Pending)' = {}
                    /\ Cardinality(Lost(c))' <= droppedLogRows' - asked'[c].dropped
  BY DEF ForceInv
<1>1. /\ asked[c].rows \subseteq 1..recorded /\ asked[c].dropped \in Nat
      /\ IsFiniteSet(Lost(c)) /\ Cardinality(Lost(c)) \in Nat
      /\ recorded \in Nat /\ droppedLogRows \in Nat
  <2>1. TypeOK
    BY DEF LogInv
  <2> QED BY <2>1, LostFinite DEF TypeOK
<1>2. drain'[c] = "drained" => asked'[c].rows \cap Range(Pending)' = {}
  <2> SUFFICES ASSUME drain'[c] = "drained", NEW x \in asked'[c].rows, x \in Range(Pending)'
               PROVE  FALSE
    OBVIOUS
  <2>1. drain[c] = "drained" /\ asked'[c] = asked[c]
    BY DEF AskedStays
  <2>2. x \in Range(Pending) \/ x = recorded + 1
    BY DEF LossCounted
  <2>3. x # recorded + 1
    BY <1>1, <2>1
  <2> QED BY <2>1, <2>2, <2>3 DEF LogInv, ForceInv
<1>3. IsFiniteSet(gone) /\ Cardinality(gone) \in Nat
      /\ droppedLogRows' = droppedLogRows + Cardinality(gone)
  BY FS_CardinalityType DEF LossCounted
<1>4. CASE asked'[c] = asked[c]
  <2>1. Lost(c)' \in SUBSET (Lost(c) \cup gone)
    BY <1>4 DEF Lost, LossCounted
  <2>2. /\ IsFiniteSet(Lost(c) \cup gone)
        /\ Cardinality(Lost(c) \cup gone)
             = Cardinality(Lost(c)) + Cardinality(gone) - Cardinality(Lost(c) \cap gone)
    BY ONLY <1>1, <1>3, FS_Union
  <2>3. IsFiniteSet(Lost(c) \cap gone)
    <3>1. Lost(c) \cap gone \in SUBSET gone
      OBVIOUS
    <3> QED BY ONLY <3>1, <1>3, FS_Subset
  <2>4. Cardinality(Lost(c) \cap gone) \in Nat
    BY ONLY <2>3, FS_CardinalityType
  <2>5. IsFiniteSet(Lost(c)') /\ Cardinality(Lost(c)') <= Cardinality(Lost(c) \cup gone)
    BY ONLY <2>1, <2>2, FS_Subset
  <2>6. Cardinality(Lost(c)') \in Nat
    BY ONLY <2>5, FS_CardinalityType
  <2>7. Cardinality(Lost(c)) <= droppedLogRows - asked[c].dropped
    BY DEF LogInv, ForceInv
  <2>8. Cardinality(Lost(c)') <= droppedLogRows' - asked[c].dropped
    BY <1>1, <1>3, <2>2, <2>4, <2>5, <2>6, <2>7
  <2> QED BY <1>2, <1>4, <2>8
<1>5. CASE asked'[c] = AskedNow(c)
  <2>1. asked'[c].rows = Range(Pending) /\ asked'[c].dropped = droppedLogRows
    BY <1>5 DEF AskedNow
  <2>2. Lost(c)' \in SUBSET gone
    BY <2>1 DEF Lost, LossCounted
  <2>3. IsFiniteSet(Lost(c)') /\ Cardinality(Lost(c)') <= Cardinality(gone)
    BY ONLY <2>2, <1>3, FS_Subset
  <2>4. Cardinality(Lost(c)') <= droppedLogRows' - droppedLogRows
    BY <1>1, <1>3, <2>3
  <2> QED BY <1>2, <2>1, <2>4
<1> QED BY <1>4, <1>5 DEF AskedStays

\* ... by every step that drops nothing.
LEMMA DrainedStays ==
  ASSUME LogInv, AskedStays, droppedLogRows' = droppedLogRows, table \subseteq table',
         Range(Pending) \subseteq table' \cup Range(Pending)',
         \A x \in Range(Pending)' : x \in Range(Pending) \/ x = recorded + 1
  PROVE  ForceInv'
<1>1. droppedLogRows \in Nat
  BY DEF LogInv, TypeOK
<1>2. IsFiniteSet({}) /\ Cardinality({}) = 0
  BY FS_EmptySet
<1>3. LossCounted({})
  BY <1>1, <1>2 DEF LossCounted
<1> QED BY <1>3, ForceKeeps

\* What a force-flush found stays of its type as the counters grow.
LEMMA AskedType ==
  ASSUME LogInv, recorded' \in Nat, recorded <= recorded', droppedLogRows' \in Nat,
         droppedLogRows <= droppedLogRows'
  PROVE  /\ asked \in [Flusher -> [rows : SUBSET (1..recorded'), dropped : 0..droppedLogRows']]
         /\ \A c \in Flusher :
               AskedNow(c) \in [rows : SUBSET (1..recorded'), dropped : 0..droppedLogRows']
<1>1. /\ asked \in [Flusher -> [rows : SUBSET (1..recorded), dropped : 0..droppedLogRows]]
      /\ recorded \in Nat /\ droppedLogRows \in Nat
  BY DEF LogInv, TypeOK
<1>2. 1..recorded \subseteq 1..recorded' /\ 0..droppedLogRows \subseteq 0..droppedLogRows'
  BY <1>1
<1>3. [rows : SUBSET (1..recorded), dropped : 0..droppedLogRows]
        \subseteq [rows : SUBSET (1..recorded'), dropped : 0..droppedLogRows']
  BY <1>2
<1>4. asked \in [Flusher -> [rows : SUBSET (1..recorded'), dropped : 0..droppedLogRows']]
  BY <1>1, <1>3
<1>5. Range(Pending) \subseteq 1..recorded' /\ droppedLogRows \in 0..droppedLogRows'
  BY <1>1, <1>2, PendingRecorded
<1> QED BY <1>4, <1>5 DEF AskedNow

-----------------------------------------------------------------------------
(* Every step keeps the invariant                                           *)

LEMMA InitInv == Init => LogInv
<1> SUFFICES ASSUME Init PROVE LogInv
  OBVIOUS
<1>1. /\ batch = <<>> /\ logBuffer = <<>> /\ recorded = 0 /\ droppedLogRows = 0
      /\ insert = "none" /\ flushTimer = "none" /\ phase = "up" /\ table = {} /\ stopAt = 0
  BY DEF Init
<1>2. TypeOK
  <2>1. <<>> \in Seq(Nat) /\ 0 \in Nat /\ 0 \in 0..0
    BY EmptySeq
  <2>2. drain \in [Flusher -> {"idle", "check", "awaiting", "drained", "timeout"}]
        /\ asked \in [Flusher -> [rows : SUBSET (1..0), dropped : 0..0]]
        /\ failures = 0 /\ missed = FALSE
    BY <2>1 DEF Init
  <2> QED BY <1>1, <2>1, <2>2 DEF TypeOK
<1>3. Pending = <<>> /\ Len(Pending) = 0 /\ Range(Pending) = {}
  <2>1. Pending = <<>>
    BY <1>1, NoRows, ConcatEmptySeq DEF Pending
  <2> QED BY <2>1, NoRows
<1>4. PendingInOrder /\ Len(Pending) <= recorded
  BY <1>1, <1>3 DEF PendingInOrder
<1>5. NothingLostSilently
  <2>1. Missing = {}
    BY <1>1 DEF Missing
  <2> QED BY <1>1, <2>1, FS_EmptySet DEF NothingLostSilently
<1>6. InsertInv /\ ShutdownInv /\ ShutdownDrains
  BY <1>1, <1>3 DEF InsertInv, InProgress, ShutdownInv, shuttingDown, ShutdownDrains
<1>7. ForceInv
  <2> SUFFICES ASSUME NEW c \in Flusher
               PROVE  /\ drain[c] # "drained" /\ Lost(c) = {}
                      /\ droppedLogRows - asked[c].dropped = 0
    BY FS_EmptySet DEF ForceInv
  <2>1. drain[c] = "idle" /\ asked[c] = [rows |-> {}, dropped |-> 0]
    BY DEF Init
  <2> QED BY <2>1, <1>1 DEF Lost
<1> QED BY <1>2, <1>4, <1>5, <1>6, <1>7 DEF LogInv

LEMMA RecordKeepsInv ==
  ASSUME LogInv, RecordRequest
  PROVE  LogInv'
<1> DEFINE buffer == Append(logBuffer, recorded + 1)
<1>1. /\ recorded' = recorded + 1 /\ phase # "closed" /\ recorded \in Nat
      /\ UNCHANGED <<droppedLogRows, table, phase, drain, failures, asked, stopAt>>
      /\ \/ FlushLogs(buffer, flushTimer, ~shuttingDown)
         \/ /\ logBuffer' = buffer /\ flushTimer' = TimerAfterRecord
            /\ UNCHANGED <<batch, insert, missed>>
  BY DEF RecordRequest, LogInv, TypeOK
<1>2. batch \in Seq(Nat) /\ logBuffer \in Seq(Nat) /\ buffer \in Seq(Nat)
      /\ Range(buffer) = Range(logBuffer) \cup {recorded + 1}
  <2>1. batch \in Seq(Nat) /\ logBuffer \in Seq(Nat) /\ recorded + 1 \in Nat
    BY <1>1 DEF LogInv, TypeOK
  <2>2. /\ buffer \in Seq(Nat) /\ Len(buffer) = Len(logBuffer) + 1
        /\ \A i \in 1..Len(logBuffer) : buffer[i] = logBuffer[i]
        /\ buffer[Len(logBuffer) + 1] = recorded + 1
    BY <2>1, AppendProperties
  <2>3. /\ Len(logBuffer) \in Nat /\ Range(logBuffer) = {logBuffer[i] : i \in 1..Len(logBuffer)}
        /\ Range(buffer) = {buffer[i] : i \in 1..Len(buffer)}
    BY <2>1, <2>2, RowsOf
  <2>4. 1..Len(buffer) = (1..Len(logBuffer)) \cup {Len(logBuffer) + 1}
    BY <2>2, <2>3
  <2> HIDE DEF buffer
  <2>5. Range(buffer) = Range(logBuffer) \cup {recorded + 1}
    BY <2>2, <2>3, <2>4
  <2> QED BY <2>1, <2>2, <2>5
<1> HIDE DEF buffer
<1>3. /\ batch' \o logBuffer' = batch \o buffer
      /\ batch' \in Seq(Nat) /\ logBuffer' \in Seq(Nat)
      /\ insert' \in {"none", "sent", "executed"} /\ missed' \in BOOLEAN
      /\ (insert' # "none") <=> batch' # <<>>
      /\ insert' = "executed" => insert = "executed" /\ batch' = batch
      /\ InProgress => UNCHANGED <<batch, insert>> /\ logBuffer' = buffer
      /\ shuttingDown => UNCHANGED <<batch, insert, missed>> /\ logBuffer' = buffer
      /\ flushTimer' \in {"none", "armed", "fired"} /\ (shuttingDown => flushTimer' # "armed")
  <2>0. /\ flushTimer \in {"none", "armed", "fired"} /\ missed \in BOOLEAN
        /\ insert \in {"none", "sent", "executed"}
        /\ TypeOK /\ InsertInv /\ (shuttingDown => flushTimer # "armed")
    BY DEF LogInv, TypeOK, ShutdownInv
  <2>1. CASE FlushLogs(buffer, flushTimer, ~shuttingDown)
    <3>1. (~shuttingDown) \in BOOLEAN
      BY DEF shuttingDown
    <3>2. shuttingDown => UNCHANGED <<batch, insert>> /\ logBuffer' = buffer
                          /\ flushTimer' = flushTimer /\ missed' = missed
      BY <2>0, <2>1 DEF FlushLogs
    <3> QED BY <2>0, <2>1, <3>1, <3>2, <1>2, FlushKeepsOrder
  <2>2. CASE /\ logBuffer' = buffer /\ flushTimer' = TimerAfterRecord
             /\ UNCHANGED <<batch, insert, missed>>
    <3>1. flushTimer' \in {"none", "armed", "fired"} /\ (shuttingDown => flushTimer' # "armed")
      BY <2>0, <2>2 DEF TimerAfterRecord
    <3> QED BY <2>0, <2>2, <3>1, <1>2 DEF InsertInv, InProgress
  <2> QED BY <1>1, <2>1, <2>2
<1>4. Pending' = Append(Pending, recorded + 1)
  <2>1. recorded + 1 \in Nat
    BY <1>1
  <2>2. buffer = logBuffer \o <<recorded + 1>> /\ <<recorded + 1>> \in Seq(Nat)
    BY <1>2, <2>1, AppendIsConcat DEF buffer
  <2>3. batch \o buffer = (batch \o logBuffer) \o <<recorded + 1>>
    BY <1>2, <2>2, ConcatAssociative
  <2>4. Append(Pending, recorded + 1) = Pending \o <<recorded + 1>>
    BY <2>1, PendingType, AppendIsConcat DEF LogInv
  <2> QED BY <1>3, <2>3, <2>4 DEF Pending
<1>5. /\ PendingInOrder' /\ Len(Pending)' <= recorded' /\ NothingLostSilently'
      /\ Range(Pending)' = Range(Pending) \cup {recorded + 1}
  BY <1>1, <1>4, AppendKeepsMemory
<1>6. ForceInv'
  BY <1>1, <1>5, DrainedStays DEF AskedStays
<1>7. TypeOK'
  <2>1. table' \subseteq 1..recorded' /\ stopAt' \in 0..recorded' /\ recorded' \in Nat
        /\ droppedLogRows' \in Nat /\ recorded <= recorded' /\ droppedLogRows <= droppedLogRows'
    BY <1>1 DEF LogInv, TypeOK
  <2>2. asked' \in [Flusher -> [rows : SUBSET (1..recorded'), dropped : 0..droppedLogRows']]
    BY <1>1, <2>1, AskedType
  <2> QED BY <1>1, <1>3, <2>1, <2>2 DEF LogInv, TypeOK
<1>8. InsertInv'
  BY <1>1, <1>3 DEF LogInv, InsertInv, InProgress
<1>9. (stopAt' + 1)..recorded' = ((stopAt + 1)..recorded) \cup {recorded + 1}
  BY <1>1 DEF LogInv, TypeOK
<1>10. ShutdownInv'
  <2>1. ASSUME phase' = "draining"
        PROVE  InProgress' /\ (~missed' => Range(logBuffer)' = (stopAt' + 1)..recorded')
    <3>1. shuttingDown /\ InProgress /\ (~missed => Range(logBuffer) = (stopAt + 1)..recorded)
      BY <2>1, <1>1 DEF LogInv, ShutdownInv, shuttingDown
    <3>2. missed' = missed /\ insert' = insert /\ Range(logBuffer)' = Range(logBuffer) \cup {recorded + 1}
      BY <1>2, <1>3, <3>1
    <3> QED BY <1>9, <3>1, <3>2 DEF InProgress
  <2>2. ASSUME phase' \in {"destroyed", "closed"}, ~missed'
        PROVE  ~InProgress'
    <3>1. shuttingDown /\ phase' = phase
      BY <2>2, <1>1 DEF shuttingDown
    <3>2. missed' = missed /\ insert' = insert
      BY <3>1, <1>3
    <3> QED BY <2>2, <3>1, <3>2 DEF LogInv, ShutdownInv, InProgress
  <2> QED BY <2>1, <2>2, <1>1, <1>3 DEF ShutdownInv, shuttingDown
<1>11. ShutdownDrains'
  <2> SUFFICES ASSUME phase' \in {"destroyed", "closed"}, ~missed'
               PROVE  Range(Pending)' = (stopAt' + 1)..recorded'
    BY DEF ShutdownDrains
  <2>1. phase = "destroyed" /\ ~missed
    BY <1>1, <1>3 DEF shuttingDown
  <2>2. Range(Pending) = (stopAt + 1)..recorded
    BY <2>1 DEF LogInv, ShutdownDrains
  <2> QED BY <1>5, <1>9, <2>2
<1> QED BY <1>5, <1>6, <1>7, <1>8, <1>10, <1>11 DEF LogInv

\* Beginning a flush, or finding that there is nothing to do, outside recordRequest.
LEMMA FlushMovesRows ==
  ASSUME LogInv, NEW timer \in {"none", "armed", "fired"}, NEW allowed \in BOOLEAN,
         FlushLogs(logBuffer, timer, allowed), UNCHANGED <<droppedLogRows, table, recorded>>
  PROVE  /\ Pending' = Pending
         /\ batch' \in Seq(Nat) /\ logBuffer' \in Seq(Nat)
         /\ insert' \in {"none", "sent", "executed"} /\ missed' \in BOOLEAN
         /\ flushTimer' \in {"none", timer}
         /\ PendingInOrder' /\ Len(Pending)' <= recorded' /\ NothingLostSilently'
         /\ InsertInv'
<1>1. TypeOK /\ InsertInv /\ logBuffer \in Seq(Nat)
  BY DEF LogInv, TypeOK
<1>2. /\ batch' \o logBuffer' = batch \o logBuffer
      /\ batch' \in Seq(Nat) /\ logBuffer' \in Seq(Nat)
      /\ insert' \in {"none", "sent", "executed"} /\ missed' \in BOOLEAN
      /\ (insert' # "none") <=> batch' # <<>>
      /\ insert' = "executed" => insert = "executed" /\ batch' = batch
      /\ flushTimer' \in {"none", timer}
  BY <1>1, FlushKeepsOrder
<1>3. Pending' = Pending
  BY <1>2 DEF Pending
<1>4. PendingInOrder' /\ Len(Pending)' <= recorded' /\ NothingLostSilently'
  BY <1>3, KeepsMemory DEF Keeps
<1>5. InsertInv'
  BY <1>1, <1>2 DEF InsertInv, InProgress
<1> QED BY <1>2, <1>3, <1>4, <1>5

LEMMA TimerKeepsInv ==
  ASSUME LogInv, TimerFires
  PROVE  LogInv'
<1>1. /\ FlushLogs(logBuffer, "fired", ~shuttingDown) /\ (~shuttingDown) \in BOOLEAN
      /\ UNCHANGED <<droppedLogRows, table, recorded, phase, drain, failures, asked, stopAt>>
      /\ phase = "up"
  BY DEF TimerFires, LogInv, ShutdownInv, shuttingDown
<1>2. /\ Pending' = Pending
      /\ batch' \in Seq(Nat) /\ logBuffer' \in Seq(Nat)
      /\ insert' \in {"none", "sent", "executed"} /\ missed' \in BOOLEAN
      /\ flushTimer' \in {"none", "fired"}
      /\ PendingInOrder' /\ Len(Pending)' <= recorded' /\ NothingLostSilently'
      /\ InsertInv'
  BY <1>1, FlushMovesRows
<1>3. TypeOK'
  BY <1>1, <1>2 DEF LogInv, TypeOK
<1>4. ForceInv'
  BY <1>1, <1>2, DrainedStays DEF AskedStays
<1>5. ShutdownInv' /\ ShutdownDrains'
  BY <1>1 DEF ShutdownInv, ShutdownDrains, shuttingDown
<1> QED BY <1>2, <1>3, <1>4, <1>5 DEF LogInv

LEMMA ExecuteKeepsInv ==
  ASSUME LogInv, Execute
  PROVE  LogInv'
<1>1. /\ insert = "sent" /\ insert' = "executed" /\ table' = table \cup Range(batch)
      /\ UNCHANGED <<logBuffer, batch, flushTimer, droppedLogRows, recorded, phase,
                     drain, failures, asked, stopAt, missed>>
  BY DEF Execute
<1>2. Range(batch) \subseteq 1..recorded
  BY PendingType, PendingRecorded DEF LogInv
<1>3. TypeOK'
  BY <1>1, <1>2 DEF LogInv, TypeOK
<1>4. Keeps
  BY <1>1 DEF Keeps, Pending
<1>5. PendingInOrder' /\ Len(Pending)' <= recorded' /\ NothingLostSilently'
  BY <1>4, KeepsMemory
<1>6. ForceInv'
  BY <1>1, <1>4, DrainedStays DEF Keeps, AskedStays
<1>7. InsertInv'
  BY <1>1 DEF LogInv, InsertInv, InProgress
<1>8. ShutdownInv' /\ ShutdownDrains'
  BY <1>1, <1>4 DEF LogInv, ShutdownInv, ShutdownDrains, shuttingDown, InProgress, Keeps
<1> QED BY <1>3, <1>5, <1>6, <1>7, <1>8 DEF LogInv

\* What the end of an insert changes besides the rows.
LEMMA ReleaseType ==
  ASSUME LogInv, Release
  PROVE  /\ insert' = "none" /\ batch' = <<>> /\ <<>> \in Seq(Nat)
         /\ drain' \in [Flusher -> {"idle", "check", "awaiting", "drained", "timeout"}]
         /\ \A c \in Flusher : drain'[c] = "drained" => drain[c] = "drained"
         /\ phase' \in {"up", "destroyed", "closed"}
         /\ phase # "draining" => phase' = phase
<1>1. /\ drain \in [Flusher -> {"idle", "check", "awaiting", "drained", "timeout"}]
      /\ phase \in {"up", "draining", "destroyed", "closed"}
  BY DEF LogInv, TypeOK
<1>2. /\ drain' = [c \in Flusher |-> IF drain[c] = "awaiting" THEN "check" ELSE drain[c]]
      /\ phase' = IF phase = "draining" THEN "destroyed" ELSE phase
      /\ insert' = "none" /\ batch' = <<>>
  BY DEF Release
<1>3. \A c \in Flusher : /\ drain'[c] \in {"idle", "check", "awaiting", "drained", "timeout"}
                        /\ drain'[c] = "drained" => drain[c] = "drained"
  BY <1>1, <1>2
<1>4. drain' \in [Flusher -> {"idle", "check", "awaiting", "drained", "timeout"}]
  BY <1>1, <1>2
<1> QED BY <1>1, <1>2, <1>3, <1>4, EmptySeq

LEMMA ResolveKeepsInv ==
  ASSUME LogInv, Resolve
  PROVE  LogInv'
<1>1. /\ Release
      /\ UNCHANGED <<logBuffer, flushTimer, droppedLogRows, table, recorded, failures,
                     asked, stopAt, missed>>
  BY DEF Resolve
<1>2. /\ insert' = "none" /\ batch' = <<>> /\ <<>> \in Seq(Nat)
      /\ drain' \in [Flusher -> {"idle", "check", "awaiting", "drained", "timeout"}]
      /\ \A c \in Flusher : drain'[c] = "drained" => drain[c] = "drained"
      /\ phase' \in {"up", "destroyed", "closed"}
      /\ phase # "draining" => phase' = phase
  BY <1>1, ReleaseType
<1>3. /\ PendingInOrder' /\ Len(Pending)' <= recorded' /\ NothingLostSilently'
      /\ Range(Pending)' \subseteq Range(Pending) /\ Range(Pending)' = Range(logBuffer)
      /\ Range(Pending) \subseteq table \cup Range(Pending)'
  BY ResolveCuts
<1>4. TypeOK'
  BY <1>1, <1>2 DEF LogInv, TypeOK
<1>5. InsertInv'
  BY <1>2 DEF InsertInv, InProgress
<1>6. ForceInv'
  BY <1>1, <1>2, <1>3, DrainedStays DEF AskedStays
<1>7. ShutdownInv'
  <2>1. shuttingDown' => shuttingDown
    BY <1>2 DEF shuttingDown
  <2>2. ~InProgress'
    BY <1>2 DEF InProgress
  <2> QED BY <1>1, <1>2, <2>1, <2>2 DEF LogInv, ShutdownInv
<1>8. ShutdownDrains'
  <2> SUFFICES ASSUME phase' \in {"destroyed", "closed"}, ~missed'
               PROVE  Range(Pending)' = (stopAt' + 1)..recorded'
    BY DEF ShutdownDrains
  <2>1. CASE phase = "draining"
    BY <2>1, <1>1, <1>3 DEF LogInv, ShutdownInv
  <2>2. CASE phase # "draining"
    <3>1. ~InProgress
      BY <2>2, <1>1, <1>2 DEF LogInv, ShutdownInv
    <3> QED BY <3>1 DEF Resolve, InProgress
  <2> QED BY <2>1, <2>2
<1> QED BY <1>3, <1>4, <1>5, <1>6, <1>7, <1>8 DEF LogInv

LEMMA RejectKeepsInv ==
  ASSUME LogInv, Reject
  PROVE  LogInv'
<1>1. /\ Release /\ failures' = failures + 1 /\ missed' = TRUE
      /\ UNCHANGED <<flushTimer, table, recorded, asked, stopAt>>
  BY DEF Reject, CountDropped
<1>2. /\ insert' = "none" /\ batch' = <<>> /\ <<>> \in Seq(Nat)
      /\ drain' \in [Flusher -> {"idle", "check", "awaiting", "drained", "timeout"}]
      /\ \A c \in Flusher : drain'[c] = "drained" => drain[c] = "drained"
      /\ phase' \in {"up", "destroyed", "closed"}
      /\ phase # "draining" => phase' = phase
  BY <1>1, ReleaseType
<1>3. /\ PendingInOrder' /\ Len(Pending)' <= recorded' /\ NothingLostSilently'
      /\ Range(Pending)' \subseteq Range(Pending)
      /\ logBuffer' \in Seq(Nat) /\ droppedLogRows' \in Nat
  BY RejectCuts
<1>4. PICK gone : /\ IsFiniteSet(gone) /\ droppedLogRows' = droppedLogRows + Cardinality(gone)
                  /\ Range(Pending) \ Range(Pending)' \subseteq gone
  BY RejectCuts
<1>8. TypeOK'
  <2>1. recorded' \in Nat /\ recorded <= recorded' /\ droppedLogRows <= droppedLogRows'
    BY <1>1, <1>4, FS_CardinalityType DEF LogInv, TypeOK
  <2>2. asked' \in [Flusher -> [rows : SUBSET (1..recorded'), dropped : 0..droppedLogRows']]
    BY <1>1, <1>3, <2>1, AskedType
  <2> QED BY <1>1, <1>2, <1>3, <2>2 DEF LogInv, TypeOK
<1>5. InsertInv'
  BY <1>2 DEF InsertInv, InProgress
<1>6. ForceInv'
  <2>1. LossCounted(gone)
    BY <1>1, <1>3, <1>4 DEF LossCounted
  <2>2. AskedStays
    BY <1>1, <1>2 DEF AskedStays
  <2> QED BY <2>1, <2>2, ForceKeeps
<1>7. ShutdownInv' /\ ShutdownDrains'
  <2>1. shuttingDown' => shuttingDown
    BY <1>2 DEF shuttingDown
  <2> QED BY <1>1, <1>2, <2>1 DEF LogInv, ShutdownInv, ShutdownDrains
<1> QED BY <1>3, <1>5, <1>6, <1>7, <1>8 DEF LogInv

\* One turn of flushPending's loop, at its start or later.
LEMMA DrainKeepsInv ==
  ASSUME LogInv, NEW c \in Flusher, Drain(c),
         asked' = asked \/ (drain[c] = "idle" /\ asked' = [asked EXCEPT ![c] = AskedNow(c)]),
         UNCHANGED <<table, recorded, phase, failures, stopAt>>
  PROVE  LogInv'
<1>1. /\ drain \in [Flusher -> {"idle", "check", "awaiting", "drained", "timeout"}]
      /\ flushTimer \in {"none", "armed", "fired"}
      /\ batch \in Seq(Nat) /\ logBuffer \in Seq(Nat) /\ missed \in BOOLEAN
      /\ (InProgress <=> batch # <<>>)
      /\ recorded \in Nat /\ droppedLogRows \in Nat
  BY DEF LogInv, TypeOK, InsertInv
<1>4. /\ asked' \in [Flusher -> [rows : SUBSET (1..recorded), dropped : 0..droppedLogRows]]
      /\ \A d \in Flusher : asked'[d] = asked[d] \/ (d = c /\ asked'[d] = AskedNow(d))
  <2>1. /\ asked \in [Flusher -> [rows : SUBSET (1..recorded), dropped : 0..droppedLogRows]]
        /\ AskedNow(c) \in [rows : SUBSET (1..recorded), dropped : 0..droppedLogRows]
    BY <1>1, PendingRecorded DEF AskedNow, LogInv, TypeOK
  <2> QED BY <2>1
<1>2. CASE InProgress \/ logBuffer = <<>> \/ shuttingDown
  <2>1. PICK r \in {"check", "drained", "timeout"} :
           /\ drain' = [drain EXCEPT ![c] = r]
           /\ r = "drained" => batch = <<>> /\ logBuffer = <<>>
           /\ UNCHANGED <<serviceVars, missed>>
    BY <1>1, <1>2 DEF Drain
  <2>2. UNCHANGED <<logBuffer, batch, insert, flushTimer, droppedLogRows, missed>>
        /\ UNCHANGED <<table, recorded, phase, failures, stopAt>>
    BY <2>1 DEF serviceVars
  <2>3. drain' \in [Flusher -> {"idle", "check", "awaiting", "drained", "timeout"}]
        /\ \A d \in Flusher : drain'[d] = "drained" =>
              (drain[d] = "drained" /\ d # c) \/ r = "drained"
    BY <1>1, <2>1
  <2>4. Keeps
    BY <2>2 DEF Keeps, Pending
  <2>5. r = "drained" => Range(Pending)' = {}
    <3> SUFFICES ASSUME r = "drained" PROVE Range(Pending)' = {}
      OBVIOUS
    <3>1. Pending = <<>>
      BY <1>1, <2>1, EmptySeq, ConcatEmptySeq DEF Pending
    <3> QED BY <2>4, <3>1, NoRows DEF Keeps
  <2>6. ForceInv'
    <3>1. AskedStays
      BY <1>4, <2>3, <2>5 DEF AskedStays
    <3> QED BY <3>1, <2>4, DrainedStays DEF Keeps
  <2>7. PendingInOrder' /\ Len(Pending)' <= recorded' /\ NothingLostSilently'
    BY <2>4, KeepsMemory
  <2>8. TypeOK'
    BY <1>4, <2>2, <2>3 DEF LogInv, TypeOK
  <2>9. InsertInv' /\ ShutdownInv' /\ ShutdownDrains'
    BY <2>2, <2>4 DEF LogInv, InsertInv, ShutdownInv, ShutdownDrains, shuttingDown, InProgress, Keeps
  <2> QED BY <2>6, <2>7, <2>8, <2>9 DEF LogInv
<1>3. CASE ~(InProgress \/ logBuffer = <<>> \/ shuttingDown)
  <2>1. /\ FlushLogs(logBuffer, flushTimer, TRUE)
        /\ drain' = [drain EXCEPT ![c] = "awaiting"] /\ UNCHANGED droppedLogRows
        /\ phase = "up" /\ phase' = "up"
    BY <1>3 DEF Drain, shuttingDown
  <2>2. /\ Pending' = Pending
        /\ batch' \in Seq(Nat) /\ logBuffer' \in Seq(Nat)
        /\ insert' \in {"none", "sent", "executed"} /\ missed' \in BOOLEAN
        /\ flushTimer' \in {"none", flushTimer}
        /\ PendingInOrder' /\ Len(Pending)' <= recorded' /\ NothingLostSilently'
        /\ InsertInv'
    BY <1>1, <2>1, FlushMovesRows
  <2>3. drain' \in [Flusher -> {"idle", "check", "awaiting", "drained", "timeout"}]
        /\ \A d \in Flusher : drain'[d] = "drained" => drain[d] = "drained" /\ d # c
    BY <1>1, <2>1
  <2>4. ForceInv'
    <3>1. AskedStays
      BY <1>4, <2>3 DEF AskedStays
    <3> QED BY <3>1, <2>1, <2>2, DrainedStays
  <2>5. TypeOK'
    BY <1>1, <1>4, <2>1, <2>2, <2>3 DEF LogInv, TypeOK
  <2>6. ShutdownInv' /\ ShutdownDrains'
    BY <2>1 DEF ShutdownInv, ShutdownDrains, shuttingDown
  <2> QED BY <2>2, <2>4, <2>5, <2>6 DEF LogInv
<1> QED BY <1>2, <1>3

LEMMA FlusherKeepsInv ==
  ASSUME LogInv, NEW c \in Flusher, FlushPending(c) \/ CheckAgain(c) \/ Deadline(c)
  PROVE  LogInv'
<1>1. drain \in [Flusher -> {"idle", "check", "awaiting", "drained", "timeout"}]
  BY DEF LogInv, TypeOK
<1>2. CASE FlushPending(c)
  <2>1. /\ asked' = [asked EXCEPT ![c] = AskedNow(c)] /\ Drain(c) /\ drain[c] = "idle"
        /\ UNCHANGED <<table, recorded, phase, failures, stopAt>>
    BY <1>2 DEF FlushPending, AskedNow
  <2> QED BY <2>1, DrainKeepsInv
<1>3. CASE CheckAgain(c)
  <2>1. Drain(c) /\ UNCHANGED <<table, recorded, phase, failures, asked, stopAt>>
    BY <1>3 DEF CheckAgain
  <2> QED BY <2>1, DrainKeepsInv
<1>4. CASE Deadline(c)
  <2>1. /\ drain' = [drain EXCEPT ![c] = "timeout"]
        /\ UNCHANGED <<logBuffer, batch, insert, flushTimer, droppedLogRows>>
        /\ UNCHANGED <<table, recorded, phase, failures, asked, stopAt, missed>>
    BY <1>4 DEF Deadline, serviceVars
  <2>2. Keeps
    BY <2>1 DEF Keeps, Pending
  <2>3. drain' \in [Flusher -> {"idle", "check", "awaiting", "drained", "timeout"}]
        /\ \A d \in Flusher : drain'[d] = "drained" => drain[d] = "drained"
    BY <1>1, <2>1
  <2>4. ForceInv'
    BY <2>1, <2>2, <2>3, DrainedStays DEF Keeps, AskedStays
  <2>5. PendingInOrder' /\ Len(Pending)' <= recorded' /\ NothingLostSilently'
    BY <2>2, KeepsMemory
  <2>6. TypeOK'
    BY <2>1, <2>3 DEF LogInv, TypeOK
  <2>7. InsertInv' /\ ShutdownInv' /\ ShutdownDrains'
    BY <2>1, <2>2 DEF LogInv, InsertInv, ShutdownInv, ShutdownDrains, shuttingDown, InProgress, Keeps
  <2> QED BY <2>4, <2>5, <2>6, <2>7 DEF LogInv
<1> QED BY <1>2, <1>3, <1>4

LEMMA DestroyKeepsInv ==
  ASSUME LogInv, OnModuleDestroy
  PROVE  LogInv'
<1>1. /\ phase = "up" /\ stopAt' = recorded
      /\ FlushLogs(logBuffer, "none", TRUE)
      /\ phase' = IF ~InProgress /\ logBuffer # <<>> THEN "draining" ELSE "destroyed"
      /\ UNCHANGED <<droppedLogRows, table, recorded, drain, failures, asked>>
  BY DEF OnModuleDestroy
<1>2. /\ Pending' = Pending
      /\ batch' \in Seq(Nat) /\ logBuffer' \in Seq(Nat)
      /\ insert' \in {"none", "sent", "executed"} /\ missed' \in BOOLEAN
      /\ flushTimer' = "none"
      /\ PendingInOrder' /\ Len(Pending)' <= recorded' /\ NothingLostSilently'
      /\ InsertInv'
  BY <1>1, FlushMovesRows
<1>3. TypeOK'
  <2>1. stopAt' \in 0..recorded' /\ phase' \in {"up", "draining", "destroyed", "closed"}
    BY <1>1 DEF LogInv, TypeOK
  <2> QED BY <1>1, <1>2, <2>1 DEF LogInv, TypeOK
<1>4. ForceInv'
  BY <1>1, <1>2, DrainedStays DEF AskedStays
<1>7. (stopAt' + 1)..recorded' = {}
  BY <1>1 DEF LogInv, TypeOK
<1>5. ShutdownInv'
  <2>1. ASSUME phase' = "draining" PROVE InProgress' /\ Range(logBuffer)' = {}
    <3>1. insert' = "sent" /\ logBuffer' = <<>>
      BY <2>1, <1>1 DEF FlushLogs
    <3> QED BY <3>1, NoRows DEF InProgress
  <2>2. ASSUME phase' \in {"destroyed", "closed"}, ~missed' PROVE ~InProgress'
    BY <2>2, <1>1 DEF FlushLogs, InProgress
  <2> QED BY <1>2, <1>7, <2>1, <2>2 DEF ShutdownInv
<1>6. ShutdownDrains'
  <2> SUFFICES ASSUME phase' = "destroyed", ~missed' PROVE Range(Pending)' = {}
    BY <1>1, <1>7 DEF ShutdownDrains
  <2>1. ~InProgress /\ logBuffer = <<>>
    BY <1>1 DEF FlushLogs
  <2>2. Pending = <<>>
    BY <2>1, EmptySeq, ConcatEmptySeq DEF Pending, LogInv, InsertInv
  <2> QED BY <1>2, <2>2, NoRows
<1> QED BY <1>2, <1>3, <1>4, <1>5, <1>6 DEF LogInv

\* The last step of shutdown, and steps that change nothing.
LEMMA RestKeepsInv ==
  ASSUME LogInv, OnApplicationShutdown \/ Done \/ UNCHANGED logVars
  PROVE  LogInv'
<1>1. /\ UNCHANGED <<logBuffer, batch, insert, flushTimer, droppedLogRows, table, recorded,
                     drain, failures, asked, stopAt, missed>>
      /\ \/ phase' = phase
         \/ phase = "destroyed" /\ phase' = "closed"
  <2>1. CASE OnApplicationShutdown
    BY <2>1 DEF OnApplicationShutdown, serviceVars
  <2>2. CASE Done \/ UNCHANGED logVars
    BY <2>2 DEF Done, logVars, serviceVars
  <2> QED BY <2>1, <2>2
<1>2. Pending' = Pending /\ Missing' = Missing
  BY <1>1 DEF Pending, Missing
<1>3. TypeOK'
  BY <1>1 DEF LogInv, TypeOK
<1>4. InsertInv' /\ PendingInOrder' /\ Len(Pending)' <= recorded'
  BY <1>1, <1>2 DEF LogInv, InsertInv, InProgress, PendingInOrder
<1>5. NothingLostSilently' /\ ForceInv'
  BY <1>1, <1>2 DEF LogInv, NothingLostSilently, ForceInv, Lost
<1>6. ShutdownInv' /\ ShutdownDrains'
  BY <1>1, <1>2 DEF LogInv, ShutdownInv, ShutdownDrains, shuttingDown, InProgress
<1> QED BY <1>3, <1>4, <1>5, <1>6 DEF LogInv

-----------------------------------------------------------------------------
(* The theorems                                                             *)

(***************************************************************************)
(* The inductive invariant holds in every reachable state of the service.  *)
(***************************************************************************)
THEOREM LogInvariant == Spec => []LogInv
<1>1. Init => LogInv
  BY InitInv
<1>2. LogInv /\ [Next]_logVars => LogInv'
  <2> SUFFICES ASSUME LogInv, [Next]_logVars PROVE LogInv'
    OBVIOUS
  <2>1. CASE RecordRequest
    BY <2>1, RecordKeepsInv
  <2>2. CASE TimerFires
    BY <2>2, TimerKeepsInv
  <2>3. CASE Execute
    BY <2>3, ExecuteKeepsInv
  <2>4. CASE Resolve
    BY <2>4, ResolveKeepsInv
  <2>5. CASE Reject
    BY <2>5, RejectKeepsInv
  <2>6. CASE \E c \in Flusher : FlushPending(c) \/ CheckAgain(c) \/ Deadline(c)
    BY <2>6, FlusherKeepsInv
  <2>7. CASE OnModuleDestroy
    BY <2>7, DestroyKeepsInv
  <2>8. CASE OnApplicationShutdown \/ Done \/ UNCHANGED logVars
    BY <2>8, RestKeepsInv
  <2> QED BY <2>1, <2>2, <2>3, <2>4, <2>5, <2>6, <2>7, <2>8 DEF Next
<1> QED BY <1>1, <1>2, PTL DEF Spec

(***************************************************************************)
(* Every reachable state of LoggingService has the declared shape.         *)
(***************************************************************************)
THEOREM LogTypeCorrect == Spec => []TypeOK
<1>1. LogInv => TypeOK
  BY DEF LogInv
<1> QED BY <1>1, LogInvariant, PTL

(***************************************************************************)
(* The rows that flushLogs and recordRequest hold in memory are always the *)
(* newest ones, each once and in order, whatever fails.                    *)
(***************************************************************************)
THEOREM RowsStayInOrder == Spec => []PendingInOrder
<1>1. LogInv => PendingInOrder
  BY DEF LogInv
<1> QED BY <1>1, LogInvariant, PTL

(***************************************************************************)
(* flushLogs gives up no row without counting it in droppedLogRows.        *)
(***************************************************************************)
THEOREM NothingIsLostSilently == Spec => []NothingLostSilently
<1>1. LogInv => NothingLostSilently
  BY DEF LogInv
<1> QED BY <1>1, LogInvariant, PTL

(***************************************************************************)
(* When a flushPending returns in time, what was in memory at the call is  *)
(* in the table, but for what the cap dropped, and counted, meanwhile.     *)
(***************************************************************************)
THEOREM ForceFlushDrains == Spec => []FlushPendingDrains
<1>1. LogInv => FlushPendingDrains
  <2> SUFFICES ASSUME LogInv, NEW c \in Flusher, drain[c] = "drained"
               PROVE  Cardinality(asked[c].rows \ table) <= droppedLogRows - asked[c].dropped
    BY DEF FlushPendingDrains
  <2>1. asked[c].rows \ table = Lost(c)
    BY DEF LogInv, ForceInv, Lost
  <2> QED BY <2>1 DEF LogInv, ForceInv
<1> QED BY <1>1, LogInvariant, PTL

(***************************************************************************)
(* What onModuleDestroy leaves in memory is exactly what was recorded      *)
(* after it began, unless a flush was in progress or an insert failed.     *)
(***************************************************************************)
THEOREM LastFlushDrains == Spec => []ShutdownDrains
<1>1. LogInv => ShutdownDrains
  BY DEF LogInv
<1> QED BY <1>1, LogInvariant, PTL

(***************************************************************************)
(* After onModuleDestroy no timer is armed and no insert begins.           *)
(***************************************************************************)
THEOREM ShutdownStaysOneWay == Spec => ShutdownIsOneWay
<1> DEFINE Step == shuttingDown => flushTimer' # "armed" /\ (InProgress \/ insert' = "none")
<1>1. LogInv /\ [Next]_logVars => [Step]_logVars
  <2> SUFFICES ASSUME LogInv, Next, shuttingDown
               PROVE  flushTimer' # "armed" /\ (InProgress \/ insert' = "none")
    OBVIOUS
  <2>1. flushTimer # "armed" /\ phase # "up" /\ (~InProgress <=> insert = "none")
    BY DEF LogInv, ShutdownInv, shuttingDown, InProgress
  <2>2. CASE RecordRequest
    BY <2>1, <2>2 DEF RecordRequest, FlushLogs, TimerAfterRecord
  <2>3. CASE TimerFires
    BY <2>1, <2>3 DEF TimerFires
  <2>4. CASE Execute
    BY <2>1, <2>4 DEF Execute
  <2>5. CASE Resolve \/ Reject
    BY <2>1, <2>5 DEF Resolve, Reject, CountDropped, Release
  <2>6. CASE \E c \in Flusher : FlushPending(c) \/ CheckAgain(c) \/ Deadline(c)
    BY <2>1, <2>6 DEF FlushPending, CheckAgain, Deadline, Drain, serviceVars
  <2>7. CASE OnModuleDestroy
    BY <2>1, <2>7 DEF OnModuleDestroy
  <2>8. CASE OnApplicationShutdown \/ Done
    BY <2>1, <2>8 DEF OnApplicationShutdown, Done, logVars, serviceVars
  <2> QED BY <2>2, <2>3, <2>4, <2>5, <2>6, <2>7, <2>8 DEF Next
<1>2. Spec => []LogInv
  BY LogInvariant
<1> QED BY <1>1, <1>2, PTL DEF Spec, ShutdownIsOneWay

-----------------------------------------------------------------------------
(***************************************************************************)
(* StatsProjection, for any endpoints, resources, requests, overlapping    *)
(* runs and faults. The argument is a balance: a counter and the events    *)
(* that will raise it make the rows and the events that will lower it. A   *)
(* write moves rows and events alike, an event moves the counter and the   *)
(* events alike, and a count that no write has made old (Fresh) starts the *)
(* balance anew.                                                           *)
(***************************************************************************)

\* r has written something of this kind on e, and its event is still to come.
Owes(r, e, kind) == req[r].at = "emit" /\ ~OnEndpoint(req[r].task) /\ Scope(r) = <<e, kind>>

\* The requests whose events will move a count up or down.
Ups(e, kind) == {r \in Request : Owes(r, e, kind) /\ req[r].task.op = "create"}
Downs(e, kind) == {r \in Request : Owes(r, e, kind) /\ req[r].task.op = "delete"}
Raises(e) == {r \in Request : Owes(r, e, "user") /\ req[r].task.state = "active"}
Lowers(e) ==
    {r \in Request :
        /\ Owes(r, e, "user") /\ req[r].task.state # "active"
        /\ req[r].task.op # "create" /\ req[r].found = "active"}

\* A count and the events to come make what is in the table.
Told(e, kind, n) == n + Cardinality(Ups(e, kind)) = Count(e, kind) + Cardinality(Downs(e, kind))
ActiveTold(e, n) == n + Cardinality(Raises(e)) = CountActive(e) + Cardinality(Lowers(e))

Balanced ==
    \A e \in live :
        /\ <<e, "user">> \notin drifted => Told(e, "user", Stats(e).users) /\ ActiveTold(e, Stats(e).activeUsers)
        /\ <<e, "group">> \notin drifted => Told(e, "group", Stats(e).groups)
        /\ e \notin uncounted => Told(e, "resource", Stats(e).resources)

\* What a run has counted and no write has made old is what is in the table.
Fresh ==
    \A s \in Seeder : seed[s].at \in {"groups", "apply"} /\ seed[s].cur \in live =>
        /\ "user" \notin seed[s].mixed =>
              /\ seed[s].users = Count(seed[s].cur, "user") /\ seed[s].active = CountActive(seed[s].cur)
              /\ ~Outstanding(seed[s].cur, "user")
        /\ seed[s].at = "apply" /\ "group" \notin seed[s].mixed =>
              /\ seed[s].groups = Count(seed[s].cur, "group")
              /\ ~Outstanding(seed[s].cur, "group")

\* Where a request is.
Placed ==
    \A r \in Request :
        /\ req[r].at \in {"write", "emit"} /\ req[r].task.op \in {"set", "delete"} => req[r].found # "absent"
        /\ req[r].at = "emit" /\ req[r].task.op = "set" => req[r].found # req[r].task.state
        /\ req[r].at = "emit" /\ req[r].task.op = "drop" => req[r].task.on \notin live

FinitelyMany ==
    /\ IsFiniteSet({x \in Resource : rows[x] # "absent"})
    /\ IsFiniteSet({r \in Request : req[r].at = "emit"})

StatsInv == StatsTypeOK /\ Placed /\ FinitelyMany /\ Balanced /\ Fresh

-----------------------------------------------------------------------------

Has(S, x) == IF x \in S THEN 1 ELSE 0
There(state) == IF state # "absent" THEN 1 ELSE 0
Active(state) == IF state = "active" THEN 1 ELSE 0

\* A set that differs from a finite one in x at most.
LEMMA Toggle ==
    ASSUME NEW S, NEW T, NEW x, IsFiniteSet(S), T \ {x} = S \ {x}
    PROVE  /\ IsFiniteSet(T) /\ Cardinality(S) \in Nat /\ Cardinality(T) \in Nat
           /\ Cardinality(T) = Cardinality(S) + Has(T, x) - Has(S, x)
<1>1. IsFiniteSet(S \ {x}) /\ Cardinality(S \ {x}) = Cardinality(S) - Has(S, x)
  BY FS_RemoveElement, FS_CardinalityType DEF Has
<1>2. Cardinality(S) \in Nat
  BY FS_CardinalityType
<1>3. CASE x \in T
  <2>1. T = (S \ {x}) \cup {x} /\ x \notin S \ {x}
    BY <1>3
  <2>2. IsFiniteSet(T) /\ Cardinality(T) = Cardinality(S \ {x}) + 1
    BY <1>1, <2>1, FS_AddElement
  <2>3. QED
    BY <1>1, <1>2, <1>3, <2>2, FS_CardinalityType DEF Has
<1>4. CASE x \notin T
  <2>1. T = S \ {x}
    BY <1>4
  <2>2. QED
    BY <1>1, <1>2, <1>4, <2>1, FS_CardinalityType DEF Has
<1>5. QED
  BY <1>3, <1>4

\* The counts are numbers.
LEMMA CountsAreNumbers ==
    ASSUME FinitelyMany, NEW e, NEW kind
    PROVE  /\ IsFiniteSet(Rows(e, kind)) /\ Count(e, kind) \in Nat
           /\ IsFiniteSet({x \in Rows(e, "user") : rows[x] = "active"}) /\ CountActive(e) \in Nat
           /\ IsFiniteSet(Ups(e, kind)) /\ Cardinality(Ups(e, kind)) \in Nat
           /\ IsFiniteSet(Downs(e, kind)) /\ Cardinality(Downs(e, kind)) \in Nat
           /\ IsFiniteSet(Raises(e)) /\ Cardinality(Raises(e)) \in Nat
           /\ IsFiniteSet(Lowers(e)) /\ Cardinality(Lowers(e)) \in Nat
<1> DEFINE Present == {x \in Resource : rows[x] # "absent"}
           Owing == {r \in Request : req[r].at = "emit"}
<1>1. IsFiniteSet(Present) /\ IsFiniteSet(Owing)
  BY DEF FinitelyMany
<1>2. /\ Rows(e, kind) \in SUBSET Present
      /\ {x \in Rows(e, "user") : rows[x] = "active"} \in SUBSET Present
  BY DEF Rows
<1>3. /\ Ups(e, kind) \in SUBSET Owing /\ Downs(e, kind) \in SUBSET Owing
      /\ Raises(e) \in SUBSET Owing /\ Lowers(e) \in SUBSET Owing
  BY DEF Ups, Downs, Raises, Lowers, Owes
<1> HIDE DEF Present, Owing
<1>4. /\ IsFiniteSet(Rows(e, kind)) /\ IsFiniteSet({x \in Rows(e, "user") : rows[x] = "active"})
      /\ IsFiniteSet(Ups(e, kind)) /\ IsFiniteSet(Downs(e, kind))
      /\ IsFiniteSet(Raises(e)) /\ IsFiniteSet(Lowers(e))
  BY <1>1, <1>2, <1>3, FS_Subset
<1>5. QED
  BY <1>4, FS_CardinalityType DEF Count, CountActive

\* One row is written.
Sets(x, state) == rows' = [rows EXCEPT ![x] = state]

\* What the write of one row does to the counts of the table.
LEMMA OneRow ==
    ASSUME StatsTypeOK, FinitelyMany, NEW x \in Resource, NEW state \in RowState,
           Sets(x, state),
           NEW e, NEW kind
    PROVE  /\ Home[x] = e /\ Kind[x] = kind =>
                 Count(e, kind)' = Count(e, kind) + There(state) - There(rows[x])
           /\ ~(Home[x] = e /\ Kind[x] = kind) => Count(e, kind)' = Count(e, kind)
           /\ Home[x] = e /\ Kind[x] = "user" =>
                 CountActive(e)' = CountActive(e) + Active(state) - Active(rows[x])
           /\ ~(Home[x] = e /\ Kind[x] = "user") => CountActive(e)' = CountActive(e)
           /\ IsFiniteSet({y \in Resource : rows[y] # "absent"})'
<1> DEFINE Actives == {y \in Rows(e, "user") : rows[y] = "active"}
           Present == {y \in Resource : rows[y] # "absent"}
<1>1. rows'[x] = state /\ \A y \in Resource \ {x} : rows'[y] = rows[y]
  BY DEF StatsTypeOK, Sets
<1>2. /\ Rows(e, kind)' \ {x} = Rows(e, kind) \ {x}
      /\ (x \in Rows(e, kind)' <=> Home[x] = e /\ Kind[x] = kind /\ state # "absent")
      /\ (x \in Rows(e, kind) <=> Home[x] = e /\ Kind[x] = kind /\ rows[x] # "absent")
  BY <1>1 DEF Rows
<1>3. /\ Actives' \ {x} = Actives \ {x}
      /\ (x \in Actives' <=> Home[x] = e /\ Kind[x] = "user" /\ state = "active")
      /\ (x \in Actives <=> Home[x] = e /\ Kind[x] = "user" /\ rows[x] = "active")
  BY <1>1 DEF Rows
<1>4. Present' \ {x} = Present \ {x} /\ IsFiniteSet(Present)
  BY <1>1 DEF FinitelyMany
<1>5. IsFiniteSet(Rows(e, kind)) /\ IsFiniteSet(Actives)
  BY CountsAreNumbers
<1>6. Count(e, kind) = Cardinality(Rows(e, kind)) /\ CountActive(e) = Cardinality(Actives)
  BY DEF Count, CountActive
<1>7. Count(e, kind)' = Cardinality(Rows(e, kind)') /\ CountActive(e)' = Cardinality(Actives')
  BY DEF Count, CountActive
<1> HIDE DEF Actives
<1>8. Cardinality(Rows(e, kind)') = Cardinality(Rows(e, kind)) + Has(Rows(e, kind)', x) - Has(Rows(e, kind), x)
  BY <1>2, <1>5, Toggle
<1>9. Cardinality(Actives') = Cardinality(Actives) + Has(Actives', x) - Has(Actives, x)
  BY <1>3, <1>5, Toggle
<1>10. IsFiniteSet(Present')
  BY <1>4, Toggle
<1>11. Cardinality(Rows(e, kind)) \in Nat /\ Cardinality(Actives) \in Nat
  BY <1>5, FS_CardinalityType
<1>12. /\ Home[x] = e /\ Kind[x] = kind =>
            Cardinality(Rows(e, kind)') = Cardinality(Rows(e, kind)) + There(state) - There(rows[x])
       /\ ~(Home[x] = e /\ Kind[x] = kind) => Cardinality(Rows(e, kind)') = Cardinality(Rows(e, kind))
  BY <1>2, <1>8, <1>11 DEF Has, There
<1>13. /\ Home[x] = e /\ Kind[x] = "user" =>
            Cardinality(Actives') = Cardinality(Actives) + Active(state) - Active(rows[x])
       /\ ~(Home[x] = e /\ Kind[x] = "user") => Cardinality(Actives') = Cardinality(Actives)
  BY <1>3, <1>9, <1>11 DEF Has, Active
<1>14. QED
  BY <1>6, <1>7, <1>10, <1>12, <1>13

\* The only change of the requests is that r moves.
Moves(r) ==
    /\ req' \in [Request -> [task : Task, at : {"new", "write", "emit", "done"}, found : RowState]]
    /\ req'[r].task = req[r].task
    /\ \A q \in Request \ {r} : req'[q] = req[q]

\* What the move of one request does to the events to come.
LEMMA OneRequest ==
    ASSUME StatsTypeOK, FinitelyMany, NEW r \in Request, Moves(r),
           NEW e, NEW kind
    PROVE  /\ Cardinality(Ups(e, kind)') = Cardinality(Ups(e, kind)) + Has(Ups(e, kind)', r) - Has(Ups(e, kind), r)
           /\ Cardinality(Downs(e, kind)') = Cardinality(Downs(e, kind)) + Has(Downs(e, kind)', r) - Has(Downs(e, kind), r)
           /\ Cardinality(Raises(e)') = Cardinality(Raises(e)) + Has(Raises(e)', r) - Has(Raises(e), r)
           /\ Cardinality(Lowers(e)') = Cardinality(Lowers(e)) + Has(Lowers(e)', r) - Has(Lowers(e), r)
           /\ IsFiniteSet({q \in Request : req[q].at = "emit"})'
<1> DEFINE Owing == {q \in Request : req[q].at = "emit"}
<1>1. \A q \in Request \ {r} : \A d, k : Owes(q, d, k)' <=> Owes(q, d, k)
  BY DEF Owes, Scope, Moves
<1>2. /\ Ups(e, kind)' \ {r} = Ups(e, kind) \ {r}
      /\ Downs(e, kind)' \ {r} = Downs(e, kind) \ {r}
      /\ Raises(e)' \ {r} = Raises(e) \ {r}
      /\ Lowers(e)' \ {r} = Lowers(e) \ {r}
  BY <1>1 DEF Ups, Downs, Raises, Lowers, Moves
<1>3. Owing' \ {r} = Owing \ {r} /\ IsFiniteSet(Owing)
  BY DEF FinitelyMany, Moves
<1> HIDE DEF Owing
<1>4. IsFiniteSet(Owing')
  BY <1>3, Toggle
<1>5. IsFiniteSet(Ups(e, kind)) /\ IsFiniteSet(Downs(e, kind)) /\ IsFiniteSet(Raises(e)) /\ IsFiniteSet(Lowers(e))
  BY CountsAreNumbers
<1>6. Cardinality(Ups(e, kind)') = Cardinality(Ups(e, kind)) + Has(Ups(e, kind)', r) - Has(Ups(e, kind), r)
  BY <1>2, <1>5, Toggle
<1>7. Cardinality(Downs(e, kind)') = Cardinality(Downs(e, kind)) + Has(Downs(e, kind)', r) - Has(Downs(e, kind), r)
  BY <1>2, <1>5, Toggle
<1>8. Cardinality(Raises(e)') = Cardinality(Raises(e)) + Has(Raises(e)', r) - Has(Raises(e), r)
  BY <1>2, <1>5, Toggle
<1>9. Cardinality(Lowers(e)') = Cardinality(Lowers(e)) + Has(Lowers(e)', r) - Has(Lowers(e), r)
  BY <1>2, <1>5, Toggle
<1> USE DEF Owing
<1>10. QED
  BY <1>4, <1>6, <1>7, <1>8, <1>9

-----------------------------------------------------------------------------
(* What most steps leave alone                                              *)

\* A step changes no row of an endpoint and no event about it.
Untouched(e) ==
    /\ \A x \in Resource : Home[x] = e => rows'[x] = rows[x]
    /\ \A q \in Request : \A k \in Kinds :
        /\ Owes(q, e, k)' <=> Owes(q, e, k)
        /\ Owes(q, e, k) => req'[q] = req[q]

\* The rows and the events of an endpoint make its counts.
LEMMA SameCounts ==
    ASSUME NEW e, NEW kind \in Kinds, Untouched(e)
    PROVE  /\ Count(e, kind)' = Count(e, kind) /\ CountActive(e)' = CountActive(e)
           /\ Ups(e, kind)' = Ups(e, kind) /\ Downs(e, kind)' = Downs(e, kind)
           /\ Raises(e)' = Raises(e) /\ Lowers(e)' = Lowers(e)
           /\ Outstanding(e, kind)' <=> Outstanding(e, kind)
<1>1. Rows(e, kind)' = Rows(e, kind) /\ Rows(e, "user")' = Rows(e, "user")
  BY DEF Rows, Untouched
<1>2. {x \in Rows(e, "user") : rows[x] = "active"}' = {x \in Rows(e, "user") : rows[x] = "active"}
  BY DEF Rows, Untouched
<1>3. Count(e, kind)' = Count(e, kind) /\ CountActive(e)' = CountActive(e)
  BY <1>1, <1>2 DEF Count, CountActive
<1>4. Ups(e, kind)' = Ups(e, kind) /\ Downs(e, kind)' = Downs(e, kind)
  BY DEF Ups, Downs, Untouched
<1>5. Raises(e)' = Raises(e) /\ Lowers(e)' = Lowers(e)
  BY DEF Raises, Lowers, Kinds, Untouched
<1>6. Outstanding(e, kind)' <=> Outstanding(e, kind)
  <2>1. Outstanding(e, kind) <=> \E q \in Request : Owes(q, e, kind)
    BY DEF Outstanding, Owes
  <2>2. Outstanding(e, kind)' <=> \E q \in Request : Owes(q, e, kind)'
    BY DEF Outstanding, Owes
  <2>3. QED
    BY <2>1, <2>2 DEF Untouched
<1>7. QED
  BY <1>3, <1>4, <1>5, <1>6

\* A step that changes neither rows nor events of an endpoint in the database ...
Apart ==
    /\ live' \subseteq live
    /\ \A x \in Resource : Home[x] \in live' => rows'[x] = rows[x]
    /\ \A q \in Request :
        /\ req'[q].at = "emit" /\ ~OnEndpoint(req'[q].task) <=> req[q].at = "emit" /\ ~OnEndpoint(req[q].task)
        /\ req[q].at = "emit" /\ ~OnEndpoint(req[q].task) => req'[q] = req[q]

\* ... and one that does not change its counters either.
Aside ==
    /\ Apart
    /\ \A e \in live' : counters'[e] = counters[e]
    /\ drifted \subseteq drifted' /\ uncounted \subseteq uncounted'

LEMMA ApartCounts ==
    ASSUME Apart, NEW e \in live', NEW kind \in Kinds
    PROVE  /\ Count(e, kind)' = Count(e, kind) /\ CountActive(e)' = CountActive(e)
           /\ Ups(e, kind)' = Ups(e, kind) /\ Downs(e, kind)' = Downs(e, kind)
           /\ Raises(e)' = Raises(e) /\ Lowers(e)' = Lowers(e)
           /\ Outstanding(e, kind)' <=> Outstanding(e, kind)
<1>1. Untouched(e)
  BY DEF Untouched, Apart, Owes, Scope
<1>2. QED
  BY <1>1, SameCounts

LEMMA AsideKeeps ==
    ASSUME Balanced, Aside
    PROVE  Balanced'
<1> SUFFICES ASSUME NEW e \in live'
             PROVE  /\ <<e, "user">> \notin drifted' => Told(e, "user", Stats(e).users)' /\ ActiveTold(e, Stats(e).activeUsers)'
                    /\ <<e, "group">> \notin drifted' => Told(e, "group", Stats(e).groups)'
                    /\ e \notin uncounted' => Told(e, "resource", Stats(e).resources)'
  BY DEF Balanced
<1>1. e \in live /\ drifted \subseteq drifted' /\ uncounted \subseteq uncounted' /\ Apart
  BY DEF Aside, Apart
<1>2. \A k \in Kinds : /\ Count(e, k)' = Count(e, k)
                       /\ Ups(e, k)' = Ups(e, k) /\ Downs(e, k)' = Downs(e, k)
  BY <1>1, ApartCounts
<1>3. /\ CountActive(e)' = CountActive(e) /\ Raises(e)' = Raises(e) /\ Lowers(e)' = Lowers(e)
      /\ Stats(e)' = Stats(e)
  BY <1>1, ApartCounts DEF Kinds, Stats, Aside
<1>4. <<e, "user">> \notin drifted' => Told(e, "user", Stats(e).users)' /\ ActiveTold(e, Stats(e).activeUsers)'
  BY <1>1, <1>2, <1>3 DEF Balanced, Told, ActiveTold, Kinds
<1>5. <<e, "group">> \notin drifted' => Told(e, "group", Stats(e).groups)'
  BY <1>1, <1>2, <1>3 DEF Balanced, Told, Kinds
<1>6. e \notin uncounted' => Told(e, "resource", Stats(e).resources)'
  BY <1>1, <1>2, <1>3 DEF Balanced, Told, Kinds
<1>7. QED
  BY <1>4, <1>5, <1>6

\* The same of one run.
FreshRun(q) ==
    q.at \in {"groups", "apply"} /\ q.cur \in live =>
        /\ "user" \notin q.mixed =>
              /\ q.users = Count(q.cur, "user") /\ q.active = CountActive(q.cur)
              /\ ~Outstanding(q.cur, "user")
        /\ q.at = "apply" /\ "group" \notin q.mixed =>
              q.groups = Count(q.cur, "group") /\ ~Outstanding(q.cur, "group")

LEMMA FreshIs == Fresh <=> \A s \in Seeder : FreshRun(seed[s])
BY DEF Fresh, FreshRun

LEMMA ApartFresh ==
    ASSUME Apart, NEW q, FreshRun(q)
    PROVE  FreshRun(q)'
<1> SUFFICES ASSUME q.cur \in live' PROVE FreshRun(q)'
  BY DEF FreshRun
<1>1. PICK e : e = q.cur
  OBVIOUS
<1>2. e \in live
  BY <1>1 DEF Apart
<1>3. /\ \A k \in Kinds : Count(e, k)' = Count(e, k) /\ (Outstanding(e, k)' <=> Outstanding(e, k))
      /\ CountActive(e)' = CountActive(e)
  BY <1>1, ApartCounts DEF Kinds
<1>4. QED
  BY <1>1, <1>2, <1>3 DEF FreshRun, Kinds

LEMMA ApartKeepsFresh ==
    ASSUME Apart, Fresh,
           \A s \in Seeder : seed'[s] = seed[s] \/ seed'[s].at \notin {"groups", "apply"}
    PROVE  Fresh'
<1>1. SUFFICES ASSUME NEW s \in Seeder PROVE FreshRun(seed[s])'
  BY DEF Fresh, FreshRun
<1>2. CASE seed'[s] = seed[s]
  <2>1. PICK q : q = seed[s]
    OBVIOUS
  <2>2. FreshRun(q)
    BY <2>1, FreshIs
  <2>3. FreshRun(q)'
    BY <2>2, ApartFresh
  <2>4. QED
    BY <1>2, <2>1, <2>3 DEF FreshRun
<1>3. CASE seed'[s].at \notin {"groups", "apply"}
  BY <1>3 DEF FreshRun
<1>4. QED
  BY <1>1, <1>2, <1>3

-----------------------------------------------------------------------------
(* The shape of the state                                                   *)

\* There is an endpoint to go on with: the one with the fewest newer ones.
LEMMA NewestIsLeft ==
    ASSUME NEW left \in SUBSET Endpoint, left # {}
    PROVE  Newest(left) \in left
<1> DEFINE Newer(e) == {d \in left : Created[d] > Created[e]}
           Newers == {Newer(e) : e \in left}
<1>1. IsFiniteSet(left)
  BY FiniteAssumption, FS_Subset
<1>2. IsWellFoundedOn(StrictSubsetOrdering(left), FiniteSubsetsOf(left))
  BY FS_StrictSubsetOrderingWellFounded
<1>3. FiniteSubsetsOf(left) = SUBSET left
  BY <1>1, FS_FiniteSubsetsOfFinite
<1>4. Newers \subseteq FiniteSubsetsOf(left) /\ Newers # {}
  <2>1. PICK e \in left : TRUE
    OBVIOUS
  <2>2. Newer(e) \in Newers
    BY <2>1
  <2>3. \A T \in Newers : T \in SUBSET left
    OBVIOUS
  <2> HIDE DEF Newers
  <2>4. QED
    BY <1>3, <2>2, <2>3
<1> HIDE DEF Newers
<1>5. PICK T \in Newers : \A U \in Newers : ~ (<<U, T>> \in StrictSubsetOrdering(left))
  BY <1>2, <1>4, WFMin
<1> USE DEF Newers
<1>6. PICK e \in left : T = Newer(e)
  BY <1>5
<1>7. ASSUME NEW d \in left PROVE Created[d] <= Created[e]
  <2>1. SUFFICES ASSUME Created[d] > Created[e] PROVE FALSE
    BY StatsAssumption
  <2>2. \A f \in Newer(d) : f \in Newer(e)
    BY <2>1, StatsAssumption
  <2>3. d \in Newer(e) /\ d \notin Newer(d)
    BY <2>1, StatsAssumption
  <2>4. <<Newer(d), T>> \in StrictSubsetOrdering(left)
    BY <1>6, <2>2, <2>3 DEF StrictSubsetOrdering
  <2>5. QED
    BY <1>5, <2>4
<1>8. QED
  BY <1>7 DEF Newest

\* What a request may ask for.
LEMMA Asks ==
    ASSUME StatsTypeOK, NEW r \in Request
    PROVE  /\ req[r].task \in Task /\ req[r].found \in RowState
           /\ req[r].task.state \in RowState
           /\ req[r].task.op \in {"create", "set", "delete", "drop", "update"}
           /\ OnEndpoint(req[r].task) <=> req[r].task.op \in {"drop", "update"}
           /\ ~OnEndpoint(req[r].task) =>
                 /\ req[r].task.on \in Resource
                 /\ Home[req[r].task.on] \in Endpoint /\ Kind[req[r].task.on] \in Kinds
                 /\ req[r].task.state = "absent" <=> req[r].task.op = "delete"
                 /\ req[r].task.op = "set" => Kind[req[r].task.on] = "user"
           /\ OnEndpoint(req[r].task) => req[r].task.on \in Endpoint
<1>1. req[r].task \in Task /\ req[r].found \in RowState
  BY DEF StatsTypeOK
<1>2. PICK t \in Task : t = req[r].task
  BY <1>1
<1>3. t.state \in RowState /\ (~OnEndpoint(t) => (t.state = "absent" <=> t.op = "delete"))
  BY StatsAssumption
<1>4. \/ t.op \in {"create", "delete"} /\ t.on \in Resource
      \/ t.op = "set" /\ t.on \in Resource /\ Kind[t.on] = "user"
      \/ OnEndpoint(t) /\ t.on \in Endpoint
  BY StatsAssumption
<1>7. OnEndpoint(t) <=> t.op \in {"drop", "update"}
  BY DEF OnEndpoint
<1>5. t.on \in Resource => Home[t.on] \in Endpoint /\ Kind[t.on] \in Kinds
  BY StatsAssumption DEF Kinds
<1>6. QED
  BY <1>1, <1>2, <1>3, <1>4, <1>5, <1>7

Numbers == {"users", "activeUsers", "groups", "resources"}

LEMMA StatsAreCounters ==
    ASSUME StatsTypeOK, NEW e \in Endpoint
    PROVE  Stats(e) \in Counter
BY DEF StatsTypeOK, Stats, Zero, Counter

\* A run goes on with the endpoints that are left, or ends.
LEMMA GoOnMoves ==
    ASSUME StatsTypeOK, NEW s \in Seeder, NEW left \in SUBSET Endpoint, GoOn(s, left)
    PROVE  /\ seed' \in [Seeder -> Run]
           /\ \A q \in Seeder \ {s} : seed'[q] = seed[q]
           /\ seed'[s].at \in {"idle", "users"}
           /\ seed'[s].at = "users" => seed'[s].left # {}
           /\ startup' \in {"boot", "seeding", "up"}
<1> DEFINE next == IF left = {} THEN Resting ELSE [Resting EXCEPT !.at = "users", !.left = left]
<1>1. seed' = [seed EXCEPT ![s] = next] /\ startup' \in {"up", "seeding"}
  BY DEF GoOn
<1>2. next \in Run /\ next.at \in {"idle", "users"} /\ (next.at = "users" => next.left # {})
  BY DEF Run, Resting, At
<1> HIDE DEF next
<1>3. seed'[s] = next /\ (\A q \in Seeder \ {s} : seed'[q] = seed[q]) /\ seed' \in [Seeder -> Run]
  BY <1>1, <1>2 DEF StatsTypeOK
<1>4. QED
  BY <1>1, <1>2, <1>3

-----------------------------------------------------------------------------
(* The requests                                                             *)

LEMMA MovesTyped ==
    ASSUME StatsTypeOK, NEW r \in Request, NEW at \in {"new", "write", "emit", "done"}, NEW found \in RowState,
           \/ req' = [req EXCEPT ![r].at = at, ![r].found = found]
           \/ req' = [req EXCEPT ![r].at = at] /\ found = req[r].found
    PROVE  Moves(r) /\ req'[r].at = at /\ req'[r].found = found
BY DEF StatsTypeOK, Moves

\* A request that sends no event now, and had none to send.
LEMMA MovesAside ==
    ASSUME StatsInv, NEW r \in Request, Moves(r),
           ~OnEndpoint(req[r].task) => req[r].at # "emit" /\ req'[r].at # "emit",
           live' \subseteq live,
           \A e \in live' : counters'[e] = counters[e],
           \A x \in Resource : Home[x] \in live' => rows'[x] = rows[x],
           drifted \subseteq drifted', uncounted \subseteq uncounted',
           \A s \in Seeder : seed'[s] = seed[s] \/ seed'[s].at \notin {"groups", "apply"}
    PROVE  Balanced' /\ Fresh'
<1>1. Apart /\ Aside
  BY DEF Apart, Aside, Moves
<1>2. QED
  BY <1>1, AsideKeeps, ApartKeepsFresh DEF StatsInv

\* Few requests have an event to send.
LEMMA MovesFinite ==
    ASSUME StatsInv, NEW r \in Request, Moves(r)
    PROVE  IsFiniteSet({q \in Request : req[q].at = "emit"})'
BY OneRequest DEF StatsInv

LEMMA EndsTyped ==
    ASSUME StatsTypeOK, NEW o \in Outcome, Ends(o)
    PROVE  faults' \in 0..MaxFaults
<1>1. faults \in 0..MaxFaults /\ MaxFaults \in Nat
  BY StatsAssumption DEF StatsTypeOK
<1>2. (o # "answered" => faults < MaxFaults) /\ faults' = IF o = "answered" THEN faults ELSE faults + 1
  BY DEF Ends
<1>3. QED
  BY <1>1, <1>2

LEMMA FindKeeps ==
    ASSUME StatsInv, NEW r \in Request, Find(r)
    PROVE  StatsInv'
<1> DEFINE task == req[r].task
           finds == task.op \in {"set", "delete"}
<1>1. PICK o \in {"answered", "failed"} :
          /\ Ends(o)
          /\ req' = [req EXCEPT
               ![r].at = IF o = "failed" \/ ~Finds(task) THEN "done" ELSE "write",
               ![r].found = IF finds THEN rows[task.on] ELSE "absent"]
  BY DEF Find
<1>2. req[r].at = "new" /\ UNCHANGED <<live, known, rows, counters, startup, seed, drifted, uncounted, lingering>>
  BY DEF Find, history
<1>3. StatsTypeOK /\ Placed /\ FinitelyMany
  BY DEF StatsInv
<1>4. finds => task.on \in Resource
  BY <1>3, Asks
<1>5. PICK at \in {"write", "done"}, found \in RowState :
          /\ at = IF o = "failed" \/ ~Finds(task) THEN "done" ELSE "write"
          /\ found = IF finds THEN rows[task.on] ELSE "absent"
  BY <1>3, <1>4 DEF StatsTypeOK, RowState
<1>6. Moves(r) /\ req'[r].at = at /\ req'[r].found = found
  <2>1. req' = [req EXCEPT ![r].at = at, ![r].found = found]
    BY <1>1, <1>5
  <2>2. at \in {"new", "write", "emit", "done"}
    OBVIOUS
  <2>3. QED
    BY <1>3, <2>1, <2>2, MovesTyped
<1>7. StatsTypeOK'
  <2>1. faults' \in 0..MaxFaults
    BY <1>1, <1>3, EndsTyped DEF Outcome
  <2>2. QED
    BY <1>2, <1>3, <1>6, <2>1 DEF StatsTypeOK, Moves
<1>8. Placed'
  BY <1>2, <1>3, <1>5, <1>6 DEF Placed, Moves, Finds
<1>9. FinitelyMany'
  BY <1>2, <1>3, <1>6, MovesFinite DEF FinitelyMany
<1>10. Balanced' /\ Fresh'
  BY <1>2, <1>5, <1>6, MovesAside
<1>11. QED
  BY <1>7, <1>8, <1>9, <1>10 DEF StatsInv

LEMMA DropKeeps ==
    ASSUME StatsInv, NEW r \in Request, Drop(r)
    PROVE  StatsInv'
<1>1. PICK e : e = req[r].task.on
  OBVIOUS
<1>2. PICK o \in Outcome :
          /\ Ends(o)
          /\ IF o = "failed" \/ e \notin live
             THEN req' = [req EXCEPT ![r].at = "done"] /\ UNCHANGED <<live, rows, lingering>>
             ELSE /\ req' = [req EXCEPT ![r].at = IF o = "answered" THEN "emit" ELSE "done"]
                  /\ live' = live \ {e}
                  /\ rows' = [x \in Resource |-> IF Home[x] = e THEN "absent" ELSE rows[x]]
                  /\ lingering' = IF o = "lost" THEN lingering \cup {e} ELSE lingering
  BY <1>1 DEF Drop
<1>3. /\ req[r].at = "write" /\ req[r].task.op = "drop"
      /\ UNCHANGED <<known, counters, startup, seed, drifted, uncounted>>
  BY DEF Drop
<1>4. StatsTypeOK /\ Placed /\ FinitelyMany
  BY DEF StatsInv
<1>5. PICK at \in {"emit", "done"} :
          /\ req' = [req EXCEPT ![r].at = at]
          /\ at = "emit" => live' = live \ {e}
          /\ live' \subseteq live
          /\ \A x \in Resource : rows'[x] = rows[x] \/ (e \notin live' /\ Home[x] = e /\ rows'[x] = "absent")
          /\ rows' \in [Resource -> RowState]
          /\ lingering' = lingering \/ (lingering' = lingering \cup {e} /\ e \in live \ live')
  BY <1>2, <1>4 DEF StatsTypeOK, RowState
<1>13. lingering' \subseteq known' \ live'
  BY <1>3, <1>4, <1>5 DEF StatsTypeOK
<1>6. Moves(r) /\ req'[r].at = at /\ req'[r].found = req[r].found
  BY <1>4, <1>5, MovesTyped, Asks
<1>7. StatsTypeOK'
  <2>1. faults' \in 0..MaxFaults
    BY <1>2, <1>4, EndsTyped
  <2>2. QED
    BY <1>3, <1>4, <1>5, <1>6, <1>13, <2>1 DEF StatsTypeOK, Moves
<1>8. Placed'
  BY <1>1, <1>3, <1>4, <1>5, <1>6 DEF Placed, Moves
<1>9. FinitelyMany'
  <2>1. {x \in Resource : rows'[x] # "absent"} \in SUBSET {x \in Resource : rows[x] # "absent"}
    BY <1>5
  <2>2. IsFiniteSet({x \in Resource : rows[x] # "absent"})
    BY <1>4 DEF FinitelyMany
  <2>3. IsFiniteSet({x \in Resource : rows'[x] # "absent"})
    BY <2>1, <2>2, FS_Subset
  <2>4. QED
    BY <1>6, <2>3, MovesFinite DEF FinitelyMany
<1>10. \A x \in Resource : Home[x] \in live' => rows'[x] = rows[x]
  BY <1>5
<1>11. Balanced' /\ Fresh'
  BY <1>3, <1>5, <1>6, <1>10, MovesAside, Asks, <1>4
<1>12. QED
  BY <1>7, <1>8, <1>9, <1>11 DEF StatsInv

LEMMA ForgetKeeps ==
    ASSUME StatsInv, NEW r \in Request, Forget(r)
    PROVE  StatsInv'
<1>1. /\ req[r].at = "emit" /\ req[r].task.op = "drop"
      /\ known' = known \ {req[r].task.on} /\ lingering' = lingering \ {req[r].task.on}
      /\ req' = [req EXCEPT ![r].at = "done"]
      /\ UNCHANGED <<live, rows, counters, startup, seed, faults, drifted, uncounted>>
  BY DEF Forget
<1>2. StatsTypeOK /\ Placed /\ FinitelyMany
  BY DEF StatsInv
<1>3. Moves(r) /\ req'[r].at = "done" /\ req'[r].found = req[r].found
  BY <1>1, <1>2, MovesTyped, Asks
<1>4. live' \subseteq known' /\ lingering' \subseteq known' \ live'
  BY <1>1, <1>2 DEF Placed, StatsTypeOK
<1>5. StatsTypeOK'
  BY <1>1, <1>2, <1>3, <1>4 DEF StatsTypeOK, Moves
<1>6. Placed'
  BY <1>1, <1>2, <1>3 DEF Placed, Moves
<1>7. FinitelyMany'
  BY <1>1, <1>2, <1>3, MovesFinite DEF FinitelyMany
<1>8. OnEndpoint(req[r].task)
  BY <1>1 DEF OnEndpoint
<1>9. Balanced' /\ Fresh'
  BY <1>1, <1>3, <1>8, MovesAside
<1>10. QED
  BY <1>5, <1>6, <1>7, <1>9 DEF StatsInv

LEMMA UpdateKeeps ==
    ASSUME StatsInv, NEW r \in Request, Update(r)
    PROVE  StatsInv'
<1>1. PICK o \in Outcome, at \in {"emit", "done"} : Ends(o) /\ req' = [req EXCEPT ![r].at = at]
  BY DEF Update
<1>2. /\ req[r].at = "write" /\ req[r].task.op = "update"
      /\ UNCHANGED <<live, known, rows, counters, startup, seed, drifted, uncounted, lingering>>
  BY DEF Update, history
<1>3. StatsTypeOK /\ Placed /\ FinitelyMany
  BY DEF StatsInv
<1>4. Moves(r) /\ req'[r].at = at /\ req'[r].found = req[r].found
  BY <1>1, <1>3, MovesTyped, Asks
<1>5. StatsTypeOK'
  <2>1. faults' \in 0..MaxFaults
    BY <1>1, <1>3, EndsTyped
  <2>2. QED
    BY <1>2, <1>3, <1>4, <2>1 DEF StatsTypeOK, Moves
<1>6. Placed'
  BY <1>2, <1>3, <1>4 DEF Placed, Moves
<1>7. FinitelyMany'
  BY <1>2, <1>3, <1>4, MovesFinite DEF FinitelyMany
<1>8. OnEndpoint(req[r].task)
  BY <1>2 DEF OnEndpoint
<1>9. Balanced' /\ Fresh'
  BY <1>2, <1>4, <1>8, MovesAside
<1>10. QED
  BY <1>5, <1>6, <1>7, <1>9 DEF StatsInv

LEMMA RememberKeeps ==
    ASSUME StatsInv, NEW r \in Request, Remember(r)
    PROVE  StatsInv'
<1>1. PICK e : e = req[r].task.on
  OBVIOUS
<1>2. /\ req[r].at = "emit" /\ req[r].task.op = "update"
      /\ known' = known \cup {e}
      /\ lingering' = IF e \in live THEN lingering ELSE lingering \cup {e}
      /\ req' = [req EXCEPT ![r].at = "done"]
      /\ UNCHANGED <<live, rows, counters, startup, seed, faults, drifted, uncounted>>
  BY <1>1 DEF Remember
<1>3. StatsTypeOK /\ Placed /\ FinitelyMany
  BY DEF StatsInv
<1>4. OnEndpoint(req[r].task) /\ e \in Endpoint
  BY <1>1, <1>2, <1>3, Asks DEF OnEndpoint
<1>5. Moves(r) /\ req'[r].at = "done" /\ req'[r].found = req[r].found
  BY <1>2, <1>3, MovesTyped, Asks
<1>6. live' \subseteq known' /\ known' \subseteq Endpoint /\ lingering' \subseteq known' \ live'
  BY <1>2, <1>3, <1>4 DEF StatsTypeOK
<1>7. StatsTypeOK'
  BY <1>2, <1>3, <1>5, <1>6 DEF StatsTypeOK, Moves
<1>8. Placed'
  BY <1>2, <1>3, <1>5 DEF Placed, Moves
<1>9. FinitelyMany'
  BY <1>2, <1>3, <1>5, MovesFinite DEF FinitelyMany
<1>10. Balanced' /\ Fresh'
  BY <1>2, <1>4, <1>5, MovesAside
<1>11. QED
  BY <1>7, <1>8, <1>9, <1>10 DEF StatsInv

-----------------------------------------------------------------------------
(* Writes                                                                   *)

\* The write of r to a row x, with its event to come or not.
Writes(r, x, at) ==
    /\ req[r].at = "write" /\ ~OnEndpoint(req[r].task) /\ x = req[r].task.on
    /\ Accepted(req[r].task)
    /\ Sets(x, req[r].task.state)
    /\ Moves(r) /\ req'[r].at = at /\ at \in {"emit", "done"} /\ req'[r].found = req[r].found

\* The other counts of the table, and the events to come for them, stay.
LEMMA WriteElsewhere ==
    ASSUME StatsInv, NEW r \in Request, NEW x \in Resource, NEW at, Writes(r, x, at),
           NEW d, NEW kind \in Kinds, ~(d = Home[x] /\ kind = Kind[x])
    PROVE  /\ Count(d, kind)' = Count(d, kind)
           /\ Ups(d, kind)' = Ups(d, kind) /\ Downs(d, kind)' = Downs(d, kind)
           /\ kind = "user" => /\ CountActive(d)' = CountActive(d)
                              /\ Raises(d)' = Raises(d) /\ Lowers(d)' = Lowers(d)
           /\ Outstanding(d, kind)' <=> Outstanding(d, kind)
<1>1. StatsTypeOK /\ FinitelyMany /\ req[r].task.state \in RowState
  BY Asks DEF StatsInv
<1>2. Sets(x, req[r].task.state)
  BY DEF Writes
<1>3. /\ Count(d, kind)' = Count(d, kind)
      /\ kind = "user" => CountActive(d)' = CountActive(d)
  <2>1. Count(d, kind)' = Count(d, kind)
    <3>1. ~(Home[x] = d /\ Kind[x] = kind)
      OBVIOUS
    <3>2. ~(Home[x] = d /\ Kind[x] = kind) => Count(d, kind)' = Count(d, kind)
      BY <1>1, <1>2, OneRow, ZenonT(30)
    <3>3. QED
      BY <3>1, <3>2
  <2>2. ASSUME kind = "user" PROVE CountActive(d)' = CountActive(d)
    BY <1>1, <1>2, <2>2, OneRow
  <2>3. QED
    BY <2>1, <2>2
<1>4. \A q \in Request : Owes(q, d, kind)' <=> Owes(q, d, kind)
  BY DEF Owes, Scope, Writes, Moves
<1>5. \A q \in Request : Owes(q, d, kind) => req'[q] = req[q]
  BY DEF Owes, Writes, Moves
<1>6. Ups(d, kind)' = Ups(d, kind) /\ Downs(d, kind)' = Downs(d, kind)
  BY <1>4, <1>5 DEF Ups, Downs
<1>7. kind = "user" => Raises(d)' = Raises(d) /\ Lowers(d)' = Lowers(d)
  BY <1>4, <1>5 DEF Raises, Lowers
<1>8. Outstanding(d, kind)' <=> Outstanding(d, kind)
  <2>1. Outstanding(d, kind) <=> \E q \in Request : Owes(q, d, kind)
    BY DEF Outstanding, Owes
  <2>2. Outstanding(d, kind)' <=> \E q \in Request : Owes(q, d, kind)'
    BY DEF Outstanding, Owes
  <2>3. QED
    BY <1>4, <2>1, <2>2
<1>9. QED
  BY <1>3, <1>6, <1>7, <1>8

\* An answered write of rows of a kind moves the count and the events alike.
LEMMA WriteTold ==
    ASSUME StatsInv, NEW r \in Request, NEW x \in Resource, NEW at, Writes(r, x, at),
           req[r].task.op \in {"create", "delete"} => at = "emit",
           NEW d, NEW kind \in Kinds, d = Home[x], kind = Kind[x],
           NEW n \in Nat, Told(d, kind, n)
    PROVE  Told(d, kind, n)'
<1> DEFINE task == req[r].task
<1>1. StatsTypeOK /\ FinitelyMany /\ task.state \in RowState
  BY Asks DEF StatsInv
<1>2. Sets(x, task.state)
  BY DEF Writes
<1>3. Count(d, kind)' = Count(d, kind) + There(task.state) - There(rows[x])
  BY <1>1, <1>2, OneRow
<1>4. /\ task.op \in {"create", "set", "delete"}
      /\ task.state = "absent" <=> task.op = "delete"
      /\ rows[x] = "absent" <=> task.op = "create"
  BY <1>1, Asks DEF Writes, Accepted
<1>5. Moves(r)
  BY DEF Writes
<1>6. /\ Cardinality(Ups(d, kind)') = Cardinality(Ups(d, kind)) + Has(Ups(d, kind)', r) - Has(Ups(d, kind), r)
      /\ Cardinality(Downs(d, kind)') = Cardinality(Downs(d, kind)) + Has(Downs(d, kind)', r) - Has(Downs(d, kind), r)
  BY <1>1, <1>5, OneRequest
<1>7. r \notin Ups(d, kind) /\ r \notin Downs(d, kind)
  BY DEF Ups, Downs, Owes, Writes
<1>8. /\ (r \in Ups(d, kind))' <=> task.op = "create"
      /\ (r \in Downs(d, kind))' <=> task.op = "delete"
  BY <1>4 DEF Ups, Downs, Owes, Scope, Writes, Moves
<1>9. /\ Cardinality(Ups(d, kind)) \in Nat /\ Cardinality(Downs(d, kind)) \in Nat /\ Count(d, kind) \in Nat
  BY <1>1, CountsAreNumbers
<1>10. n + Cardinality(Ups(d, kind)) = Count(d, kind) + Cardinality(Downs(d, kind))
  BY DEF Told
<1>11. There(task.state) + Has(Downs(d, kind)', r) = There(rows[x]) + Has(Ups(d, kind)', r)
  BY <1>4, <1>8 DEF Has, There
<1>12. Has(Ups(d, kind), r) = 0 /\ Has(Downs(d, kind), r) = 0
  BY <1>7 DEF Has
<1>13. /\ Has(Ups(d, kind)', r) \in Nat /\ Has(Downs(d, kind)', r) \in Nat
       /\ There(task.state) \in Nat /\ There(rows[x]) \in Nat
  BY DEF Has, There
<1>14. n + Cardinality(Ups(d, kind)') = Count(d, kind)' + Cardinality(Downs(d, kind)')
  BY <1>3, <1>6, <1>9, <1>10, <1>11, <1>12, <1>13
<1>15. QED
  BY <1>14 DEF Told

\* So does the write of a user the status of which is still the one found.
LEMMA WriteActiveTold ==
    ASSUME StatsInv, NEW r \in Request, NEW x \in Resource, NEW at, Writes(r, x, at),
           NEW d, d = Home[x], Kind[x] = "user",
           req[r].task.op # "create" => req[r].found = rows[x],
           at = "emit" <=> (req[r].task.op = "set" => req[r].task.state # req[r].found),
           NEW n \in Nat, ActiveTold(d, n)
    PROVE  ActiveTold(d, n)'
<1> DEFINE task == req[r].task
<1>1. StatsTypeOK /\ FinitelyMany /\ task.state \in RowState
  BY Asks DEF StatsInv
<1>2. Sets(x, task.state)
  BY DEF Writes
<1>3. CountActive(d)' = CountActive(d) + Active(task.state) - Active(rows[x])
  BY <1>1, <1>2, OneRow
<1>4. /\ task.op \in {"create", "set", "delete"}
      /\ task.state = "absent" <=> task.op = "delete"
      /\ rows[x] = "absent" <=> task.op = "create"
  BY <1>1, Asks DEF Writes, Accepted
<1>5. Moves(r)
  BY DEF Writes
<1>6. /\ Cardinality(Raises(d)') = Cardinality(Raises(d)) + Has(Raises(d)', r) - Has(Raises(d), r)
      /\ Cardinality(Lowers(d)') = Cardinality(Lowers(d)) + Has(Lowers(d)', r) - Has(Lowers(d), r)
  BY <1>1, <1>5, OneRequest
<1>7. r \notin Raises(d) /\ r \notin Lowers(d)
  BY DEF Raises, Lowers, Owes, Writes
<1>8. /\ (r \in Raises(d))' <=> at = "emit" /\ task.state = "active"
      /\ (r \in Lowers(d))' <=> /\ at = "emit" /\ task.state # "active"
                               /\ task.op # "create" /\ req[r].found = "active"
  BY <1>4 DEF Raises, Lowers, Owes, Scope, Writes, Moves
<1>9. /\ Cardinality(Raises(d)) \in Nat /\ Cardinality(Lowers(d)) \in Nat /\ CountActive(d) \in Nat
  BY <1>1, CountsAreNumbers
<1>10. n + Cardinality(Raises(d)) = CountActive(d) + Cardinality(Lowers(d))
  BY DEF ActiveTold
<1>11. Active(task.state) + Has(Lowers(d)', r) = Active(rows[x]) + Has(Raises(d)', r)
  BY <1>4, <1>8 DEF Has, Active
<1>12. Has(Raises(d), r) = 0 /\ Has(Lowers(d), r) = 0
  BY <1>7 DEF Has
<1>13. /\ Has(Raises(d)', r) \in Nat /\ Has(Lowers(d)', r) \in Nat
       /\ Active(task.state) \in Nat /\ Active(rows[x]) \in Nat
  BY DEF Has, Active
<1>14. n + Cardinality(Raises(d)') = CountActive(d)' + Cardinality(Lowers(d)')
  BY <1>3, <1>6, <1>9, <1>10, <1>11, <1>12, <1>13
<1>15. QED
  BY <1>14 DEF ActiveTold

\* The write is one that history holds against the counts of its kind.
Marked(x) ==
    /\ Kind[x] = "resource" => Home[x] \in uncounted'
    /\ Kind[x] # "resource" => <<Home[x], Kind[x]>> \in drifted'

LEMMA WriteBalances ==
    ASSUME StatsInv, NEW r \in Request, NEW x \in Resource, NEW at, Writes(r, x, at),
           live' = live, counters' = counters, drifted \subseteq drifted', uncounted \subseteq uncounted',
           \/ Marked(x)
           \/ /\ Kind[x] = "user" /\ req[r].task.op # "create" => req[r].found = rows[x]
              /\ at = "emit" <=> (req[r].task.op = "set" => req[r].task.state # req[r].found)
    PROVE  Balanced'
<1>1. StatsTypeOK /\ Balanced
  BY DEF StatsInv
<1>2. SUFFICES ASSUME NEW e \in live
               PROVE  /\ <<e, "user">> \notin drifted' => Told(e, "user", Stats(e).users)' /\ ActiveTold(e, Stats(e).activeUsers)'
                      /\ <<e, "group">> \notin drifted' => Told(e, "group", Stats(e).groups)'
                      /\ e \notin uncounted' => Told(e, "resource", Stats(e).resources)'
  BY DEF Balanced
<1>3. Stats(e)' = Stats(e) /\ Stats(e) \in Counter
  BY <1>1, StatsAreCounters DEF Stats, StatsTypeOK
<1>4. PICK c \in Counter : c = Stats(e) /\ c = Stats(e)'
  BY <1>3
<1>5. ASSUME NEW kind \in Kinds, NEW n \in Nat, Told(e, kind, n),
             e = Home[x] /\ kind = Kind[x] => ~Marked(x)
      PROVE  Told(e, kind, n)'
  <2>1. CASE e = Home[x] /\ kind = Kind[x]
    <3>1. req[r].task.op \in {"create", "delete"} => at = "emit"
      BY <1>5, <2>1
    <3>2. QED
      BY <1>5, <2>1, <3>1, WriteTold
  <2>2. CASE ~(e = Home[x] /\ kind = Kind[x])
    BY <1>5, <2>2, WriteElsewhere DEF Told
  <2>3. QED
    BY <2>1, <2>2
<1>6. ASSUME NEW n \in Nat, ActiveTold(e, n), e = Home[x] /\ Kind[x] = "user" => ~Marked(x)
      PROVE  ActiveTold(e, n)'
  <2>1. CASE e = Home[x] /\ Kind[x] = "user"
    BY <1>6, <2>1, WriteActiveTold
  <2>2. CASE ~(e = Home[x] /\ Kind[x] = "user")
    <3>1. CountActive(e)' = CountActive(e) /\ Raises(e)' = Raises(e) /\ Lowers(e)' = Lowers(e)
      BY <2>2, WriteElsewhere DEF Kinds
    <3>2. QED
      BY <1>6, <3>1 DEF ActiveTold
  <2>3. QED
    BY <2>1, <2>2
<1>7. /\ <<e, "user">> \notin drifted' =>
            /\ Told(e, "user", c.users) /\ ActiveTold(e, c.activeUsers)
            /\ e = Home[x] /\ Kind[x] = "user" => ~Marked(x)
      /\ <<e, "group">> \notin drifted' =>
            /\ Told(e, "group", c.groups)
            /\ e = Home[x] /\ Kind[x] = "group" => ~Marked(x)
      /\ e \notin uncounted' =>
            /\ Told(e, "resource", c.resources)
            /\ e = Home[x] /\ Kind[x] = "resource" => ~Marked(x)
  BY <1>1, <1>4 DEF Balanced, Marked
<1>8. c.users \in Nat /\ c.activeUsers \in Nat /\ c.groups \in Nat /\ c.resources \in Nat
  BY DEF Counter
<1>9. /\ <<e, "user">> \notin drifted' => Told(e, "user", c.users)' /\ ActiveTold(e, c.activeUsers)'
      /\ <<e, "group">> \notin drifted' => Told(e, "group", c.groups)'
      /\ e \notin uncounted' => Told(e, "resource", c.resources)'
  BY <1>5, <1>6, <1>7, <1>8 DEF Kinds
<1>10. QED
  BY <1>4, <1>9 DEF Told, ActiveTold

\* The counts a write has made old are known to be old.
LEMMA WriteKeepsFresh ==
    ASSUME StatsInv, NEW r \in Request, NEW x \in Resource, NEW at, Writes(r, x, at),
           live' = live, Mix(<<Home[x], Kind[x]>>)
    PROVE  Fresh'
<1>1. SUFFICES ASSUME NEW s \in Seeder PROVE FreshRun(seed[s])'
  BY DEF Fresh, FreshRun
<1>2. PICK q \in Run, w \in Run :
          /\ q = seed[s] /\ w = seed'[s] /\ w = [q EXCEPT !.mixed = w.mixed]
          /\ q.mixed \subseteq w.mixed
          /\ q.cur = Home[x] /\ Kind[x] = "user" /\ q.at \in {"groups", "apply"} => "user" \in w.mixed
          /\ q.cur = Home[x] /\ Kind[x] = "group" /\ q.at = "apply" => "group" \in w.mixed
  <2>1. seed[s] \in Run
    BY DEF StatsInv, StatsTypeOK
  <2>2. PICK q \in Run : q = seed[s]
    BY <2>1
  <2>3. seed'[s] = IF q.cur = Home[x] /\ (\/ Kind[x] = "user" /\ q.at \in {"groups", "apply"}
                                          \/ Kind[x] = "group" /\ q.at = "apply")
                   THEN [q EXCEPT !.mixed = @ \cup {Kind[x]}] ELSE q
    BY <2>2 DEF Mix
  <2>4. seed'[s] \in Run /\ seed'[s] = [q EXCEPT !.mixed = seed'[s].mixed]
    BY <2>3 DEF Run
  <2>5. QED
    BY <2>2, <2>3, <2>4 DEF Run
<1>3. w.at = q.at /\ w.cur = q.cur /\ w.users = q.users /\ w.active = q.active /\ w.groups = q.groups
  BY <1>2 DEF Run
<1>4. FreshRun(q)
  BY <1>2, FreshIs DEF StatsInv
<1>5. PICK d : d = q.cur
  OBVIOUS
<1>6. SUFFICES ASSUME q.at \in {"groups", "apply"}, d \in live
               PROVE  /\ "user" \notin w.mixed => /\ q.users = Count(d, "user")' /\ q.active = CountActive(d)'
                                                  /\ ~Outstanding(d, "user")'
                      /\ q.at = "apply" /\ "group" \notin w.mixed => /\ q.groups = Count(d, "group")'
                                                                     /\ ~Outstanding(d, "group")'
  BY <1>2, <1>3, <1>5 DEF FreshRun
<1>7. /\ "user" \notin w.mixed => /\ q.users = Count(d, "user") /\ q.active = CountActive(d)
                                  /\ ~Outstanding(d, "user") /\ ~(d = Home[x] /\ Kind[x] = "user")
      /\ q.at = "apply" /\ "group" \notin w.mixed => /\ q.groups = Count(d, "group")
                                                     /\ ~Outstanding(d, "group") /\ ~(d = Home[x] /\ Kind[x] = "group")
  BY <1>2, <1>4, <1>5, <1>6 DEF FreshRun
<1>8. /\ ~(d = Home[x] /\ Kind[x] = "user") =>
            /\ Count(d, "user")' = Count(d, "user") /\ CountActive(d)' = CountActive(d)
            /\ Outstanding(d, "user")' <=> Outstanding(d, "user")
      /\ ~(d = Home[x] /\ Kind[x] = "group") =>
            /\ Count(d, "group")' = Count(d, "group")
            /\ Outstanding(d, "group")' <=> Outstanding(d, "group")
  BY WriteElsewhere DEF Kinds
<1>9. QED
  BY <1>7, <1>8

LEMMA WriteKeeps ==
    ASSUME StatsInv, NEW r \in Request, Write(r)
    PROVE  StatsInv'
<1>1. PICK task : task = req[r].task
  OBVIOUS
<1>2. PICK x : x = task.on
  OBVIOUS
<1>3. PICK stale \in BOOLEAN, reported \in BOOLEAN :
          /\ stale <=> task.op # "create" /\ Kind[x] = "user" /\ req[r].found # rows[x]
          /\ reported <=> (task.op = "set" => task.state # req[r].found)
  OBVIOUS
<1>4. /\ StatsTypeOK /\ Placed /\ FinitelyMany
      /\ req[r].at = "write" /\ ~OnEndpoint(task)
      /\ UNCHANGED <<live, known, counters, startup, lingering>>
  BY <1>1 DEF StatsInv, Write
<1>5. PICK o \in Outcome :
        /\ Ends(o)
        /\ IF o = "failed" \/ ~Accepted(task)
           THEN /\ req' = [req EXCEPT ![r].at = "done"]
                /\ UNCHANGED <<rows, seed, history>>
           ELSE /\ req' = [req EXCEPT ![r].at = IF o = "answered" /\ reported THEN "emit" ELSE "done"]
                /\ rows' = [rows EXCEPT ![x] = task.state]
                /\ Mix(Scope(r))
                /\ drifted' = IF (o = "lost" \/ stale) /\ Kind[x] # "resource"
                              THEN drifted \cup {Scope(r)} ELSE drifted
                /\ uncounted' = IF o = "lost" /\ Kind[x] = "resource"
                                THEN uncounted \cup {Home[x]} ELSE uncounted
  BY <1>1, <1>2, <1>3 DEF Write
<1>6. /\ x \in Resource /\ Home[x] \in Endpoint /\ Kind[x] \in Kinds /\ task.state \in RowState
      /\ Scope(r) = <<Home[x], Kind[x]>>
  BY <1>1, <1>2, <1>4, Asks DEF Scope
<1>7. faults' \in 0..MaxFaults
  BY <1>4, <1>5, EndsTyped
<1>8. CASE o = "failed" \/ ~Accepted(task)
  <2>1. req' = [req EXCEPT ![r].at = "done"] /\ UNCHANGED <<rows, seed, drifted, uncounted>>
    BY <1>5, <1>8 DEF history
  <2>2. Moves(r) /\ req'[r].at = "done" /\ req'[r].found = req[r].found
    BY <1>4, <2>1, MovesTyped, Asks
  <2>3. StatsTypeOK'
    BY <1>4, <1>7, <2>1, <2>2 DEF StatsTypeOK, Moves
  <2>4. Placed'
    BY <1>4, <2>1, <2>2 DEF Placed, Moves
  <2>5. FinitelyMany'
    BY <1>4, <2>1, <2>2, MovesFinite DEF FinitelyMany
  <2>6. Balanced' /\ Fresh'
    BY <1>4, <2>1, <2>2, MovesAside
  <2>7. QED
    BY <2>3, <2>4, <2>5, <2>6 DEF StatsInv
<1>9. CASE o # "failed" /\ Accepted(task)
  <2>1. PICK at \in {"emit", "done"} :
            /\ req' = [req EXCEPT ![r].at = at]
            /\ at = "emit" <=> o = "answered" /\ reported
    BY <1>5, <1>9
  <2>2. /\ Sets(x, task.state) /\ Mix(<<Home[x], Kind[x]>>)
        /\ drifted' = IF (o = "lost" \/ stale) /\ Kind[x] # "resource"
                      THEN drifted \cup {<<Home[x], Kind[x]>>} ELSE drifted
        /\ uncounted' = IF o = "lost" /\ Kind[x] = "resource" THEN uncounted \cup {Home[x]} ELSE uncounted
    BY <1>5, <1>6, <1>9 DEF Sets
  <2>3. Moves(r) /\ req'[r].at = at /\ req'[r].found = req[r].found
    BY <1>4, <2>1, MovesTyped, Asks
  <2>4. Writes(r, x, at)
    BY <1>1, <1>2, <1>4, <1>9, <2>2, <2>3 DEF Writes
  <2>5. StatsTypeOK'
    <3>1. rows' \in [Resource -> RowState]
      BY <1>4, <1>6, <2>2 DEF Sets, StatsTypeOK
    <3>2. drifted' \subseteq Drifting /\ uncounted' \subseteq Endpoint
      BY <1>4, <1>6, <2>2 DEF StatsTypeOK, Drifting, Kinds
    <3>3. ASSUME NEW s \in Seeder
          PROVE  /\ seed'[s] \in Run
                 /\ seed'[s].at = seed[s].at /\ seed'[s].left = seed[s].left /\ seed'[s].cur = seed[s].cur
      <4>1. PICK q \in Run : q = seed[s]
        BY <1>4 DEF StatsTypeOK
      <4>2. seed'[s] = q \/ (seed'[s] = [q EXCEPT !.mixed = @ \cup {Kind[x]}] /\ Kind[x] \in {"user", "group"})
        BY <2>2, <4>1 DEF Mix
      <4>3. QED
        BY <4>1, <4>2 DEF Run
    <3>4. seed' = [s \in Seeder |-> seed'[s]]
      BY <2>2 DEF Mix
    <3>5. seed' \in [Seeder -> Run]
      BY <3>3, <3>4
    <3>6. QED
      BY <1>4, <1>7, <2>3, <3>1, <3>2, <3>3, <3>5 DEF StatsTypeOK, Moves
  <2>6. Placed'
    BY <1>1, <1>3, <1>4, <2>1, <2>3 DEF Placed, Moves, OnEndpoint
  <2>7. FinitelyMany'
    <3>1. IsFiniteSet({y \in Resource : rows[y] # "absent"})'
      BY <1>4, <1>6, <2>2, OneRow
    <3>2. QED
      BY <2>3, <3>1, MovesFinite DEF FinitelyMany
  <2>8. drifted \subseteq drifted' /\ uncounted \subseteq uncounted'
    BY <2>2
  <2>9. Marked(x) \/ (o = "answered" /\ ~stale) \/ (o = "answered" /\ Kind[x] = "resource")
    BY <1>9, <2>2 DEF Marked, Outcome
  <2>10. \/ Marked(x)
         \/ /\ Kind[x] = "user" /\ req[r].task.op # "create" => req[r].found = rows[x]
            /\ at = "emit" <=> (req[r].task.op = "set" => req[r].task.state # req[r].found)
    BY <1>1, <1>3, <2>1, <2>9
  <2>11. Balanced'
    BY <1>4, <1>6, <2>4, <2>8, <2>10, WriteBalances
  <2>12. Fresh'
    BY <1>4, <1>6, <2>2, <2>4, WriteKeepsFresh
  <2>13. QED
    BY <2>5, <2>6, <2>7, <2>11, <2>12 DEF StatsInv
<1>10. QED
  BY <1>8, <1>9

-----------------------------------------------------------------------------
(* Events                                                                   *)

\* The event of r is handled.
Announces(r) ==
    /\ req[r].at = "emit" /\ ~OnEndpoint(req[r].task)
    /\ Moves(r) /\ req'[r].at = "done" /\ req'[r].found = req[r].found
    /\ UNCHANGED rows

\* The rows do not change, and the other events are still to come.
LEMMA EventElsewhere ==
    ASSUME NEW r \in Request, Announces(r), NEW d, NEW kind \in Kinds
    PROVE  /\ Count(d, kind)' = Count(d, kind) /\ CountActive(d)' = CountActive(d)
           /\ Outstanding(d, kind)' => Outstanding(d, kind)
           /\ Scope(r) # <<d, kind>> =>
                 /\ Ups(d, kind)' = Ups(d, kind) /\ Downs(d, kind)' = Downs(d, kind)
                 /\ kind = "user" => Raises(d)' = Raises(d) /\ Lowers(d)' = Lowers(d)
<1>1. Count(d, kind)' = Count(d, kind) /\ CountActive(d)' = CountActive(d)
  BY DEF Count, CountActive, Rows, Announces
<1>2. \A q \in Request : Owes(q, d, kind)' => q # r /\ req'[q] = req[q] /\ Owes(q, d, kind)
  BY DEF Owes, Scope, Announces, Moves
<1>3. Outstanding(d, kind)' => Outstanding(d, kind)
  BY <1>2 DEF Outstanding, Owes
<1>4. ASSUME Scope(r) # <<d, kind>>
      PROVE  /\ Ups(d, kind)' = Ups(d, kind) /\ Downs(d, kind)' = Downs(d, kind)
             /\ kind = "user" => Raises(d)' = Raises(d) /\ Lowers(d)' = Lowers(d)
  <2>1. \A q \in Request : Owes(q, d, kind)' <=> Owes(q, d, kind)
    BY <1>2, <1>4 DEF Owes, Scope, Announces, Moves
  <2>2. Ups(d, kind)' = Ups(d, kind) /\ Downs(d, kind)' = Downs(d, kind)
    BY <1>2, <2>1 DEF Ups, Downs
  <2>3. kind = "user" => Raises(d)' = Raises(d) /\ Lowers(d)' = Lowers(d)
    BY <1>2, <2>1 DEF Raises, Lowers
  <2>4. QED
    BY <2>2, <2>3
<1>5. QED
  BY <1>1, <1>3, <1>4

\* A count that moves by one with the event is told as before.
LEMMA EventTold ==
    ASSUME StatsInv, NEW r \in Request, Announces(r), NEW d, NEW kind \in Kinds, Scope(r) = <<d, kind>>,
           NEW n \in Nat, Told(d, kind, n), NEW m \in Nat,
           req[r].task.op = "create" => m = n + 1,
           req[r].task.op = "delete" => m = n - 1,
           req[r].task.op = "set" => m = n
    PROVE  Told(d, kind, m)'
<1>1. StatsTypeOK /\ FinitelyMany /\ Moves(r) /\ req[r].task.op \in {"create", "set", "delete"}
  BY Asks DEF StatsInv, Announces
<1>2. /\ Cardinality(Ups(d, kind)') = Cardinality(Ups(d, kind)) + Has(Ups(d, kind)', r) - Has(Ups(d, kind), r)
      /\ Cardinality(Downs(d, kind)') = Cardinality(Downs(d, kind)) + Has(Downs(d, kind)', r) - Has(Downs(d, kind), r)
  BY <1>1, OneRequest
<1>3. r \notin Ups(d, kind)' /\ r \notin Downs(d, kind)'
  BY DEF Ups, Downs, Owes, Announces
<1>4. /\ r \in Ups(d, kind) <=> req[r].task.op = "create"
      /\ r \in Downs(d, kind) <=> req[r].task.op = "delete"
  BY DEF Ups, Downs, Owes, Announces
<1>5. /\ Cardinality(Ups(d, kind)) \in Nat /\ Cardinality(Downs(d, kind)) \in Nat /\ Count(d, kind) \in Nat
  BY <1>1, CountsAreNumbers
<1>6. n + Cardinality(Ups(d, kind)) = Count(d, kind) + Cardinality(Downs(d, kind))
  BY DEF Told
<1>7. Has(Ups(d, kind)', r) = 0 /\ Has(Downs(d, kind)', r) = 0
  BY <1>3 DEF Has
<1>8. m - n = Has(Ups(d, kind), r) - Has(Downs(d, kind), r)
  BY <1>1, <1>4 DEF Has
<1>9. Has(Ups(d, kind), r) \in Nat /\ Has(Downs(d, kind), r) \in Nat
  BY DEF Has
<1>10. m + Cardinality(Ups(d, kind)') = Count(d, kind) + Cardinality(Downs(d, kind)')
  BY <1>2, <1>5, <1>6, <1>7, <1>8, <1>9
<1>11. Count(d, kind)' = Count(d, kind)
  BY EventElsewhere
<1>12. QED
  BY <1>10, <1>11 DEF Told

\* So is the count of active users.
LEMMA EventActiveTold ==
    ASSUME StatsInv, NEW r \in Request, Announces(r), NEW d, Scope(r) = <<d, "user">>,
           NEW n \in Nat, ActiveTold(d, n), NEW m \in Nat,
           r \in Raises(d) => m = n + 1,
           r \in Lowers(d) => m = n - 1,
           r \notin Raises(d) /\ r \notin Lowers(d) => m = n
    PROVE  ActiveTold(d, m)'
<1>1. StatsTypeOK /\ FinitelyMany /\ Moves(r)
  BY DEF StatsInv, Announces
<1>2. /\ Cardinality(Raises(d)') = Cardinality(Raises(d)) + Has(Raises(d)', r) - Has(Raises(d), r)
      /\ Cardinality(Lowers(d)') = Cardinality(Lowers(d)) + Has(Lowers(d)', r) - Has(Lowers(d), r)
  BY <1>1, OneRequest
<1>3. r \notin Raises(d)' /\ r \notin Lowers(d)'
  BY DEF Raises, Lowers, Owes, Announces
<1>4. ~(r \in Raises(d) /\ r \in Lowers(d))
  BY DEF Raises, Lowers
<1>5. /\ Cardinality(Raises(d)) \in Nat /\ Cardinality(Lowers(d)) \in Nat /\ CountActive(d) \in Nat
  BY <1>1, CountsAreNumbers
<1>6. n + Cardinality(Raises(d)) = CountActive(d) + Cardinality(Lowers(d))
  BY DEF ActiveTold
<1>7. Has(Raises(d)', r) = 0 /\ Has(Lowers(d)', r) = 0
  BY <1>3 DEF Has
<1>8. m - n = Has(Raises(d), r) - Has(Lowers(d), r)
  BY <1>4 DEF Has
<1>9. Has(Raises(d), r) \in Nat /\ Has(Lowers(d), r) \in Nat
  BY DEF Has
<1>10. m + Cardinality(Raises(d)') = CountActive(d) + Cardinality(Lowers(d)')
  BY <1>2, <1>5, <1>6, <1>7, <1>8, <1>9
<1>11. CountActive(d)' = CountActive(d)
  BY EventElsewhere DEF Kinds
<1>12. QED
  BY <1>10, <1>11 DEF ActiveTold

\* What the handler makes of the counters, unless one is at zero.
LEMMA HandledMoves ==
    ASSUME StatsInv, NEW r \in Request, req[r].at = "emit", ~OnEndpoint(req[r].task), NEW c \in Counter,
           NEW h, h = Handled(r, c), NEW e, NEW kind, Scope(r) = <<e, kind>>
    PROVE  /\ h \in Counter
           /\ kind # "user" => h.users = c.users /\ h.activeUsers = c.activeUsers
           /\ kind # "group" => h.groups = c.groups
           /\ kind # "resource" => h.resources = c.resources
           /\ kind = "user" /\ ~MeetsZero(r, c) =>
                 /\ req[r].task.op = "create" => h.users = c.users + 1
                 /\ req[r].task.op = "delete" => h.users = c.users - 1
                 /\ req[r].task.op = "set" => h.users = c.users
                 /\ r \in Raises(e) => h.activeUsers = c.activeUsers + 1
                 /\ r \in Lowers(e) => h.activeUsers = c.activeUsers - 1
                 /\ r \notin Raises(e) /\ r \notin Lowers(e) => h.activeUsers = c.activeUsers
           /\ kind = "group" /\ ~MeetsZero(r, c) =>
                 /\ req[r].task.op = "create" => h.groups = c.groups + 1
                 /\ req[r].task.op = "delete" => h.groups = c.groups - 1
           /\ kind = "resource" /\ ~MeetsZero(r, c) =>
                 /\ req[r].task.op = "create" => h.resources = c.resources + 1
                 /\ req[r].task.op = "delete" => h.resources = c.resources - 1
<1> DEFINE task == req[r].task
<1>1. /\ Home[task.on] = e /\ Kind[task.on] = kind /\ kind \in Kinds
      /\ task.op \in {"create", "set", "delete"} /\ task.state \in RowState /\ req[r].found \in RowState
      /\ task.op = "set" => kind = "user"
      /\ task.state = "absent" <=> task.op = "delete"
  BY Asks DEF StatsInv, Scope
<1>2. task.op \in {"set", "delete"} => req[r].found # "absent"
  BY DEF StatsInv, Placed
<1>3. task.op = "set" => req[r].found # task.state
  BY DEF StatsInv, Placed
<1>4. /\ c = [users |-> c.users, activeUsers |-> c.activeUsers, groups |-> c.groups, resources |-> c.resources]
      /\ c.users \in Nat /\ c.activeUsers \in Nat /\ c.groups \in Nat /\ c.resources \in Nat
  BY DEF Counter
<1>5. \A n \in Nat : Less(n) \in Nat /\ (n # 0 => Less(n) = n - 1)
  BY DEF Less
<1>6. CASE kind = "group"
  <2>1. h = [c EXCEPT !.groups = IF task.op = "create" THEN @ + 1 ELSE Less(@)]
    BY <1>1, <1>6 DEF Handled
  <2>2. ~MeetsZero(r, c) /\ task.op = "delete" => c.groups # 0
    BY <1>1, <1>6 DEF MeetsZero
  <2>3. QED
    BY <1>1, <1>4, <1>5, <1>6, <2>1, <2>2 DEF Counter
<1>7. CASE kind = "resource"
  <2>1. h = [c EXCEPT !.resources = IF task.op = "create" THEN @ + 1 ELSE Less(@)]
    BY <1>1, <1>7 DEF Handled
  <2>2. ~MeetsZero(r, c) /\ task.op = "delete" => c.resources # 0
    BY <1>1, <1>7 DEF MeetsZero
  <2>3. QED
    BY <1>1, <1>4, <1>5, <1>7, <2>1, <2>2 DEF Counter
<1>8. CASE kind = "user"
  <2>1. /\ r \in Raises(e) <=> task.state = "active"
        /\ r \in Lowers(e) <=> task.state # "active" /\ task.op # "create" /\ req[r].found = "active"
    BY <1>1, <1>8 DEF Raises, Lowers, Owes, Scope
  <2>2. ~MeetsZero(r, c) => /\ task.op = "delete" => c.users # 0
                            /\ r \in Lowers(e) => c.activeUsers # 0
    BY <1>1, <1>8, <2>1 DEF MeetsZero
  <2>3. CASE task.op = "create"
    <3>1. h = UserCreated(c, task.state)
      BY <1>1, <1>8, <2>3 DEF Handled
    <3>2. PICK n \in Nat, m \in Nat :
              /\ n = IF task.state = "active" THEN c.activeUsers + 1 ELSE c.activeUsers
              /\ m = c.users + 1
      BY <1>4
    <3>3. h = [c EXCEPT !.users = m, !.activeUsers = n]
      BY <1>4, <3>1, <3>2 DEF UserCreated
    <3>4. /\ h \in Counter /\ h.users = m /\ h.activeUsers = n
          /\ h.groups = c.groups /\ h.resources = c.resources
      BY <3>3 DEF Counter
    <3>5. r \notin Lowers(e)
      BY <2>1, <2>3
    <3>6. /\ r \in Raises(e) => h.activeUsers = c.activeUsers + 1
          /\ r \notin Raises(e) => h.activeUsers = c.activeUsers
          /\ h.users = c.users + 1
      BY <2>1, <3>2, <3>4
    <3>7. QED
      BY <1>8, <2>3, <3>4, <3>5, <3>6, Zenon
  <2>4. CASE task.op = "set"
    <3>1. h = UserStatusChanged(c, task.state)
      BY <1>1, <1>8, <2>4 DEF Handled
    <3>2. h = [c EXCEPT !.activeUsers = IF task.state = "active" THEN c.activeUsers + 1 ELSE Less(c.activeUsers)]
      BY <1>4, <3>1 DEF UserStatusChanged
    <3>3. task.state # "active" => req[r].found = "active"
      BY <1>1, <1>2, <1>3, <2>4 DEF RowState
    <3>4. QED
      BY <1>4, <1>5, <1>8, <2>1, <2>2, <2>4, <3>2, <3>3 DEF Counter
  <2>5. CASE task.op = "delete"
    <3>1. h = UserDeleted(c, req[r].found)
      BY <1>1, <1>8, <2>5 DEF Handled
    <3>2. h = [c EXCEPT !.users = Less(c.users),
                        !.activeUsers = IF req[r].found = "active" THEN Less(c.activeUsers) ELSE c.activeUsers]
      BY <1>4, <3>1 DEF UserDeleted
    <3>3. QED
      BY <1>1, <1>4, <1>5, <1>8, <2>1, <2>2, <2>5, <3>2 DEF Counter
  <2>6. QED
    BY <1>1, <2>3, <2>4, <2>5
<1>9. QED
  BY <1>1, <1>6, <1>7, <1>8 DEF Kinds

LEMMA EmitKeeps ==
    ASSUME StatsInv, NEW r \in Request, Emit(r)
    PROVE  StatsInv'
<1>1. PICK e, kind : Scope(r) = <<e, kind>> /\ e = Home[req[r].task.on] /\ kind = Kind[req[r].task.on]
  BY DEF Scope
<1>2. /\ StatsTypeOK /\ Placed /\ FinitelyMany /\ Balanced
      /\ req[r].at = "emit" /\ ~OnEndpoint(req[r].task)
      /\ UNCHANGED <<live, known, rows, startup, seed, faults, lingering>>
      /\ req' = [req EXCEPT ![r].at = "done"]
  BY DEF StatsInv, Emit
<1>3. e \in Endpoint /\ kind \in Kinds /\ req[r].task.op \in {"create", "set", "delete"}
  BY <1>1, <1>2, Asks
<1>4. PICK c \in Counter : c = Stats(e)
  BY <1>2, <1>3, StatsAreCounters
<1>5. PICK h : h = Handled(r, c)
  OBVIOUS
<1>6. PICK met \in BOOLEAN : met <=> MeetsZero(r, c)
  OBVIOUS
<1>7. /\ counters' = [counters EXCEPT ![e] = h]
      /\ drifted' = IF met /\ Scope(r) \in Drifting THEN drifted \cup {Scope(r)} ELSE drifted
      /\ uncounted' = IF met /\ Scope(r) \notin Drifting THEN uncounted \cup {e} ELSE uncounted
  BY <1>1, <1>4, <1>5, <1>6 DEF Emit
<1>8. Moves(r) /\ req'[r].at = "done" /\ req'[r].found = req[r].found
  BY <1>2, MovesTyped, Asks
<1>9. Announces(r)
  BY <1>2, <1>8 DEF Announces
<1>10. /\ h \in Counter /\ h # None
  BY <1>1, <1>2, <1>5, HandledMoves, NoneAssumption
<1>11. StatsTypeOK'
  <2>1. counters' \in [Endpoint -> Counter \cup {None}]
    BY <1>2, <1>7, <1>10 DEF StatsTypeOK
  <2>2. drifted' \subseteq Drifting /\ uncounted' \subseteq Endpoint
    BY <1>2, <1>3, <1>7 DEF StatsTypeOK
  <2>3. QED
    BY <1>2, <1>8, <2>1, <2>2 DEF StatsTypeOK, Moves
<1>12. Placed'
  BY <1>2, <1>8 DEF Placed, Moves
<1>13. FinitelyMany'
  BY <1>2, <1>8, MovesFinite DEF FinitelyMany
<1>14. Balanced'
  <2>1. SUFFICES ASSUME NEW d \in live
                 PROVE  /\ <<d, "user">> \notin drifted' => Told(d, "user", Stats(d).users)' /\ ActiveTold(d, Stats(d).activeUsers)'
                        /\ <<d, "group">> \notin drifted' => Told(d, "group", Stats(d).groups)'
                        /\ d \notin uncounted' => Told(d, "resource", Stats(d).resources)'
    BY <1>2 DEF Balanced
  <2>2. d \in Endpoint
    BY <1>2 DEF StatsTypeOK
  <2>3. PICK b \in Counter : b = Stats(d)
    BY <1>2, <2>2, StatsAreCounters
  <2>4. PICK g : g = Stats(d)'
    OBVIOUS
  <2>5. IF d = e THEN b = c /\ g = h ELSE g = b
    BY <1>2, <1>4, <1>7, <1>10, <2>2, <2>3, <2>4 DEF Stats, StatsTypeOK
  <2>6. g \in Counter
    BY <1>10, <2>5
  <2>7. /\ b.users \in Nat /\ b.activeUsers \in Nat /\ b.groups \in Nat /\ b.resources \in Nat
        /\ g.users \in Nat /\ g.activeUsers \in Nat /\ g.groups \in Nat /\ g.resources \in Nat
    BY <2>6 DEF Counter
  <2>8. drifted \subseteq drifted' /\ uncounted \subseteq uncounted'
    BY <1>7
  <2>9. ASSUME <<d, "user">> \notin drifted'
        PROVE  Told(d, "user", g.users)' /\ ActiveTold(d, g.activeUsers)'
    <3>1. Told(d, "user", b.users) /\ ActiveTold(d, b.activeUsers)
      BY <1>2, <2>3, <2>8, <2>9 DEF Balanced
    <3>2. CASE d = e /\ kind = "user"
      <4>1. ~MeetsZero(r, c)
        BY <1>1, <1>3, <1>6, <1>7, <2>9, <3>2 DEF Drifting
      <4>2. /\ req[r].task.op = "create" => g.users = b.users + 1
            /\ req[r].task.op = "delete" => g.users = b.users - 1
            /\ req[r].task.op = "set" => g.users = b.users
            /\ r \in Raises(d) => g.activeUsers = b.activeUsers + 1
            /\ r \in Lowers(d) => g.activeUsers = b.activeUsers - 1
            /\ r \notin Raises(d) /\ r \notin Lowers(d) => g.activeUsers = b.activeUsers
        BY <1>1, <1>2, <1>5, <2>5, <3>2, <4>1, HandledMoves
      <4>3. Told(d, "user", g.users)'
        BY <1>1, <1>9, <2>7, <3>1, <3>2, <4>2, EventTold DEF Kinds
      <4>4. ActiveTold(d, g.activeUsers)'
        BY <1>1, <1>9, <2>7, <3>1, <3>2, <4>2, EventActiveTold
      <4>5. QED
        BY <4>3, <4>4
    <3>3. CASE ~(d = e /\ kind = "user")
      <4>1. g.users = b.users /\ g.activeUsers = b.activeUsers
        BY <1>1, <1>2, <1>5, <2>5, <3>3, HandledMoves
      <4>2. /\ Count(d, "user")' = Count(d, "user") /\ CountActive(d)' = CountActive(d)
            /\ Ups(d, "user")' = Ups(d, "user") /\ Downs(d, "user")' = Downs(d, "user")
            /\ Raises(d)' = Raises(d) /\ Lowers(d)' = Lowers(d)
        BY <1>1, <1>9, <3>3, EventElsewhere DEF Kinds
      <4>3. QED
        BY <3>1, <4>1, <4>2 DEF Told, ActiveTold
    <3>4. QED
      BY <3>2, <3>3
  <2>10. ASSUME <<d, "group">> \notin drifted'
         PROVE  Told(d, "group", g.groups)'
    <3>1. Told(d, "group", b.groups)
      BY <1>2, <2>3, <2>8, <2>10 DEF Balanced
    <3>2. CASE d = e /\ kind = "group"
      <4>1. ~MeetsZero(r, c)
        BY <1>1, <1>3, <1>6, <1>7, <2>10, <3>2 DEF Drifting
      <4>2. /\ req[r].task.op = "create" => g.groups = b.groups + 1
            /\ req[r].task.op = "delete" => g.groups = b.groups - 1
        BY <1>1, <1>2, <1>5, <2>5, <3>2, <4>1, HandledMoves
      <4>3. req[r].task.op # "set"
        BY <1>1, <1>2, <3>2, Asks
      <4>4. QED
        BY <1>1, <1>9, <2>7, <3>1, <3>2, <4>2, <4>3, EventTold DEF Kinds
    <3>3. CASE ~(d = e /\ kind = "group")
      <4>1. g.groups = b.groups
        BY <1>1, <1>2, <1>5, <2>5, <3>3, HandledMoves
      <4>2. /\ Count(d, "group")' = Count(d, "group")
            /\ Ups(d, "group")' = Ups(d, "group") /\ Downs(d, "group")' = Downs(d, "group")
        BY <1>1, <1>9, <3>3, EventElsewhere DEF Kinds
      <4>3. QED
        BY <3>1, <4>1, <4>2 DEF Told
    <3>4. QED
      BY <3>2, <3>3
  <2>11. ASSUME d \notin uncounted'
         PROVE  Told(d, "resource", g.resources)'
    <3>1. Told(d, "resource", b.resources)
      BY <1>2, <2>3, <2>8, <2>11 DEF Balanced
    <3>2. CASE d = e /\ kind = "resource"
      <4>1. ~MeetsZero(r, c)
        BY <1>1, <1>6, <1>7, <2>11, <3>2 DEF Drifting
      <4>2. /\ req[r].task.op = "create" => g.resources = b.resources + 1
            /\ req[r].task.op = "delete" => g.resources = b.resources - 1
        BY <1>1, <1>2, <1>5, <2>5, <3>2, <4>1, HandledMoves
      <4>3. req[r].task.op # "set"
        BY <1>1, <1>2, <3>2, Asks
      <4>4. QED
        BY <1>1, <1>9, <2>7, <3>1, <3>2, <4>2, <4>3, EventTold DEF Kinds
    <3>3. CASE ~(d = e /\ kind = "resource")
      <4>1. g.resources = b.resources
        BY <1>1, <1>2, <1>5, <2>5, <3>3, HandledMoves
      <4>2. /\ Count(d, "resource")' = Count(d, "resource")
            /\ Ups(d, "resource")' = Ups(d, "resource") /\ Downs(d, "resource")' = Downs(d, "resource")
        BY <1>1, <1>9, <3>3, EventElsewhere DEF Kinds
      <4>3. QED
        BY <3>1, <4>1, <4>2 DEF Told
    <3>4. QED
      BY <3>2, <3>3
  <2>12. QED
    BY <2>4, <2>9, <2>10, <2>11 DEF Told, ActiveTold
<1>15. Fresh'
  <2>1. SUFFICES ASSUME NEW s \in Seeder PROVE FreshRun(seed[s])'
    BY DEF Fresh, FreshRun
  <2>2. PICK q : q = seed[s] /\ q = seed'[s]
    BY <1>2
  <2>3. FreshRun(q)
    BY <2>2, FreshIs DEF StatsInv
  <2>4. PICK d : d = q.cur
    OBVIOUS
  <2>5. \A k \in Kinds : Count(d, k)' = Count(d, k) /\ (Outstanding(d, k)' => Outstanding(d, k))
    BY <1>9, EventElsewhere
  <2>6. CountActive(d)' = CountActive(d)
    BY <1>9, EventElsewhere DEF Kinds
  <2>7. FreshRun(q)'
    BY <1>2, <2>3, <2>4, <2>5, <2>6 DEF FreshRun, Kinds
  <2>8. QED
    BY <2>2, <2>7 DEF FreshRun
<1>16. QED
  BY <1>11, <1>12, <1>13, <1>14, <1>15 DEF StatsInv

-----------------------------------------------------------------------------
(* Reconciliations                                                          *)

\* When every write has been announced, a count that is told is the table's.
LEMMA QuietTold ==
    ASSUME FinitelyMany, NEW e, NEW kind, ~Outstanding(e, kind), NEW n \in Nat
    PROVE  /\ Told(e, kind, n) <=> n = Count(e, kind)
           /\ kind = "user" => (ActiveTold(e, n) <=> n = CountActive(e))
<1>1. \A q \in Request : ~Owes(q, e, kind)
  BY DEF Outstanding, Owes
<1>2. /\ Ups(e, kind) = {} /\ Downs(e, kind) = {}
      /\ kind = "user" => Raises(e) = {} /\ Lowers(e) = {}
  BY <1>1 DEF Ups, Downs, Raises, Lowers
<1>3. Count(e, kind) \in Nat /\ CountActive(e) \in Nat
  BY CountsAreNumbers
<1>4. Cardinality({}) = 0
  BY FS_EmptySet
<1>5. Told(e, kind, n) <=> n = Count(e, kind)
  BY <1>2, <1>3, <1>4 DEF Told
<1>6. kind = "user" => (ActiveTold(e, n) <=> n = CountActive(e))
  BY <1>2, <1>3, <1>4 DEF ActiveTold
<1>7. QED
  BY <1>5, <1>6

\* The rows and the requests stay, and so do the other runs.
Counts(s) ==
    /\ UNCHANGED <<live, known, rows, req>>
    /\ seed' \in [Seeder -> Run] /\ \A q \in Seeder \ {s} : seed'[q] = seed[q]

LEMMA CountsKeeps ==
    ASSUME StatsInv, NEW s \in Seeder, Counts(s)
    PROVE  Placed' /\ FinitelyMany' /\ Apart
<1>1. Placed' /\ FinitelyMany'
  BY DEF Placed, FinitelyMany, StatsInv, Counts
<1>2. Apart
  BY DEF Apart, Counts
<1>3. QED
  BY <1>1, <1>2

\* A run begins, goes on or returns; no counter of an endpoint in the database moves.
LEMMA GoOnKeeps ==
    ASSUME StatsInv, NEW s \in Seeder, NEW left \in SUBSET Endpoint, GoOn(s, left),
           UNCHANGED <<live, known, rows, req, history>>,
           faults' \in 0..MaxFaults,
           counters' \in [Endpoint -> Counter \cup {None}],
           \A e \in live : counters'[e] = counters[e]
    PROVE  StatsInv'
<1>1. StatsTypeOK /\ Balanced /\ Fresh /\ UNCHANGED <<drifted, uncounted, lingering>>
  BY DEF StatsInv, history
<1>2. /\ seed' \in [Seeder -> Run]
      /\ \A q \in Seeder \ {s} : seed'[q] = seed[q]
      /\ seed'[s].at \in {"idle", "users"}
      /\ seed'[s].at = "users" => seed'[s].left # {}
      /\ startup' \in {"boot", "seeding", "up"}
  BY <1>1, GoOnMoves
<1>3. Placed' /\ FinitelyMany' /\ Apart
  BY <1>2, CountsKeeps DEF Counts
<1>4. StatsTypeOK'
  BY <1>1, <1>2 DEF StatsTypeOK
<1>5. Aside
  BY <1>1, <1>3 DEF Aside
<1>6. Balanced'
  BY <1>1, <1>5, AsideKeeps
<1>7. \A q \in Seeder : seed'[q] = seed[q] \/ seed'[q].at \notin {"groups", "apply"}
  BY <1>2
<1>8. Fresh'
  BY <1>1, <1>3, <1>7, ApartKeepsFresh
<1>9. QED
  BY <1>3, <1>4, <1>6, <1>8 DEF StatsInv

LEMMA SeedKeeps ==
    ASSUME StatsInv, NEW s \in Seeder, Seed(s)
    PROVE  StatsInv'
<1>1. StatsTypeOK
  BY DEF StatsInv
<1>2. PICK o \in {"answered", "failed"} :
        /\ Ends(o)
        /\ counters' = IF o = "answered" THEN Pruned(known) ELSE counters
        /\ GoOn(s, known)
  BY DEF Seed
<1>3. UNCHANGED <<live, known, rows, req, history>>
  BY DEF Seed
<1>4. faults' \in 0..MaxFaults
  BY <1>1, <1>2, EndsTyped DEF Outcome
<1>5. /\ counters' \in [Endpoint -> Counter \cup {None}]
      /\ \A e \in live : counters'[e] = counters[e]
      /\ known \in SUBSET Endpoint
  BY <1>1, <1>2 DEF Pruned, StatsTypeOK
<1>6. QED
  BY <1>2, <1>3, <1>4, <1>5, GoOnKeeps

\* A run takes a count q of an endpoint.
LEMMA CountKeeps ==
    ASSUME StatsInv, NEW s \in Seeder, NEW q \in Run, seed' = [seed EXCEPT ![s] = q],
           UNCHANGED <<live, known, rows, counters, startup, req, history>>,
           faults' \in 0..MaxFaults,
           q.at \in {"groups", "apply"}, q.cur \in q.left,
           FreshRun(q)
    PROVE  StatsInv'
<1>1. StatsTypeOK /\ Balanced /\ Fresh /\ UNCHANGED <<drifted, uncounted, lingering>>
  BY DEF StatsInv, history
<1>2. /\ seed' \in [Seeder -> Run] /\ seed'[s] = q
      /\ \A p \in Seeder \ {s} : seed'[p] = seed[p]
  BY <1>1 DEF StatsTypeOK
<1>3. Placed' /\ FinitelyMany' /\ Apart
  BY <1>2, CountsKeeps DEF Counts
<1>4. StatsTypeOK'
  BY <1>1, <1>2 DEF StatsTypeOK
<1>5. Aside
  BY <1>1, <1>3 DEF Aside
<1>6. Balanced'
  BY <1>1, <1>5, AsideKeeps
<1>7. ASSUME NEW p \in Seeder PROVE FreshRun(seed[p])'
  <2>1. PICK w : w = seed'[p] /\ FreshRun(w)
    BY <1>1, <1>2, FreshIs
  <2>2. FreshRun(w)'
    BY <1>3, <2>1, ApartFresh
  <2>3. QED
    BY <2>1, <2>2 DEF FreshRun
<1>8. Fresh'
  BY <1>7 DEF Fresh, FreshRun
<1>9. QED
  BY <1>3, <1>4, <1>6, <1>8 DEF StatsInv

LEMMA ReadUsersKeeps ==
    ASSUME StatsInv, NEW s \in Seeder, ReadUsers(s)
    PROVE  StatsInv'
<1>1. PICK e : e = Newest(seed[s].left)
  OBVIOUS
<1>2. StatsTypeOK /\ FinitelyMany /\ seed[s] \in Run /\ seed[s].at = "users"
  BY DEF StatsInv, StatsTypeOK, ReadUsers
<1>3. PICK old \in Run : old = seed[s]
  BY <1>2
<1>4. e \in old.left /\ old.left \in SUBSET Endpoint /\ e \in Endpoint
  <2>1. old.left \in SUBSET Endpoint /\ old.left # {}
    BY <1>2, <1>3 DEF StatsTypeOK, Run
  <2>2. e \in old.left
    BY <1>1, <1>3, <2>1, NewestIsLeft
  <2>3. QED
    BY <2>1, <2>2
<1>5. PICK o \in {"answered", "failed"} :
        /\ Ends(o)
        /\ IF o = "failed"
           THEN GoOn(s, seed[s].left \ {e})
           ELSE /\ seed' = [seed EXCEPT ![s].at = "groups", ![s].cur = e,
                             ![s].users = Count(e, "user"), ![s].active = CountActive(e),
                             ![s].mixed = {k \in {"user"} : Outstanding(e, k)}]
                /\ UNCHANGED startup
  BY <1>1 DEF ReadUsers
<1>6. UNCHANGED <<live, known, rows, counters, req, history>>
  BY DEF ReadUsers
<1>7. faults' \in 0..MaxFaults
  BY <1>2, <1>5, EndsTyped DEF Outcome
<1>8. CASE o = "failed"
  <2>1. GoOn(s, old.left \ {e}) /\ old.left \ {e} \in SUBSET Endpoint
    BY <1>3, <1>4, <1>5, <1>8
  <2>2. counters' \in [Endpoint -> Counter \cup {None}]
    BY <1>2, <1>6 DEF StatsTypeOK
  <2>3. QED
    BY <1>6, <1>7, <2>1, <2>2, GoOnKeeps
<1>9. CASE o = "answered"
  <2>1. Count(e, "user") \in Nat /\ CountActive(e) \in Nat
    BY <1>2, CountsAreNumbers
  <2>2. PICK mixed \in SUBSET {"user", "group"} : mixed = {k \in {"user"} : Outstanding(e, k)}
    OBVIOUS
  <2>3. PICK q : q = [old EXCEPT !.at = "groups", !.cur = e, !.users = Count(e, "user"),
                                 !.active = CountActive(e), !.mixed = mixed]
    OBVIOUS
  <2>4. q \in Run /\ q.at = "groups" /\ q.cur = e /\ q.left = old.left
        /\ q.users = Count(e, "user") /\ q.active = CountActive(e) /\ q.mixed = mixed
    BY <1>4, <2>1, <2>3 DEF Run, At
  <2>5. seed' = [seed EXCEPT ![s] = q] /\ UNCHANGED startup
    BY <1>2, <1>3, <1>5, <1>9, <2>2, <2>3 DEF StatsTypeOK
  <2>6. FreshRun(q)
    BY <2>2, <2>4 DEF FreshRun
  <2>7. QED
    BY <1>4, <1>6, <1>7, <2>4, <2>5, <2>6, CountKeeps
<1>10. QED
  BY <1>8, <1>9

LEMMA ReadGroupsKeeps ==
    ASSUME StatsInv, NEW s \in Seeder, ReadGroups(s)
    PROVE  StatsInv'
<1>1. StatsTypeOK /\ FinitelyMany /\ seed[s] \in Run /\ seed[s].at = "groups"
  BY DEF StatsInv, StatsTypeOK, ReadGroups
<1>2. PICK old \in Run : old = seed[s]
  BY <1>1
<1>3. PICK e : e = old.cur
  OBVIOUS
<1>4. e \in old.left /\ old.left \in SUBSET Endpoint /\ e \in Endpoint
  BY <1>1, <1>2, <1>3 DEF StatsTypeOK, Run
<1>5. PICK o \in {"answered", "failed"} :
        /\ Ends(o)
        /\ IF o = "failed"
           THEN GoOn(s, seed[s].left \ {e})
           ELSE /\ seed' = [seed EXCEPT ![s].at = "apply", ![s].groups = Count(e, "group"),
                             ![s].mixed = @ \cup {k \in {"group"} : Outstanding(e, k)}]
                /\ UNCHANGED startup
  BY <1>2, <1>3 DEF ReadGroups
<1>6. UNCHANGED <<live, known, rows, counters, req, history>>
  BY DEF ReadGroups
<1>7. faults' \in 0..MaxFaults
  BY <1>1, <1>5, EndsTyped DEF Outcome
<1>8. CASE o = "failed"
  <2>1. GoOn(s, old.left \ {e}) /\ old.left \ {e} \in SUBSET Endpoint
    BY <1>2, <1>4, <1>5, <1>8
  <2>2. counters' \in [Endpoint -> Counter \cup {None}]
    BY <1>1, <1>6 DEF StatsTypeOK
  <2>3. QED
    BY <1>6, <1>7, <2>1, <2>2, GoOnKeeps
<1>9. CASE o = "answered"
  <2>1. Count(e, "group") \in Nat
    BY <1>1, CountsAreNumbers
  <2>2. PICK mixed \in SUBSET {"user", "group"} :
            mixed = old.mixed \cup {k \in {"group"} : Outstanding(e, k)}
    BY DEF Run
  <2>3. PICK q : q = [old EXCEPT !.at = "apply", !.groups = Count(e, "group"), !.mixed = mixed]
    OBVIOUS
  <2>4. q \in Run /\ q.at = "apply" /\ q.cur = e /\ q.left = old.left
        /\ q.users = old.users /\ q.active = old.active /\ q.groups = Count(e, "group") /\ q.mixed = mixed
    BY <1>3, <2>1, <2>3 DEF Run, At
  <2>5. seed' = [seed EXCEPT ![s] = q] /\ UNCHANGED startup
    BY <1>1, <1>2, <1>5, <1>9, <2>2, <2>3 DEF StatsTypeOK
  <2>6. FreshRun(old)
    BY <1>2, FreshIs DEF StatsInv
  <2>7. FreshRun(q)
    BY <1>1, <1>2, <1>3, <2>2, <2>4, <2>6 DEF FreshRun
  <2>8. QED
    BY <1>4, <1>6, <1>7, <2>4, <2>5, <2>7, CountKeeps
<1>10. QED
  BY <1>8, <1>9

\* The counts are applied: those a write has not made old are the table's.
LEMMA ApplyKeeps ==
    ASSUME StatsInv, NEW s \in Seeder, Apply(s)
    PROVE  StatsInv'
<1>1. StatsTypeOK /\ FinitelyMany /\ Balanced /\ Fresh /\ seed[s] \in Run /\ seed[s].at = "apply"
  BY DEF StatsInv, StatsTypeOK, Apply
<1>2. PICK q \in Run : q = seed[s]
  BY <1>1
<1>3. PICK e : e = q.cur
  OBVIOUS
<1>4. e \in q.left /\ q.left \in SUBSET Endpoint /\ e \in Endpoint
  BY <1>1, <1>2, <1>3 DEF StatsTypeOK, Run
<1>5. PICK c : c = Counted(s)
  OBVIOUS
<1>6. /\ c \in Counter /\ c # None
      /\ c.users = q.users /\ c.activeUsers = q.active /\ c.groups = q.groups
      /\ c.resources = Stats(e).resources
  <2>1. Stats(e) \in Counter
    BY <1>1, <1>4, StatsAreCounters
  <2>2. Stats(e).resources \in Nat
    BY <2>1 DEF Counter
  <2>3. c = [users |-> q.users, activeUsers |-> q.active, groups |-> q.groups, resources |-> Stats(e).resources]
    BY <1>2, <1>3, <1>5 DEF Counted
  <2>4. QED
    BY <2>2, <2>3, NoneAssumption DEF Counter, Run
<1>7. /\ counters' = [counters EXCEPT ![e] = c]
      /\ drifted' = (drifted \ ({e} \X {"user", "group"})) \cup ({e} \X q.mixed)
      /\ GoOn(s, q.left \ {e})
      /\ UNCHANGED <<live, known, rows, req, faults, uncounted, lingering>>
  BY <1>2, <1>3, <1>5 DEF Apply
<1>8. /\ seed' \in [Seeder -> Run]
      /\ \A p \in Seeder \ {s} : seed'[p] = seed[p]
      /\ seed'[s].at \in {"idle", "users"}
      /\ seed'[s].at = "users" => seed'[s].left # {}
      /\ startup' \in {"boot", "seeding", "up"}
  <2>1. q.left \ {e} \in SUBSET Endpoint
    BY <1>4
  <2>2. QED
    BY <1>1, <1>7, <2>1, GoOnMoves
<1>9. Placed' /\ FinitelyMany' /\ Apart
  BY <1>7, <1>8, CountsKeeps DEF Counts
<1>10. StatsTypeOK'
  <2>1. counters' \in [Endpoint -> Counter \cup {None}]
    BY <1>1, <1>6, <1>7 DEF StatsTypeOK
  <2>2. drifted' \subseteq Drifting
    BY <1>1, <1>4, <1>7 DEF StatsTypeOK, Drifting, Run
  <2>3. QED
    BY <1>1, <1>7, <1>8, <2>1, <2>2 DEF StatsTypeOK
<1>11. \A p \in Seeder : seed'[p] = seed[p] \/ seed'[p].at \notin {"groups", "apply"}
  BY <1>8
<1>12. Fresh'
  BY <1>1, <1>9, <1>11, ApartKeepsFresh
<1>13. Balanced'
  <2>1. SUFFICES ASSUME NEW d \in live
                 PROVE  /\ <<d, "user">> \notin drifted' => Told(d, "user", Stats(d).users)' /\ ActiveTold(d, Stats(d).activeUsers)'
                        /\ <<d, "group">> \notin drifted' => Told(d, "group", Stats(d).groups)'
                        /\ d \notin uncounted' => Told(d, "resource", Stats(d).resources)'
    BY <1>7 DEF Balanced
  <2>2. d \in Endpoint /\ d \in live'
    BY <1>1, <1>7 DEF StatsTypeOK
  <2>3. PICK g : g = Stats(d)'
    OBVIOUS
  <2>4. IF d = e THEN g = c ELSE g = Stats(d)
    BY <1>1, <1>6, <1>7, <2>2, <2>3 DEF Stats, StatsTypeOK
  <2>5. /\ <<d, "user">> \notin drifted' => Told(d, "user", g.users) /\ ActiveTold(d, g.activeUsers)
        /\ <<d, "group">> \notin drifted' => Told(d, "group", g.groups)
        /\ d \notin uncounted' => Told(d, "resource", g.resources)
    <3>1. CASE d = e
      <4>1. FreshRun(q)
        BY <1>1, <1>2, FreshIs
      <4>2. /\ <<d, "user">> \notin drifted' => "user" \notin q.mixed
            /\ <<d, "group">> \notin drifted' => "group" \notin q.mixed
        BY <1>7, <3>1
      <4>3. /\ <<d, "user">> \notin drifted' => /\ g.users = Count(d, "user") /\ g.activeUsers = CountActive(d)
                                                /\ ~Outstanding(d, "user")
            /\ <<d, "group">> \notin drifted' => g.groups = Count(d, "group") /\ ~Outstanding(d, "group")
        BY <1>1, <1>2, <1>3, <1>6, <2>4, <3>1, <4>1, <4>2 DEF FreshRun
      <4>4. g.users \in Nat /\ g.activeUsers \in Nat /\ g.groups \in Nat
        BY <1>6, <2>4, <3>1 DEF Counter
      <4>5. <<d, "user">> \notin drifted' => Told(d, "user", g.users) /\ ActiveTold(d, g.activeUsers)
        BY <1>1, <4>3, <4>4, QuietTold
      <4>6. <<d, "group">> \notin drifted' => Told(d, "group", g.groups)
        BY <1>1, <4>3, <4>4, QuietTold
      <4>7. d \notin uncounted' => Told(d, "resource", g.resources)
        BY <1>1, <1>6, <1>7, <2>4, <3>1 DEF Balanced
      <4>8. QED
        BY <4>5, <4>6, <4>7
    <3>2. CASE d # e
      <4>1. /\ <<d, "user">> \notin drifted' => <<d, "user">> \notin drifted
            /\ <<d, "group">> \notin drifted' => <<d, "group">> \notin drifted
        BY <1>7, <3>2
      <4>2. QED
        BY <1>1, <1>7, <2>4, <3>2, <4>1 DEF Balanced
    <3>3. QED
      BY <3>1, <3>2
  <2>6. \A k \in Kinds : /\ Count(d, k)' = Count(d, k)
                         /\ Ups(d, k)' = Ups(d, k) /\ Downs(d, k)' = Downs(d, k)
    BY <1>9, <2>2, ApartCounts
  <2>7. CountActive(d)' = CountActive(d) /\ Raises(d)' = Raises(d) /\ Lowers(d)' = Lowers(d)
    BY <1>9, <2>2, ApartCounts DEF Kinds
  <2>8. QED
    BY <2>3, <2>5, <2>6, <2>7 DEF Told, ActiveTold, Kinds
<1>14. QED
  BY <1>9, <1>10, <1>12, <1>13 DEF StatsInv

-----------------------------------------------------------------------------
(* Starts                                                                   *)

\* No count is taken, every count of users and groups may be wrong, and a count
\* of generic resources is zero.
Started ==
    /\ live \subseteq Endpoint /\ rows \in [Resource -> RowState]
    /\ counters = [e \in Endpoint |-> None]
    /\ \A s \in Seeder : seed[s] = Resting
    /\ \A r \in Request : req[r].at \in {"new", "done"}
    /\ drifted = Drifting
    /\ uncounted = Uncounted
    /\ IsFiniteSet({x \in Resource : rows[x] # "absent"})

LEMMA StartedHolds ==
    Started => Placed /\ FinitelyMany /\ Balanced /\ Fresh
<1> SUFFICES ASSUME Started PROVE Placed /\ FinitelyMany /\ Balanced /\ Fresh
  OBVIOUS
<1>1. Placed
  BY DEF Placed, Started
<1>2. FinitelyMany
  <2>1. {r \in Request : req[r].at = "emit"} = {}
    BY DEF Started
  <2>2. QED
    BY <2>1, FS_EmptySet DEF FinitelyMany, Started
<1>3. Fresh
  BY DEF Fresh, Started, Resting
<1>4. Balanced
  <2>1. SUFFICES ASSUME NEW e \in live
                 PROVE  /\ <<e, "user">> \in drifted /\ <<e, "group">> \in drifted
                        /\ e \notin uncounted => Told(e, "resource", Stats(e).resources)
    BY DEF Balanced
  <2>2. e \in Endpoint /\ <<e, "user">> \in drifted /\ <<e, "group">> \in drifted
    BY DEF Started, Drifting
  <2>3. ASSUME e \notin uncounted PROVE Told(e, "resource", Stats(e).resources)
    <3>1. Rows(e, "resource") = {}
      BY <2>2, <2>3 DEF Started, Uncounted
    <3>2. Count(e, "resource") = 0
      BY <3>1, FS_EmptySet DEF Count
    <3>3. ~Outstanding(e, "resource")
      BY DEF Outstanding, Started
    <3>4. Stats(e).resources = 0
      BY <2>2 DEF Started, Stats, Zero
    <3>5. QED
      BY <1>2, <3>2, <3>3, <3>4, QuietTold
  <2>4. QED
    BY <2>2, <2>3
<1>5. QED
  BY <1>1, <1>2, <1>3, <1>4

LEMMA RestingTyped == Resting \in Run /\ Resting.at = "idle"
BY DEF Resting, Run, At

LEMMA RestartKeeps ==
    ASSUME StatsInv, Restart
    PROVE  StatsInv'
<1>1. StatsTypeOK /\ FinitelyMany
  BY DEF StatsInv
<1>2. req' \in [Request -> [task : Task, at : {"new", "write", "emit", "done"}, found : RowState]]
      /\ \A r \in Request : req'[r].at \in {"new", "done"}
  <2>1. ASSUME NEW r \in Request
        PROVE  /\ req'[r] \in [task : Task, at : {"new", "write", "emit", "done"}, found : RowState]
               /\ req'[r].at \in {"new", "done"}
    <3>1. PICK q \in [task : Task, at : {"new", "write", "emit", "done"}, found : RowState] : q = req[r]
      BY <1>1 DEF StatsTypeOK
    <3>2. req'[r] = IF q.at \in {"write", "emit"} THEN [q EXCEPT !.at = "done"] ELSE q
      BY <3>1 DEF Restart
    <3>3. QED
      BY <3>2
  <2>2. req' = [r \in Request |-> req'[r]]
    BY DEF Restart
  <2>3. QED
    BY <2>1, <2>2
<1>3. /\ counters' = [e \in Endpoint |-> None] /\ seed' = [s \in Seeder |-> Resting]
      /\ startup' = "boot" /\ known' = live
      /\ drifted' = Drifting /\ uncounted' = Uncounted
      /\ live' = live /\ rows' = rows /\ lingering' = {}
      /\ faults' = faults + 1 /\ faults < MaxFaults
  BY DEF Restart, Boot
<1>4. StatsTypeOK'
  <2>1. faults' \in 0..MaxFaults
    BY <1>1, <1>3, StatsAssumption DEF StatsTypeOK
  <2>2. /\ seed' \in [Seeder -> Run]
        /\ \A s \in Seeder : seed'[s].at = "idle"
    BY <1>3, RestingTyped
  <2>3. uncounted' \subseteq Endpoint
    BY <1>3 DEF Uncounted
  <2>4. live' \subseteq known' /\ known' \subseteq Endpoint
    BY <1>1, <1>3 DEF StatsTypeOK
  <2>5. QED
    BY <1>1, <1>2, <1>3, <2>1, <2>2, <2>3, <2>4 DEF StatsTypeOK
<1>5. Started'
  <2>1. Uncounted' = Uncounted
    BY <1>3 DEF Uncounted, Rows
  <2>2. QED
    BY <1>1, <1>2, <1>3, <2>1 DEF Started, FinitelyMany, StatsTypeOK
<1>6. (Started => Placed /\ FinitelyMany /\ Balanced /\ Fresh)'
  BY StartedHolds, PTL
<1>7. QED
  BY <1>4, <1>5, <1>6 DEF StatsInv

LEMMA StatsInitHolds == StatsInit => StatsInv
<1> SUFFICES ASSUME StatsInit PROVE StatsInv
  OBVIOUS
<1>1. PICK q \in [Request -> {Ask(t) : t \in Task}] : q = req
  BY DEF StatsInit
<1>2. \A r \in Request : /\ req[r] \in [task : Task, at : {"new", "write", "emit", "done"}, found : RowState]
                         /\ req[r].at = "new"
  BY <1>1 DEF Ask, RowState
<1>3. req \in [Request -> [task : Task, at : {"new", "write", "emit", "done"}, found : RowState]]
  BY <1>1, <1>2
<1>4. StatsTypeOK
  <2>1. seed \in [Seeder -> Run] /\ \A s \in Seeder : seed[s].at = "idle"
    BY RestingTyped DEF StatsInit
  <2>2. faults \in 0..MaxFaults /\ rows \in [Resource -> RowState]
    BY StatsAssumption DEF StatsInit
  <2>3. drifted \subseteq Drifting /\ uncounted \subseteq Endpoint /\ lingering = {}
    BY DEF StatsInit, Uncounted
  <2>4. QED
    BY <1>3, <2>1, <2>2, <2>3 DEF StatsInit, StatsTypeOK
<1>5. Started
  BY <1>2, <1>4, FiniteAssumption DEF Started, StatsInit, StatsTypeOK
<1>6. QED
  BY <1>4, <1>5, StartedHolds DEF StatsInv

-----------------------------------------------------------------------------
(* The theorems                                                             *)

LEMMA StatsStep == StatsInv /\ [StatsNext]_statsVars => StatsInv'
<1> SUFFICES ASSUME StatsInv, [StatsNext]_statsVars PROVE StatsInv'
  OBVIOUS
<1>1. CASE UNCHANGED statsVars
  <2>1. UNCHANGED <<live, known, rows, counters, startup, seed, req, faults, drifted, uncounted, lingering>>
    BY <1>1 DEF statsVars, history
  <2>2. StatsTypeOK' /\ Placed' /\ FinitelyMany' /\ Apart /\ Aside
    BY <2>1 DEF StatsInv, StatsTypeOK, Placed, FinitelyMany, Apart, Aside
  <2>3. Balanced' /\ Fresh'
    BY <2>1, <2>2, AsideKeeps, ApartKeepsFresh DEF StatsInv
  <2>4. QED
    BY <2>2, <2>3 DEF StatsInv
<1>2. ASSUME NEW r \in Request, Find(r) \/ Write(r) \/ Emit(r)
      PROVE  StatsInv'
  BY <1>2, FindKeeps, WriteKeeps, EmitKeeps
<1>6. ASSUME NEW r \in Request, Drop(r) \/ Forget(r) \/ Update(r) \/ Remember(r)
      PROVE  StatsInv'
  BY <1>6, DropKeeps, ForgetKeeps, UpdateKeeps, RememberKeeps
<1>3. ASSUME NEW s \in Seeder, Seed(s) \/ ReadUsers(s) \/ ReadGroups(s) \/ Apply(s)
      PROVE  StatsInv'
  BY <1>3, SeedKeeps, ReadUsersKeeps, ReadGroupsKeeps, ApplyKeeps
<1>4. CASE Restart
  BY <1>4, RestartKeeps
<1>5. QED
  BY <1>1, <1>2, <1>3, <1>4, <1>6 DEF StatsNext

(***************************************************************************)
(* In every reachable state each counter that no race has spoilt is what   *)
(* the table holds, but for the events still to come, and a count under    *)
(* way that no write has made old is the table's.                          *)
(***************************************************************************)
THEOREM StatsInvariant == StatsSpec => []StatsInv
<1>1. StatsInit => StatsInv
  BY StatsInitHolds
<1>2. StatsInv /\ [StatsNext]_statsVars => StatsInv'
  BY StatsStep
<1>3. QED
  BY <1>1, <1>2, PTL DEF StatsSpec

\* The shape of the state: no counter goes below zero, whatever events come.
THEOREM StatsTypeCorrect == StatsSpec => []StatsTypeOK
<1>1. StatsInv => StatsTypeOK
  BY DEF StatsInv
<1>2. QED
  BY <1>1, StatsInvariant, PTL

LEMMA ExactWhenQuiet == StatsInv => CountsExactUnlessRaced
<1> SUFFICES ASSUME StatsInv, NEW e \in live
             PROVE  /\ <<e, "user">> \notin drifted /\ ~Outstanding(e, "user") =>
                          Stats(e).users = Count(e, "user") /\ Stats(e).activeUsers = CountActive(e)
                    /\ <<e, "group">> \notin drifted /\ ~Outstanding(e, "group") =>
                          Stats(e).groups = Count(e, "group")
                    /\ e \notin uncounted /\ ~Outstanding(e, "resource") =>
                          Stats(e).resources = Count(e, "resource")
  BY DEF CountsExactUnlessRaced
<1>1. FinitelyMany /\ Balanced /\ Stats(e) \in Counter
  BY StatsAreCounters DEF StatsInv, StatsTypeOK
<1>2. /\ Stats(e).users \in Nat /\ Stats(e).activeUsers \in Nat
      /\ Stats(e).groups \in Nat /\ Stats(e).resources \in Nat
  BY <1>1 DEF Counter
<1>3. <<e, "user">> \notin drifted /\ ~Outstanding(e, "user") =>
          Stats(e).users = Count(e, "user") /\ Stats(e).activeUsers = CountActive(e)
  BY <1>1, <1>2, QuietTold DEF Balanced
<1>4. <<e, "group">> \notin drifted /\ ~Outstanding(e, "group") => Stats(e).groups = Count(e, "group")
  BY <1>1, <1>2, QuietTold DEF Balanced
<1>5. e \notin uncounted /\ ~Outstanding(e, "resource") => Stats(e).resources = Count(e, "resource")
  BY <1>1, <1>2, QuietTold DEF Balanced
<1>6. QED
  BY <1>3, <1>4, <1>5

(***************************************************************************)
(* The counters of the dashboard equal the table whenever the writes of    *)
(* their kind have been announced, except after one of the races that      *)
(* CountsExactUnlessRaced names.                                           *)
(***************************************************************************)
THEOREM CountsExact == StatsSpec => []CountsExactUnlessRaced
BY StatsInvariant, ExactWhenQuiet, PTL
=============================================================================
