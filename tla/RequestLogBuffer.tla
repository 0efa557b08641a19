-------------------------- MODULE RequestLogBuffer --------------------------
(***************************************************************************)
(* The buffer between the requests and the table RequestLog: LoggingService *)
(* (logging.service.ts) with the Prisma backend. recordRequest appends a   *)
(* row and either flushes or arms a timer; flushLogs takes the whole       *)
(* buffer and awaits one createMany; a batch that fails goes back to the   *)
(* front, above a cap the oldest rows are dropped and counted. The admin   *)
(* API forces a flush (flushPending), onModuleDestroy makes a last one.    *)
(*                                                                         *)
(* A row is its number in the order of recording. The table only grows     *)
(* here: clearing and pruning it do not touch the buffer.                  *)
(***************************************************************************)
EXTENDS Integers, Sequences, FiniteSets, Functions

CONSTANTS
    FlushMaxBuffer,  \* LOG_FLUSH_MAX_BUFFER
    RetryFactor,     \* the cap after a failed flush in buffers, 10 in the code
    Flusher,         \* force-flush requests of the admin API
    MaxRows,         \* bound: how many requests are recorded
    MaxFailures      \* bound: how many inserts the database rejects

ASSUME BufferAssumption == FlushMaxBuffer \in Nat \ {0} /\ RetryFactor \in Nat \ {0}
ASSUME BoundAssumption == MaxRows \in Nat /\ MaxFailures \in Nat

VARIABLES
    logBuffer,       \* rows waiting
    batch,           \* rows handed to createMany
    insert,          \* "none", or createMany is "sent" or "executed"
    flushTimer,      \* the handle: "none", "armed", or "fired" and still kept
    droppedLogRows,  \* rows given up, as the service counts them
    table,           \* the rows of RequestLog
    recorded,        \* how many rows there have been
    phase,           \* "up", "draining", "destroyed", "closed"
    drain,           \* where each force-flush is
    failures,        \* inserts rejected so far
    asked,           \* history: the rows in memory and the count of dropped
                     \* ones, when each force-flush began
    stopAt,          \* history: recorded, when shutdown began
    missed           \* history: rows may have been left to a flush that did not
                     \* run, or whose insert failed, and none has started since

serviceVars == <<logBuffer, batch, insert, flushTimer, droppedLogRows>>
logVars == <<serviceVars, table, recorded, phase, drain, failures, asked, stopAt, missed>>

Cap == RetryFactor * FlushMaxBuffer

shuttingDown == phase # "up"

\* flushInProgress
InProgress == insert # "none"

\* The rows in memory, in the order in which they will be inserted.
Pending == batch \o logBuffer

-----------------------------------------------------------------------------

Init ==
    /\ logBuffer = <<>> /\ batch = <<>> /\ insert = "none"
    /\ flushTimer = "none" /\ droppedLogRows = 0
    /\ table = {} /\ recorded = 0
    /\ phase = "up"
    /\ drain = [c \in Flusher |-> "idle"]
    /\ failures = 0
    /\ asked = [c \in Flusher |-> [rows |-> {}, dropped |-> 0]]
    /\ stopAt = 0
    /\ missed = FALSE

\* Mutant: the handle of the timer is kept.
FlushLogs_KeepsTimer(buffer, timer, allowed) ==
    IF allowed /\ ~InProgress /\ buffer # <<>>
    THEN /\ batch' = buffer /\ logBuffer' = <<>> /\ insert' = "sent"
         /\ flushTimer' = timer /\ missed' = FALSE
    ELSE /\ logBuffer' = buffer /\ flushTimer' = timer
         /\ missed' = (missed \/ (allowed /\ InProgress))
         /\ UNCHANGED <<batch, insert>>

\* flushLogs up to its await, with these rows in the buffer and this handle;
\* allowed: not shutting down, or called by the shutdown itself.
FlushLogs(buffer, timer, allowed) ==
    IF allowed /\ ~InProgress /\ buffer # <<>>
    THEN /\ batch' = buffer /\ logBuffer' = <<>> /\ insert' = "sent"
         /\ flushTimer' = "none" /\ missed' = FALSE
    ELSE /\ logBuffer' = buffer /\ flushTimer' = timer
         /\ missed' = (missed \/ (allowed /\ InProgress))
         /\ UNCHANGED <<batch, insert>>

\* The handle after a row has been buffered without a flush.
TimerAfterRecord ==
    IF flushTimer = "none" /\ ~shuttingDown THEN "armed" ELSE flushTimer

\* recordRequest: possible as long as there are requests, also while the
\* service shuts down.
RecordRequest ==
    /\ recorded < MaxRows /\ phase # "closed"
    /\ recorded' = recorded + 1
    /\ LET buffer == Append(logBuffer, recorded + 1) IN
       IF Len(buffer) >= FlushMaxBuffer
       THEN FlushLogs(buffer, flushTimer, ~shuttingDown)
       ELSE /\ logBuffer' = buffer
            /\ flushTimer' = TimerAfterRecord
            /\ UNCHANGED <<batch, insert, missed>>
    /\ UNCHANGED <<droppedLogRows, table, phase, drain, failures, asked, stopAt>>

\* The timer's callback; a handle that has fired is not null.
TimerFires ==
    /\ flushTimer = "armed"
    /\ FlushLogs(logBuffer, "fired", ~shuttingDown)
    /\ UNCHANGED <<droppedLogRows, table, recorded, phase, drain, failures, asked, stopAt>>

-----------------------------------------------------------------------------
(* The end of an insert                                                     *)

\* The database executes createMany, all rows or none (one that is under way
\* when the pool is closed may still succeed).
Execute ==
    /\ insert = "sent"
    /\ insert' = "executed"
    /\ table' = table \cup Range(batch)
    /\ UNCHANGED <<logBuffer, batch, flushTimer, droppedLogRows, recorded, phase,
                   drain, failures, asked, stopAt, missed>>

\* The finally block, and whoever awaited this flush goes on.
Release ==
    /\ insert' = "none" /\ batch' = <<>>
    /\ drain' = [c \in Flusher |-> IF drain[c] = "awaiting" THEN "check" ELSE drain[c]]
    /\ phase' = IF phase = "draining" THEN "destroyed" ELSE phase

Resolve ==
    /\ insert = "executed"
    /\ Release
    /\ UNCHANGED <<logBuffer, flushTimer, droppedLogRows, table, recorded, failures,
                   asked, stopAt, missed>>

\* Rows above the cap, 0 if there are none.
Excess == IF Len(Pending) > Cap THEN Len(Pending) - Cap ELSE 0

\* Mutant: the failed batch is queued behind the rows that came later.
Requeued_AtBack ==
    LET all == logBuffer \o batch IN SubSeq(all, Excess + 1, Len(all))

\* Mutant: the failure is only logged.
Requeued_Destroyed == logBuffer

\* The buffer after a failure: the batch in front, without the oldest rows.
Requeued == SubSeq(Pending, Excess + 1, Len(Pending))

\* The count after a failure.
CountDropped == droppedLogRows + Excess

\* createMany is rejected, before or (the answer is lost) after it executed.
Reject ==
    /\ InProgress
    /\ failures < MaxFailures
    /\ failures' = failures + 1
    /\ logBuffer' = Requeued
    /\ droppedLogRows' = CountDropped
    /\ missed' = TRUE
    /\ Release
    /\ UNCHANGED <<flushTimer, table, recorded, asked, stopAt>>

-----------------------------------------------------------------------------
(* flushPending                                                             *)

\* Mutant: one flush, which does nothing if another is running.
Drain_Once(c) ==
    IF InProgress \/ logBuffer = <<>>
    THEN drain' = [drain EXCEPT ![c] = "drained"] /\ UNCHANGED <<serviceVars, missed>>
    ELSE /\ FlushLogs(logBuffer, flushTimer, ~shuttingDown)
         /\ drain' = [drain EXCEPT ![c] = "awaiting"]
         /\ UNCHANGED droppedLogRows

\* One turn of the loop. During shutdown flushLogs returns at once, and the
\* loop spins, without letting anybody else run, until the deadline.
Drain(c) ==
    IF InProgress \/ logBuffer = <<>> \/ shuttingDown
    THEN /\ drain' = [drain EXCEPT ![c] =
                CASE InProgress -> "check"
                  [] ~InProgress /\ logBuffer = <<>> -> "drained"
                  [] OTHER -> "timeout"]
         /\ UNCHANGED <<serviceVars, missed>>
    ELSE /\ FlushLogs(logBuffer, flushTimer, TRUE)
         /\ drain' = [drain EXCEPT ![c] = "awaiting"]
         /\ UNCHANGED droppedLogRows

FlushPending(c) ==
    /\ drain[c] = "idle" /\ phase # "closed"
    /\ asked' = [asked EXCEPT ![c] = [rows |-> Range(Pending), dropped |-> droppedLogRows]]
    /\ Drain(c)
    /\ UNCHANGED <<table, recorded, phase, failures, stopAt>>

\* After the flush, or 25 ms later, the loop goes on ...
CheckAgain(c) ==
    /\ drain[c] = "check"
    /\ Drain(c)
    /\ UNCHANGED <<table, recorded, phase, failures, asked, stopAt>>

\* ... unless the deadline has passed.
Deadline(c) ==
    /\ drain[c] = "check"
    /\ drain' = [drain EXCEPT ![c] = "timeout"]
    /\ UNCHANGED <<serviceVars, table, recorded, phase, failures, asked, stopAt, missed>>

-----------------------------------------------------------------------------
(* Shutdown                                                                 *)

\* Mutant: the last flush is an ordinary one.
OnModuleDestroy_PlainFlush ==
    /\ phase = "up"
    /\ stopAt' = recorded
    /\ FlushLogs(logBuffer, "none", FALSE)
    /\ phase' = "destroyed"
    /\ UNCHANGED <<droppedLogRows, table, recorded, drain, failures, asked>>

\* The timer is cleared and the last flush begins; if there is one to await,
\* the hook returns when it ends.
OnModuleDestroy ==
    /\ phase = "up"
    /\ stopAt' = recorded
    /\ FlushLogs(logBuffer, "none", TRUE)
    /\ phase' = IF ~InProgress /\ logBuffer # <<>> THEN "draining" ELSE "destroyed"
    /\ UNCHANGED <<droppedLogRows, table, recorded, drain, failures, asked>>

\* The HTTP server has stopped and PrismaService closes the pool.
OnApplicationShutdown ==
    /\ phase = "destroyed"
    /\ phase' = "closed"
    /\ UNCHANGED <<serviceVars, table, recorded, drain, failures, asked, stopAt, missed>>

Done == phase = "closed" /\ UNCHANGED logVars

Next ==
    \/ RecordRequest \/ TimerFires
    \/ Execute \/ Resolve \/ Reject
    \/ \E c \in Flusher : FlushPending(c) \/ CheckAgain(c) \/ Deadline(c)
    \/ OnModuleDestroy \/ OnApplicationShutdown
    \/ Done

\* Timers fire and the database answers. Nobody has to send requests, to
\* force a flush or to stop the server.
Fairness ==
    /\ WF_logVars(TimerFires)
    /\ WF_logVars(Execute)
    /\ WF_logVars(Resolve \/ Reject)
    /\ \A c \in Flusher : WF_logVars(CheckAgain(c) \/ Deadline(c))

Spec == Init /\ [][Next]_logVars /\ Fairness

-----------------------------------------------------------------------------

\* The shape of the state.
TypeOK ==
    /\ logBuffer \in Seq(Nat) /\ batch \in Seq(Nat)
    /\ insert \in {"none", "sent", "executed"}
    /\ flushTimer \in {"none", "armed", "fired"}
    /\ droppedLogRows \in Nat
    /\ table \subseteq 1..recorded
    /\ recorded \in Nat /\ stopAt \in 0..recorded
    /\ phase \in {"up", "draining", "destroyed", "closed"}
    /\ drain \in [Flusher -> {"idle", "check", "awaiting", "drained", "timeout"}]
    /\ failures \in Nat
    /\ asked \in [Flusher -> [rows : SUBSET (1..recorded), dropped : 0..droppedLogRows]]
    /\ missed \in BOOLEAN

(***************************************************************************)
(* The rows in memory are the most recent ones, each once, in the order in *)
(* which they were recorded, whatever sequence of failed and successful    *)
(* flushes and new requests there was: a failed batch goes back in front   *)
(* of what came during its insert, and only the oldest rows are dropped.   *)
(***************************************************************************)
PendingInOrder ==
    \A i \in 1..Len(Pending) : Pending[i] = recorded - Len(Pending) + i

(***************************************************************************)
(* No audit row disappears silently: rows that are neither in memory nor   *)
(* in the table are covered by the count of dropped rows.                  *)
(***************************************************************************)
Missing == (1..recorded) \ (table \cup Range(Pending))

NothingLostSilently ==
    Cardinality(Missing) <= droppedLogRows

(***************************************************************************)
(* When a force-flush returns before its deadline, every row that was in   *)
(* memory at the call is in the table, also if another flush was running,  *)
(* or failed, meanwhile, except as many as the cap dropped after the call, *)
(* each of them counted. The comment of flushPending promises all of them: *)
(* "on return every entry buffered before the call is durable + queryable" *)
(* (logging.service.ts:450-452); the cap (:423-426) is the exception.      *)
(***************************************************************************)
FlushPendingDrains ==
    \A c \in Flusher :
        drain[c] = "drained" =>
            Cardinality(asked[c].rows \ table) <= droppedLogRows - asked[c].dropped

(***************************************************************************)
(* When the hook has returned, what is left in memory, and is lost with    *)
(* the process, is exactly what was recorded after the hook began, unless  *)
(* the hook met a flush in progress or an insert failed: then more is. The *)
(* comment of recordRequest has the final flush drain those late rows too  *)
(* (logging.service.ts:362-365), but that flush has taken the buffer by    *)
(* then, and every later one returns at once.                              *)
(***************************************************************************)
ShutdownDrains ==
    phase \in {"destroyed", "closed"} /\ ~missed =>
        Range(Pending) = (stopAt + 1)..recorded

(***************************************************************************)
(* Shutdown is one-way: a request still in flight never arms a timer that  *)
(* nobody will clear, and after the last flush no insert begins on a pool  *)
(* that is being closed.                                                   *)
(***************************************************************************)
ShutdownIsOneWay ==
    [][shuttingDown => flushTimer' # "armed" /\ (InProgress \/ insert' = "none")]_logVars

(***************************************************************************)
(* A recorded row reaches the table (or is dropped with a count), without  *)
(* any further request, unless a flush found another one in progress or    *)
(* an insert failed: then nothing but later traffic moves it on.           *)
(***************************************************************************)
RowsWrittenUnlessMissed ==
    \A k \in 1..MaxRows :
        (k <= recorded) ~> (k \notin Range(Pending) \/ missed \/ shuttingDown)

=============================================================================
