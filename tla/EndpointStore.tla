---------------------------- MODULE EndpointStore ----------------------------
(***************************************************************************)
(* The endpoint rows of the database, the two maps EndpointService caches  *)
(* them in, and the requests of the admin API that read and write both:    *)
(*                                                                         *)
(*   get      GET    /admin/endpoints/{id or name}                         *)
(*   settings PATCH  with one flag in profile.settings                     *)
(*   columns  PATCH  without a profile (active, displayName, description)  *)
(*   create   POST                                                         *)
(*   delete   DELETE                                                       *)
(*   add      POST   .../authentication/methods                            *)
(*   remove   DELETE .../authentication/methods/{methodId}                 *)
(*                                                                         *)
(* The process is single-threaded; requests interleave where the code      *)
(* awaits the database. A query executes in the database in one step, and  *)
(* the code after the await runs in a later one, so answers may be handled *)
(* in another order than the queries executed. add and remove run under    *)
(* the keyed lock (module KeyedMutex), the others do not.                  *)
(*                                                                         *)
(* A profile is its settings and its authentication methods. A written     *)
(* value is the request that wrote it.                                     *)
(***************************************************************************)
EXTENDS Naturals, FiniteSets

CONSTANTS
    Request,      \* admin requests
    Id,           \* endpoint ids, those still to be generated included
    Name,         \* endpoint names
    Flag,         \* keys of profile.settings
    Operation,    \* the requests clients may send (records, see below)
    FirstRows,    \* the rows the database holds at start-up
    FirstMethod,  \* the authentication method those rows have
    MaxFailures,  \* bound: how many queries the database rejects
    NoRow,        \* no such row, no cache entry
    NoRequest     \* a value nobody has written yet; no lock entry

ASSUME MaxFailuresAssumption == MaxFailures \in Nat
ASSUME DistinctNone == NoRequest \notin Request /\ FirstMethod \notin Request

Method == Request \cup {FirstMethod}

Row == [id : Id, name : Name,
        settings : [Flag -> Request \cup {NoRequest}],
        methods : SUBSET Method,
        columns : Request \cup {NoRequest}]

\* What clients may ask for: a get has an id or a name, any other request an id.
\* The rows of start-up have methods that no request to come adds.
ASSUME OperationAssumption ==
    /\ \A o \in Operation :
        /\ o.kind \in {"get", "settings", "columns", "create", "delete", "add", "remove"}
        /\ o.ref \in IF o.kind = "get" THEN Id \cup Name ELSE Id
        /\ o.kind = "settings" => o.flag \in Flag
        /\ o.kind = "create" => o.name \in Name
    /\ FirstRows \subseteq Row
    /\ \A e \in FirstRows : e.methods \subseteq {FirstMethod}
    /\ NoRow \notin Row
    /\ Id # {}

VARIABLES
    db,           \* table Endpoint, by id
    generated,    \* the ids the database has ever given out
    cacheById,    \* EndpointService.cacheById
    cacheByName,  \* EndpointService.cacheByName
    op,           \* what each request asks for
    pc,           \* where each request is
    row,          \* the row its last query returned
    loaded,       \* add, remove: the methods loadAuthentication returned
    captured,     \* delete: the cache entry it saw on arrival
    result,       \* what the client is told
    tails, stage, key, prev,   \* the keyed lock
    raced         \* history: the requests whose window a step fell into

lockVars == <<tails, stage, key, prev>>
cacheVars == <<cacheById, cacheByName>>
vars == <<db, generated, cacheById, cacheByName, op, pc, row, loaded, captured,
          result, lockVars, raced>>

Lock == INSTANCE KeyedMutex WITH
            Call <- Request, Key <- Id, NoCall <- NoRequest

-----------------------------------------------------------------------------

Locks(r) == op[r].kind \in {"add", "remove"}

NoRows == [i \in Id |-> NoRow]

\* The row a query by name finds.
FindByName(name) ==
    LET found == {i \in Id : db[i] # NoRow /\ db[i].name = name}
    IN  IF found = {} THEN NoRow ELSE db[CHOOSE i \in found : TRUE]

\* The row getEndpoint's query by id, then by name finds. (A name that is also
\* the uuid of an endpoint is not modelled.)
Find(ref) == IF ref \in Id THEN db[ref] ELSE FindByName(ref)

\* getEndpoint looks in both maps before it asks the database.
Cached(ref) == IF ref \in Id THEN cacheById[ref] ELSE cacheByName[ref]

\* Mutant: the entry by name is forgotten.
CacheSet_ByIdOnly(e) ==
    /\ cacheById' = [cacheById EXCEPT ![e.id] = e]
    /\ UNCHANGED cacheByName

CacheSet(e) ==
    /\ cacheById' = [cacheById EXCEPT ![e.id] = e]
    /\ cacheByName' = [cacheByName EXCEPT ![e.name] = e]

CacheDelete(e) ==
    /\ cacheById' = [cacheById EXCEPT ![e.id] = NoRow]
    /\ cacheByName' = [cacheByName EXCEPT ![e.name] = NoRow]

\* The endpoint a request is about; a get by name has one once it has a row.
About(r) == IF op[r].ref \in Id THEN op[r].ref
            ELSE IF row[r] = NoRow THEN NoRow ELSE row[r].id

\* r has read, in the database or (delete) the cache, what it will act upon.
InWindow(r) ==
    \/ pc[r] \in {"commit", "apply", "filled"}
    \/ pc[r] = "read" /\ op[r].kind = "delete"

Overlapping(r) == {q \in Request \ {r} : InWindow(q) /\ About(q) = About(r)}

Mark(r, others) == raced' = [raced EXCEPT ![r] = @ \cup others]

\* The request is over; one that runs under the lock has the finally left.
Answer(r, what) ==
    /\ result' = [result EXCEPT ![r] = what]
    /\ pc' = [pc EXCEPT ![r] = IF Locks(r) THEN "unlock" ELSE "done"]

Goto(r, label) ==
    /\ pc' = [pc EXCEPT ![r] = label]
    /\ UNCHANGED result

-----------------------------------------------------------------------------
(* Start-up: onModuleInit warms the cache, or fails and leaves it empty.   *)

Init ==
    /\ db = [i \in Id |-> IF \E e \in FirstRows : e.id = i
                          THEN CHOOSE e \in FirstRows : e.id = i
                          ELSE NoRow]
    /\ generated = {e.id : e \in FirstRows}
    /\ \/ /\ cacheById = db
          /\ cacheByName = [n \in Name |-> FindByName(n)]
       \/ /\ cacheById = NoRows
          /\ cacheByName = [n \in Name |-> NoRow]
    /\ op \in [Request -> Operation]
    /\ pc = [r \in Request |-> "idle"]
    /\ row = [r \in Request |-> NoRow]
    /\ loaded = [r \in Request |-> {}]
    /\ captured = [r \in Request |-> NoRow]
    /\ result = [r \in Request |-> "none"]
    /\ tails = [i \in Id |-> NoRequest]
    /\ stage = [r \in Request |-> "idle"]
    /\ key = [r \in Request |-> IF op[r].ref \in Id THEN op[r].ref ELSE CHOOSE i \in Id : TRUE]
    /\ prev = [r \in Request |-> NoRequest]
    /\ raced = [r \in Request |-> {}]

-----------------------------------------------------------------------------
(* getEndpoint                                                              *)

\* A hit is answered at once, a miss queries the database.
ArriveGet(r) ==
    /\ pc[r] = "idle" /\ op[r].kind = "get"
    /\ IF Cached(op[r].ref) # NoRow
       THEN Answer(r, "ok")
       ELSE Goto(r, "fill")
    /\ UNCHANGED <<db, generated, cacheVars, op, row, loaded, captured, lockVars, raced>>

\* The query of a miss; neither lookup finding a row is a 404.
FillRead(r) ==
    /\ pc[r] = "fill"
    /\ row' = [row EXCEPT ![r] = Find(op[r].ref)]
    /\ IF Find(op[r].ref) # NoRow THEN Goto(r, "filled") ELSE Answer(r, "error")
    /\ UNCHANGED <<db, generated, cacheVars, op, loaded, captured, lockVars, raced>>

\* loadAuthentication has the block; remove looks for its method in it.
TakeBlock(r, methods) ==
    /\ loaded' = [loaded EXCEPT ![r] = methods]
    /\ IF op[r].kind = "remove" /\ op[r].method \notin methods
       THEN Answer(r, "error")
       ELSE Goto(r, "read")

\* The row that was read goes into the cache, whatever happened since.
FillApply(r) ==
    /\ pc[r] = "filled"
    /\ CacheSet(row[r])
    /\ Mark(r, Overlapping(r))
    /\ IF Locks(r)
       THEN TakeBlock(r, row[r].methods)
       ELSE Answer(r, "ok") /\ UNCHANGED loaded
    /\ UNCHANGED <<db, generated, op, row, captured, lockVars>>

-----------------------------------------------------------------------------
(* add and remove: the read-modify-write under the keyed lock              *)

ArriveLocked(r) ==
    /\ pc[r] = "idle" /\ Locks(r)
    /\ Lock!Enter(r)
    /\ Goto(r, "locked")
    /\ UNCHANGED <<db, generated, cacheVars, op, row, loaded, captured, raced>>

\* The lock's turn comes: loadAuthentication reads through the cache.
LoadBlock(r) ==
    /\ pc[r] = "locked"
    /\ Lock!Start(r)
    /\ IF Cached(op[r].ref) # NoRow
       THEN TakeBlock(r, Cached(op[r].ref).methods)
       ELSE Goto(r, "fill") /\ UNCHANGED loaded
    /\ UNCHANGED <<db, generated, cacheVars, op, row, captured, raced>>

\* Mutant: release() is not in a finally block.
Unlock_OnSuccessOnly(r) ==
    /\ pc[r] = "unlock"
    /\ IF result[r] = "ok" THEN Lock!Finish(r, "resolved") ELSE UNCHANGED lockVars
    /\ Goto(r, "done")
    /\ UNCHANGED <<db, generated, cacheVars, op, row, loaded, captured, raced>>

Unlock(r) ==
    /\ pc[r] = "unlock"
    /\ Lock!Finish(r, IF result[r] = "ok" THEN "resolved" ELSE "rejected")
    /\ Goto(r, "done")
    /\ UNCHANGED <<db, generated, cacheVars, op, row, loaded, captured, raced>>

-----------------------------------------------------------------------------
(* updateEndpoint, createEndpoint, deleteEndpoint                          *)

\* delete remembers the cache entry it finds before its first await.
ArriveWrite(r) ==
    /\ pc[r] = "idle" /\ op[r].kind \in {"settings", "columns", "create", "delete"}
    /\ captured' = [captured EXCEPT ![r] =
            IF op[r].kind = "delete" THEN cacheById[op[r].ref] ELSE NoRow]
    /\ Goto(r, "read")
    /\ UNCHANGED <<db, generated, cacheVars, op, row, loaded, lockVars, raced>>

\* findUnique: by id for an update or delete, by name for a create.
ReadRow(r) ==
    /\ pc[r] = "read"
    /\ LET found == IF op[r].kind = "create" THEN FindByName(op[r].name) ELSE db[op[r].ref]
       IN  /\ row' = [row EXCEPT ![r] = found]
           /\ IF (op[r].kind = "create") <=> (found = NoRow)
              THEN Goto(r, "commit")
              ELSE Answer(r, "error")
    /\ UNCHANGED <<db, generated, cacheVars, op, loaded, captured, lockVars, raced>>

\* Mutant: the settings of the request replace those of the row.
Merged_SettingsReplaced(r, current) ==
    CASE op[r].kind = "columns" ->
            [current EXCEPT !.columns = r]
      [] op[r].kind = "settings" ->
            [current EXCEPT !.settings = [f \in Flag |-> IF f = op[r].flag THEN r ELSE NoRequest],
                            !.methods = row[r].methods]
      [] op[r].kind = "add" -> [current EXCEPT !.methods = loaded[r] \cup {r}]
      [] op[r].kind = "remove" -> [current EXCEPT !.methods = loaded[r] \ {op[r].method}]

\* Mutant: a settings update stores the whole row it read.
Merged_WholeRow(r, current) ==
    CASE op[r].kind = "columns" ->
            [current EXCEPT !.columns = r]
      [] op[r].kind = "settings" ->
            [row[r] EXCEPT !.settings = [row[r].settings EXCEPT ![op[r].flag] = r]]
      [] op[r].kind = "add" -> [current EXCEPT !.methods = loaded[r] \cup {r}]
      [] op[r].kind = "remove" -> [current EXCEPT !.methods = loaded[r] \ {op[r].method}]

\* The row mergeProfilePartial and prisma.update write over the current row:
\* a profile is written whole, from the row that was read; an update without
\* a profile leaves that column alone.
Merged(r, current) ==
    LET profileOf == row[r] IN
    CASE op[r].kind = "columns" ->
            [current EXCEPT !.columns = r]
      [] op[r].kind = "settings" ->
            [current EXCEPT !.settings = [profileOf.settings EXCEPT ![op[r].flag] = r],
                            !.methods = profileOf.methods]
      [] op[r].kind = "add" ->
            [current EXCEPT !.settings = profileOf.settings,
                            !.methods = loaded[r] \cup {r}]
      [] op[r].kind = "remove" ->
            [current EXCEPT !.settings = profileOf.settings,
                            !.methods = loaded[r] \ {op[r].method}]

NewRow(r) ==
    [id |-> op[r].ref, name |-> op[r].name,
     settings |-> [f \in Flag |-> NoRequest], methods |-> {}, columns |-> NoRequest]

\* The database's answer to each write: the row written, or none if it refuses
\* (no row to update or delete, or the name is taken).
Accepts(r) ==
    IF op[r].kind = "create"
    THEN op[r].ref \notin generated /\ FindByName(op[r].name) = NoRow
    ELSE db[op[r].ref] # NoRow

RowAfter(r) ==
    CASE op[r].kind = "create" -> NewRow(r)
      [] op[r].kind = "delete" -> NoRow
      [] OTHER -> Merged(r, db[op[r].ref])

\* Mutant: the update is an upsert of the row that was read.
Commit_Upsert(r) ==
    LET new == IF op[r].kind \in {"create", "delete"} THEN RowAfter(r) ELSE Merged(r, row[r])
    IN  /\ pc[r] = "commit"
        /\ db' = [db EXCEPT ![op[r].ref] = new]
        /\ row' = [row EXCEPT ![r] = new]
        /\ generated' = generated \cup {op[r].ref}
        /\ Mark(r, Overlapping(r))
        /\ Goto(r, "apply")
        /\ UNCHANGED <<cacheVars, op, loaded, captured, lockVars>>

Commit(r) ==
    /\ pc[r] = "commit"
    /\ IF Accepts(r)
       THEN /\ db' = [db EXCEPT ![op[r].ref] = RowAfter(r)]
            /\ row' = [row EXCEPT ![r] = RowAfter(r)]
            /\ generated' = generated \cup {op[r].ref}
            /\ Mark(r, Overlapping(r))
            /\ Goto(r, "apply")
       ELSE Answer(r, "error") /\ UNCHANGED <<db, generated, row, raced>>
    /\ UNCHANGED <<cacheVars, op, loaded, captured, lockVars>>

\* The code after the write: put the returned row in the cache, or drop the
\* entry seen on arrival, if there was one.
Apply(r) ==
    /\ pc[r] = "apply"
    /\ IF op[r].kind = "delete"
       THEN IF captured[r] # NoRow THEN CacheDelete(captured[r]) ELSE UNCHANGED cacheVars
       ELSE CacheSet(row[r])
    /\ Mark(r, {q \in Overlapping(r) : op[q].kind = "delete"})
    /\ Answer(r, "ok")
    /\ UNCHANGED <<db, generated, op, row, loaded, captured, lockVars>>

\* A query is rejected: it did not execute, or its answer was lost after it did.
DatabaseFails(r) ==
    /\ pc[r] \in {"fill", "read", "commit", "apply"}
    /\ Cardinality({q \in Request : result[q] \in {"failed", "lost"}}) < MaxFailures
    /\ Answer(r, IF pc[r] = "apply" THEN "lost" ELSE "failed")
    /\ UNCHANGED <<db, generated, cacheVars, op, row, loaded, captured, lockVars, raced>>

-----------------------------------------------------------------------------

Step(r) ==
    \/ FillRead(r) \/ FillApply(r)
    \/ LoadBlock(r) \/ Unlock(r)
    \/ ReadRow(r) \/ Commit(r) \/ Apply(r)

Arrive(r) == ArriveGet(r) \/ ArriveLocked(r) \/ ArriveWrite(r)

Done ==
    /\ \A r \in Request : pc[r] = "done"
    /\ UNCHANGED vars

Next == (\E r \in Request : Arrive(r) \/ Step(r) \/ DatabaseFails(r)) \/ Done

\* The event loop handles every answer; the database answers or times out.
\* Clients need not send anything.
Fairness == \A r \in Request : WF_vars(Step(r) \/ DatabaseFails(r))

Spec == Init /\ [][Next]_vars /\ Fairness

-----------------------------------------------------------------------------

\* The shape of the state.
TypeOK ==
    /\ db \in [Id -> Row \cup {NoRow}]
    /\ generated \in SUBSET Id
    /\ cacheById \in [Id -> Row \cup {NoRow}]
    /\ cacheByName \in [Name -> Row \cup {NoRow}]
    /\ op \in [Request -> Operation]
    /\ pc \in [Request -> {"idle", "locked", "fill", "filled", "read", "commit",
                           "apply", "unlock", "done"}]
    /\ row \in [Request -> Row \cup {NoRow}]
    /\ loaded \in [Request -> SUBSET Method]
    /\ captured \in [Request -> Row \cup {NoRow}]
    /\ result \in [Request -> {"none", "ok", "error", "failed", "lost"}]
    /\ raced \in [Request -> SUBSET Request]
    /\ Lock!MutexTypeOK

Acked(r) == result[r] = "ok"

\* Requests outside the lock whose window an acknowledged write of r fell into.
Outsiders(r) == {q \in raced[r] : ~Locks(q)}

\* Somebody asked to remove the method.
RemovalAsked(method) ==
    \E q \in Request : op[q].kind = "remove" /\ op[q].method = method /\ pc[q] # "idle"

\* Some write or fill about endpoint i overlapped another, or its answer was lost.
Disturbed(i) ==
    \E r \in Request : About(r) = i /\ (raced[r] # {} \/ result[r] = "lost")

AtRest == \A r \in Request : pc[r] \in {"idle", "done"}

(***************************************************************************)
(* What the keyed lock is for: an authentication method whose add was      *)
(* acknowledged stays in the endpoint's row until somebody asks for its    *)
(* removal, and one whose removal was acknowledged, which clients may have *)
(* been told is revoked, does not come back with a block some other        *)
(* request had read before, whatever other adds and removes run at the     *)
(* same time. Only a request that does not take the lock (a settings       *)
(* PATCH, a cache fill), and only if the change fell between its read and  *)
(* its end, can undo it.                                                   *)
(***************************************************************************)
MethodChangesStand ==
    \A r \in Request :
        /\ Locks(r) /\ Acked(r) /\ Outsiders(r) = {}
        /\ db[op[r].ref] # NoRow
        => /\ op[r].kind = "add" => r \in db[op[r].ref].methods \/ RemovalAsked(r)
           /\ op[r].kind = "remove" => op[r].method \notin db[op[r].ref].methods

(***************************************************************************)
(* A flag that was acknowledged keeps its value while nobody else writes   *)
(* that flag, unless the write fell into the window of a write that had    *)
(* read the profile before: every profile write stores the whole profile.  *)
(***************************************************************************)
SettingStaysUnlessOverlapped ==
    \A r \in Request :
        /\ op[r].kind = "settings" /\ Acked(r) /\ raced[r] = {}
        /\ \A q \in Request \ {r} : op[q].kind = "settings" => op[q].flag # op[r].flag
        /\ db[op[r].ref] # NoRow
        => db[op[r].ref].settings[op[r].flag] = r

(***************************************************************************)
(* An update that sends no profile (deactivating an endpoint, renaming its *)
(* display) is never undone by any other write, overlapping or not: a      *)
(* profile write must not carry the columns of the row it read.            *)
(***************************************************************************)
DeactivationStands ==
    \A r \in Request :
        /\ op[r].kind = "columns" /\ Acked(r)
        /\ \A q \in Request \ {r} : op[q].kind # "columns"
        /\ db[op[r].ref] # NoRow
        => db[op[r].ref].columns = r

(***************************************************************************)
(* When nothing is in flight, what the caches would answer is what the     *)
(* database holds, so authentication and configuration decisions (which    *)
(* read only the cache) use current data, and a deleted endpoint is gone   *)
(* from both maps. The exceptions are exactly the races the code has: two  *)
(* windows on one endpoint that overlapped, or a write whose answer was    *)
(* lost.                                                                   *)
(***************************************************************************)
CacheAgreesAtRest ==
    AtRest =>
        \A e \in {cacheById[i] : i \in Id} \cup {cacheByName[n] : n \in Name} :
            e = NoRow \/ e = db[e.id] \/ Disturbed(e.id)

(***************************************************************************)
(* A deleted endpoint is never written back by an update or a locked write *)
(* that had read it before.                                                *)
(***************************************************************************)
DeletedNeverReturns ==
    [][\A i \in Id : i \in generated /\ db[i] = NoRow => db'[i] = NoRow]_vars

(***************************************************************************)
(* Every request is answered, also when the database rejects a query while *)
(* the request holds the lock and others wait behind it.                   *)
(***************************************************************************)
EveryRequestEnds ==
    \A r \in Request : (pc[r] # "idle") ~> (pc[r] = "done")

(***************************************************************************)
(* The endpoint write-concurrency doc: two admins toggling two different   *)
(* config flags "both succeed, because the server merges per key", a lost  *)
(* update of settings is not possible.                                     *)
(***************************************************************************)
TogglesOfDifferentFlagsSurvive ==
    \A r \in Request :
        /\ op[r].kind = "settings" /\ Acked(r)
        /\ \A q \in Request \ {r} : op[q].kind = "settings" => op[q].flag # op[r].flag
        /\ db[op[r].ref] # NoRow
        => db[op[r].ref].settings[op[r].flag] = r

=============================================================================
