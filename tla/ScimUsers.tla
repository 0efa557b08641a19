------------------------------ MODULE ScimUsers ------------------------------
(***************************************************************************)
(* The users of one endpoint: the SCIM requests of                         *)
(* endpoint-scim-users.service.ts over the table ScimResource, with the    *)
(* Prisma repository. A request is a chain of awaits (find, look for a     *)
(* conflicting userName, write), and other requests run between any two of *)
(* them. The service computes what it writes from the row it found first;  *)
(* only the increment of the version and the unique index on userName are  *)
(* decided in the database, at the write.                                  *)
(*                                                                         *)
(* A request's payload is abstract: the value it writes into an attribute  *)
(* is the request itself. userName stands for its case-folded form (the    *)
(* column is CITEXT). Requests that fail validation are left out: they end *)
(* before the first write with a 400.                                      *)
(***************************************************************************)
EXTENDS Integers, FiniteSets

CONSTANTS
    Request,      \* SCIM requests
    Id,           \* scimIds, those still to be generated included
    UserName,
    Attr,         \* the attributes beside userName and active
    Operation,    \* what clients may ask for (records)
    FirstUsers,   \* [Id -> user or NoUser]: the table at the start
    Config,       \* the endpoint configurations to consider
    MaxFailures,  \* bound: how many queries the database rejects
    NoUser,       \* no such row
    NoRequest     \* an attribute value from before

ASSUME NoRequestAssumption == NoRequest \notin Request
ASSUME FailuresAssumption == MaxFailures \in Nat

\* If-Match: absent, "*", or the number in W/"vN".
NoIfMatch == 0
AnyVersion == -1

Content == [userName : UserName, active : BOOLEAN, data : [Attr -> Request \cup {NoRequest}]]
User == [version : Nat \ {0}, content : Content]

ASSUME FirstUsersAssumption ==
    /\ NoUser \notin User /\ NoUser \notin Content
    /\ FirstUsers \in [Id -> User \cup {NoUser}]
    /\ \A i \in Id : FirstUsers[i] # NoUser => FirstUsers[i].version = 1
    /\ \A i, j \in Id : FirstUsers[i] # NoUser /\ FirstUsers[j] # NoUser /\ i # j =>
            FirstUsers[i].content.userName # FirstUsers[j].content.userName

ASSUME OperationAssumption ==
    \A o \in Operation :
        /\ o.kind \in {"create", "get", "patch", "replace", "delete"}
        /\ o.id \in Id
        /\ o.kind \in {"patch", "replace", "delete"} => o.ifMatch \in Int
        /\ o.kind \in {"create", "replace"} => o.userName \in UserName /\ o.active \in BOOLEAN
        /\ o.kind = "patch" =>
              \/ o.path = "userName" /\ o.value \in UserName
              \/ o.path = "active" /\ o.value \in BOOLEAN
              \/ o.path \in Attr \ {"userName", "active"}

VARIABLES
    users,      \* table ScimResource, the users of the endpoint by scimId
    versions,   \* the last version each id has had, 0 if never created
    config,     \* UserHardDeleteEnabled, UserSoftDeleteEnabled, RequireIfMatch,
                \* and whether ETags are supported (etag.supported)
    op,         \* what each request asks for
    pc,         \* where each request is
    found,      \* the row findByScimId returned
    written,    \* the row the write returned
    status,     \* the HTTP status the client got, 0 before
    events,     \* what the last step emitted
    history,    \* history: every representation the table has held
    raced       \* history: the requests whose window a write fell into

userVars == <<users, versions, config, op, pc, found, written, status, events,
              history, raced>>

-----------------------------------------------------------------------------

Existing == {i \in Id : users[i] # NoUser}

\* findConflict: another user of the endpoint with this userName.
NameTaken(name, exclude) ==
    \E i \in Existing \ {exclude} : users[i].content.userName = name

\* Mutant: only a version the client cannot know yet is refused.
IfMatchStatus_Newer(ifMatch, version) ==
    IF config.etag /\ ifMatch > version THEN 412 ELSE 200

\* enforceIfMatch: the status it throws with, 200 if it does not.
IfMatchStatus(ifMatch, version) ==
    CASE ~config.etag -> 200
      [] config.etag /\ ifMatch = NoIfMatch -> IF config.requireIfMatch THEN 428 ELSE 200
      [] OTHER -> IF ifMatch \in {AnyVersion, version} THEN 200 ELSE 412

\* Mutant: the payload of the row is not carried over.
Patched_FreshPayload(r) ==
    [userName |-> IF op[r].path = "userName" THEN op[r].value ELSE found[r].content.userName,
     active |-> IF op[r].path = "active" THEN op[r].value ELSE found[r].content.active,
     data |-> [a \in Attr |-> IF a = op[r].path THEN r ELSE NoRequest]]

\* UserPatchEngine.apply: all fields of the row that was found, one changed.
Patched(r) ==
    LET o == op[r]
        old == found[r].content
    IN  CASE o.path = "userName" -> [old EXCEPT !.userName = o.value]
          [] o.path = "active" -> [old EXCEPT !.active = o.value]
          [] OTHER -> [old EXCEPT !.data = [old.data EXCEPT ![o.path] = r]]

\* The content the request writes; create and replace take it from the body.
NewContent(r) ==
    IF op[r].kind = "patch"
    THEN Patched(r)
    ELSE [userName |-> op[r].userName, active |-> op[r].active, data |-> [a \in Attr |-> r]]

Answer(r, code) ==
    /\ status' = [status EXCEPT ![r] = code]
    /\ pc' = [pc EXCEPT ![r] = "done"]

Goto(r, label) ==
    /\ pc' = [pc EXCEPT ![r] = label]
    /\ UNCHANGED status

\* r has read the row of its user and has not written yet.
InWindow(r) == pc[r] \in {"conflict", "commit"} /\ op[r].kind # "create"

-----------------------------------------------------------------------------

Init ==
    /\ users = FirstUsers
    /\ versions = [i \in Id |-> IF FirstUsers[i] = NoUser THEN 0 ELSE 1]
    /\ config \in Config
    /\ op \in [Request -> Operation]
    /\ pc = [r \in Request |-> "idle"]
    /\ found = [r \in Request |-> NoUser]
    /\ written = [r \in Request |-> NoUser]
    /\ status = [r \in Request |-> 0]
    /\ events = {}
    /\ history = {<<i, FirstUsers[i]>> : i \in {j \in Id : FirstUsers[j] # NoUser}}
    /\ raced = [r \in Request |-> {}]

Arrive(r) ==
    /\ pc[r] = "idle"
    /\ Goto(r, IF op[r].kind = "create" THEN "conflict" ELSE "find")
    /\ events' = {}
    /\ UNCHANGED <<users, versions, config, op, found, written, history, raced>>

\* What the code throws between findByScimId and the next await: the hard
\* delete gate comes before If-Match, the soft delete gate after it.
StatusAfterFind(r, row) ==
    LET precondition == IfMatchStatus(op[r].ifMatch, row.version)
        deactivated == IF op[r].path = "active" THEN ~op[r].value ELSE ~row.content.active
    IN  CASE op[r].kind = "delete" /\ ~config.hardDelete -> 400
          [] op[r].kind = "patch" /\ precondition = 200 /\ deactivated /\ ~config.softDelete -> 400
          [] OTHER -> precondition

\* findByScimId, and everything up to the next await.
Find(r) ==
    /\ pc[r] = "find"
    /\ LET row == users[op[r].id] IN
       /\ found' = [found EXCEPT ![r] = row]
       /\ IF row = NoUser THEN Answer(r, 404)
          ELSE IF op[r].kind = "get" THEN Answer(r, 200)
          ELSE IF StatusAfterFind(r, row) # 200 THEN Answer(r, StatusAfterFind(r, row))
          ELSE Goto(r, IF op[r].kind = "delete" THEN "commit" ELSE "conflict")
    /\ events' = {}
    /\ UNCHANGED <<users, versions, config, op, written, history, raced>>

\* findConflict, for the userName the request would write.
CheckConflict(r) ==
    /\ pc[r] = "conflict"
    /\ IF NameTaken(NewContent(r).userName, op[r].id)
       THEN Answer(r, 409)
       ELSE Goto(r, "commit")
    /\ events' = {}
    /\ UNCHANGED <<users, versions, config, op, found, written, history, raced>>

\* Mutant: the table has no unique index on userName.
Refusal_NoIndex(r) ==
    IF op[r].kind # "create" /\ op[r].id \notin Existing THEN 404 ELSE 200

\* The database refuses a write: no such row, or the unique index.
Refusal(r) ==
    CASE op[r].kind = "create" ->
            IF versions[op[r].id] # 0 \/ NameTaken(op[r].userName, op[r].id) THEN 409 ELSE 200
      [] op[r].kind = "delete" ->
            IF op[r].id \notin Existing THEN 404 ELSE 200
      [] OTHER ->
            IF op[r].id \notin Existing THEN 404
            ELSE IF NameTaken(NewContent(r).userName, op[r].id) THEN 409 ELSE 200

\* Mutant: the new version is computed from the row that was found.
RowAfter_SnapshotVersion(r) ==
    CASE op[r].kind = "delete" -> NoUser
      [] op[r].kind = "create" -> [version |-> 1, content |-> NewContent(r)]
      [] OTHER -> [version |-> found[r].version + 1, content |-> NewContent(r)]

\* The row after the write; the version is incremented in the database.
RowAfter(r) ==
    CASE op[r].kind = "delete" -> NoUser
      [] op[r].kind = "create" -> [version |-> 1, content |-> NewContent(r)]
      [] OTHER -> [version |-> users[op[r].id].version + 1, content |-> NewContent(r)]

\* create, update or delete of the repository.
Commit(r) ==
    /\ pc[r] = "commit"
    /\ IF Refusal(r) # 200
       THEN Answer(r, Refusal(r)) /\ UNCHANGED <<users, versions, written, history, raced>>
       ELSE LET row == RowAfter(r) IN
            /\ users' = [users EXCEPT ![op[r].id] = row]
            /\ written' = [written EXCEPT ![r] = row]
            /\ IF row = NoUser
               THEN UNCHANGED <<versions, history>>
               ELSE /\ versions' = [versions EXCEPT ![op[r].id] = row.version]
                    /\ history' = history \cup {<<op[r].id, row>>}
            /\ raced' = [raced EXCEPT ![r] =
                    {q \in Request \ {r} : InWindow(q) /\ op[q].id = op[r].id}]
            /\ Goto(r, "reply")
    /\ events' = {}
    /\ UNCHANGED <<config, op, found>>

\* The events of a write compare the row found with the row written.
Emitted(r) ==
    CASE op[r].kind = "create" ->
            {[type |-> "USER_CREATED", active |-> op[r].active]}
      [] op[r].kind = "delete" ->
            {[type |-> "USER_DELETED", active |-> found[r].content.active]}
      [] OTHER ->
            {[type |-> "USER_UPDATED", active |-> written[r].content.active]}
            \cup {[type |-> "USER_STATUS_CHANGED", active |-> c] :
                     c \in {written[r].content.active} \ {found[r].content.active}}

\* The code after the write: emit, and answer with the row written.
Reply(r) ==
    /\ pc[r] = "reply"
    /\ events' = Emitted(r)
    /\ Answer(r, 200)
    /\ UNCHANGED <<users, versions, config, op, found, written, history, raced>>

\* A query is rejected, or the answer to an executed one is lost: the
\* repository error becomes a 500 or 503, and nothing is emitted.
DatabaseFails(r) ==
    /\ Cardinality({q \in Request : status[q] = 500}) < MaxFailures
    /\ pc[r] \in {"find", "conflict", "commit", "reply"}
    /\ Answer(r, 500)
    /\ events' = {}
    /\ UNCHANGED <<users, versions, config, op, found, written, history, raced>>

Done ==
    /\ \A r \in Request : pc[r] = "done"
    /\ UNCHANGED userVars

Next ==
    \/ \E r \in Request :
          Arrive(r) \/ Find(r) \/ CheckConflict(r) \/ Commit(r) \/ Reply(r) \/ DatabaseFails(r)
    \/ Done

Spec == Init /\ [][Next]_userVars

-----------------------------------------------------------------------------

\* The shape of the state.
TypeOK ==
    /\ users \in [Id -> User \cup {NoUser}]
    /\ versions \in [Id -> Nat]
    /\ config \in Config
    /\ op \in [Request -> Operation]
    /\ pc \in [Request -> {"idle", "find", "conflict", "commit", "reply", "done"}]
    /\ found \in [Request -> User \cup {NoUser}]
    /\ written \in [Request -> User \cup {NoUser}]
    /\ status \in [Request -> {0, 200, 400, 404, 409, 412, 428, 500}]
    /\ raced \in [Request -> SUBSET Request]
    /\ history \subseteq Id \X User

Acked(r) == status[r] = 200

Updates(r) == op[r].kind \in {"patch", "replace"}

\* q writes something r writes too.
SameTarget(q, r) ==
    /\ op[q].id = op[r].id /\ Updates(q)
    /\ op[q].kind = "patch" /\ op[r].kind = "patch" => op[q].path = op[r].path

\* The content c still shows what r wrote.
Shows(c, r) ==
    IF op[r].kind = "replace"
    THEN c = NewContent(r)
    ELSE CASE op[r].path = "userName" -> c.userName = op[r].value
           [] op[r].path = "active" -> c.active = op[r].value
           [] OTHER -> c.data[op[r].path] = r

(***************************************************************************)
(* An ETag W/"vN" names one representation for ever: no user has had two   *)
(* contents under one version, however updates interleave. If it did, an   *)
(* If-Match or If-None-Match with that tag would be answered as if nothing *)
(* had changed.                                                            *)
(***************************************************************************)
EtagIdentifiesContent ==
    \A h, k \in history : h[1] = k[1] /\ h[2].version = k[2].version => h = k

(***************************************************************************)
(* An acknowledged PATCH or PUT (deactivating a user, say) stays visible   *)
(* while nobody else writes the same attribute, unless the write fell      *)
(* between the find and the write of another request: every write stores   *)
(* all columns as the finder saw them.                                     *)
(***************************************************************************)
NoLossWithoutOverlap ==
    \A r \in Request :
        /\ Updates(r) /\ Acked(r) /\ raced[r] = {}
        /\ op[r].id \in Existing
        /\ \A q \in Request \ {r} : ~SameTarget(q, r)
        => Shows(users[op[r].id].content, r)

(***************************************************************************)
(* A write that carried If-Match: W/"vN" and was acknowledged produced     *)
(* version N+1, so it was made on top of exactly the version the client    *)
(* had seen, unless a write of another request fell into its window.       *)
(***************************************************************************)
IfMatchHoldsUnlessOverlapped ==
    \A r \in Request :
        /\ config.etag /\ Updates(r) /\ Acked(r) /\ op[r].ifMatch > 0
        /\ \A q \in Request : r \notin raced[q]
        => written[r].version = op[r].ifMatch + 1

(***************************************************************************)
(* The users are a ResourceStore: consecutive versions, one user per       *)
(* userName at every moment, no id used twice, no deleted user written     *)
(* back.                                                                   *)
(***************************************************************************)
UserNameOf(c) == c.userName
ContentOf == [i \in Id |-> IF users[i] = NoUser THEN NoUser ELSE users[i].content]

Store == INSTANCE ResourceStore WITH
            NameOf <- UserNameOf,
            Absent <- NoUser,
            version <- versions,
            content <- ContentOf

ImplementsStore == Store!StoreSpec

=============================================================================
