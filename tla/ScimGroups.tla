----------------------------- MODULE ScimGroups -----------------------------
(***************************************************************************)
(* The groups of one endpoint and their members: the SCIM requests of      *)
(* endpoint-scim-groups.service.ts over the tables ScimResource and        *)
(* ResourceMember, with the Prisma repository, beside the deletion of      *)
(* users.                                                                  *)
(*                                                                         *)
(* A request is a chain of awaits. A group is read in two queries, its row *)
(* and its members. A PATCH computes the new name and the whole new member *)
(* list from what it read and replaces both in one transaction; a create   *)
(* inserts the row and the members in two separate writes, and nothing but *)
(* an earlier query keeps two groups from having one displayName.          *)
(*                                                                         *)
(* A member row holds a value, and a link to the user of that scimId if    *)
(* there was one when the list was resolved; the database clears the link  *)
(* when the user is deleted and refuses a link to a user that is gone.     *)
(* displayName stands for its case-folded form (CITEXT). Requests that     *)
(* fail validation are left out, as are those that only read.              *)
(***************************************************************************)
EXTENDS Integers, FiniteSets

CONSTANTS
    Request,      \* SCIM requests on groups
    Id,           \* scimIds of groups, those still to be generated included
    Member,       \* values of members
    DisplayName,
    Operation,    \* what clients may ask for (records)
    FirstUsers,   \* the members that are users at the start
    FirstGroups,  \* [Id -> [displayName, members] or NoGroup]
    Config,       \* the endpoint configurations to consider
    MaxFailures,  \* bound: how many queries the database rejects
    NoGroup

\* If-Match: absent, "*", or the number in W/"vN".
NoIfMatch == 0
AnyVersion == -1

FirstGroup == [displayName : DisplayName, members : SUBSET Member]

ASSUME FirstGroupsAssumption ==
    /\ FirstUsers \subseteq Member
    /\ FirstGroups \in [Id -> FirstGroup \cup {NoGroup}]
    /\ NoGroup \notin FirstGroup \cup (Id \X DisplayName)
    /\ DisplayName # {}

\* No race has happened yet.
ASSUME FirstNamesUnique ==
    \A i, j \in Id : i # j /\ FirstGroups[i] # NoGroup /\ FirstGroups[j] # NoGroup =>
        FirstGroups[i].displayName # FirstGroups[j].displayName

ASSUME FailuresAssumption == MaxFailures \in Nat

ASSUME OperationAssumption ==
    \A o \in Operation :
        /\ o.kind \in {"create", "add", "remove", "rename", "replace", "delete"}
        /\ o.id \in Id
        /\ o.kind # "create" => o.ifMatch \in Int
        /\ o.kind \in {"create", "rename", "replace"} => o.displayName \in DisplayName
        /\ o.kind \in {"create", "replace"} => o.members \subseteq Member
        /\ o.kind \in {"add", "remove"} => o.member \in Member

VARIABLES
    users,      \* the members that are users
    exists,     \* the groups in table ScimResource
    row,        \* the columns of each group: version and displayName; of one
                \* that does not exist the last ones, version 0 if none
    members,    \* the values in table ResourceMember, by group
    links,      \* those of them whose row refers to a user
    config,     \* GroupHardDeleteEnabled, RequireIfMatch, etag.supported
    op,         \* what each request asks for
    pc,         \* where each request is
    found,      \* the row it read
    listed,     \* the members it read
    linked,     \* the members resolveMemberInputs found to be users
    status,     \* the HTTP status the client got, 0 before
    announced,  \* how often GROUP_CREATED, less GROUP_DELETED, was emitted
    history,    \* history: every representation there has been
    raced       \* history: the requests that had read and not yet written
                \* when this one wrote

tableVars == <<users, exists, row, members, links>>
groupVars == <<tableVars, config, op, pc, found, listed, linked, status,
               announced, history, raced>>

Row == [version : Nat, displayName : DisplayName]

-----------------------------------------------------------------------------

\* findByDisplayName: another group of the endpoint with this name.
NameTaken(name, exclude) ==
    \E i \in exists \ {exclude} : row[i].displayName = name

\* enforceIfMatch: the status it throws with, 200 if it does not.
IfMatchStatus(ifMatch, version) ==
    CASE ~config.etag \/ ifMatch \in {AnyVersion, version} -> 200
      [] config.etag /\ ifMatch = NoIfMatch -> IF config.requireIfMatch THEN 428 ELSE 200
      [] OTHER -> 412

\* The name and the members a request writes: GroupPatchEngine.apply on what
\* was read, or the body.
NewName(r) ==
    IF op[r].kind \in {"create", "rename", "replace"}
    THEN op[r].displayName
    ELSE found[r].displayName

NewMembers(r) ==
    CASE op[r].kind \in {"create", "replace"} -> op[r].members
      [] op[r].kind = "add" -> listed[r] \cup {op[r].member}
      [] op[r].kind = "remove" -> listed[r] \ {op[r].member}
      [] OTHER -> listed[r]

Answer(r, code) ==
    /\ status' = [status EXCEPT ![r] = code]
    /\ pc' = [pc EXCEPT ![r] = "done"]

Goto(r, label) ==
    /\ pc' = [pc EXCEPT ![r] = label]
    /\ UNCHANGED status

\* r has read, or checked the name, and has not finished writing.
Open(r) ==
    \/ op[r].kind = "create" /\ pc[r] \in {"insert", "resolve", "addMembers"}
    \/ op[r].kind \notin {"create", "delete"}
       /\ pc[r] \in {"findMembers", "conflict", "resolve", "commit"}

\* What r writes is seen by nobody who is open.
Record(r) == raced' = [raced EXCEPT ![r] = @ \cup {q \in Request \ {r} : Open(q)}]

Representation(i, columns, list) ==
    [id |-> i, version |-> columns.version, displayName |-> columns.displayName,
     members |-> list]

-----------------------------------------------------------------------------

\* randomUUID gives every create an id of its own.
FreshIds ==
    \A r \in Request : op[r].kind = "create" =>
        /\ FirstGroups[op[r].id] = NoGroup
        /\ \A q \in Request \ {r} : op[q].kind = "create" => op[q].id # op[r].id

Init ==
    /\ users = FirstUsers
    /\ exists = {i \in Id : FirstGroups[i] # NoGroup}
    /\ row = [i \in Id |->
            IF i \in exists
            THEN [version |-> 1, displayName |-> FirstGroups[i].displayName]
            ELSE [version |-> 0, displayName |-> CHOOSE n \in DisplayName : TRUE]]
    /\ members = [i \in Id |-> IF i \in exists THEN FirstGroups[i].members ELSE {}]
    /\ links = [i \in Id |-> members[i] \cap users]
    /\ config \in Config
    /\ op \in [Request -> Operation] /\ FreshIds
    /\ pc = [r \in Request |-> IF op[r].kind = "create" THEN "conflict" ELSE "find"]
    /\ found = [r \in Request |-> row[op[r].id]]
    /\ listed = [r \in Request |-> {}]
    /\ linked = [r \in Request |-> {}]
    /\ status = [r \in Request |-> 0]
    /\ announced = [i \in Id |-> 0]
    /\ history = {Representation(i, row[i], members[i]) : i \in exists}
    /\ raced = [r \in Request |-> {}]

-----------------------------------------------------------------------------
(* Reading                                                                  *)

\* What the code throws after it has read: deleteGroupForEndpoint asks for
\* If-Match before the hard delete gate.
StatusAfterFind(r) ==
    LET precondition == IfMatchStatus(op[r].ifMatch, found'[r].version)
    IN  IF op[r].kind = "delete" /\ precondition = 200 /\ ~config.hardDelete
        THEN 400 ELSE precondition

Checked(r, label) ==
    IF StatusAfterFind(r) # 200 THEN Answer(r, StatusAfterFind(r)) ELSE Goto(r, label)

\* The query for the row; a delete needs no more.
FindRow(r) ==
    /\ pc[r] = "find"
    /\ found' = [found EXCEPT ![r] = row[op[r].id]]
    /\ IF op[r].id \notin exists THEN Answer(r, 404)
       ELSE IF op[r].kind = "delete" THEN Checked(r, "commit")
       ELSE Goto(r, "findMembers")
    /\ UNCHANGED <<tableVars, config, op, listed, linked, announced, history, raced>>

\* The query for its members, and everything up to the next await.
FindMembers(r) ==
    /\ pc[r] = "findMembers"
    /\ listed' = [listed EXCEPT ![r] = members[op[r].id]]
    /\ UNCHANGED found
    /\ Checked(r, "conflict")
    /\ UNCHANGED <<tableVars, config, op, linked, announced, history, raced>>

\* Mutant: only create looks for a conflict.
CheckConflict_OnCreate(r) ==
    /\ pc[r] = "conflict"
    /\ IF op[r].kind = "create" /\ NameTaken(NewName(r), op[r].id)
       THEN Answer(r, 409)
       ELSE Goto(r, IF op[r].kind = "create" THEN "insert"
                    ELSE IF NewMembers(r) = {} THEN "commit" ELSE "resolve")
    /\ UNCHANGED <<tableVars, config, op, found, listed, linked, announced, history, raced>>

\* assertUniqueDisplayName.
CheckConflict(r) ==
    /\ pc[r] = "conflict"
    /\ IF NameTaken(NewName(r), op[r].id)
       THEN Answer(r, 409)
       ELSE Goto(r, IF op[r].kind = "create" THEN "insert"
                    ELSE IF NewMembers(r) = {} THEN "commit" ELSE "resolve")
    /\ UNCHANGED <<tableVars, config, op, found, listed, linked, announced, history, raced>>

\* resolveMemberInputs, outside the transaction.
Resolve(r) ==
    /\ pc[r] = "resolve"
    /\ linked' = [linked EXCEPT ![r] = NewMembers(r) \cap users]
    /\ Goto(r, IF op[r].kind = "create" THEN "addMembers" ELSE "commit")
    /\ UNCHANGED <<tableVars, config, op, found, listed, announced, history, raced>>

-----------------------------------------------------------------------------
(* Writing                                                                  *)

FirstRow(r) == [version |-> 1, displayName |-> op[r].displayName]

\* create's first write: the row.
Insert(r) ==
    /\ pc[r] = "insert"
    /\ exists' = exists \cup {op[r].id}
    /\ row' = [row EXCEPT ![op[r].id] = FirstRow(r)]
    /\ Record(r)
    /\ history' = history \cup {Representation(op[r].id, FirstRow(r), {})}
    /\ Goto(r, IF op[r].members = {} THEN "reply" ELSE "resolve")
    /\ UNCHANGED <<users, members, links, config, op, found, listed, linked, announced>>

\* The database refuses new member rows: no such group or user (foreign keys),
\* or the value is there already.
RefusedMembers(r) ==
    CASE op[r].id \notin exists \/ ~(linked[r] \subseteq users) -> 500
      [] op[r].id \in exists /\ members[op[r].id] \cap op[r].members # {} -> 409
      [] OTHER -> 200

\* create's second write, which leaves the version as it is.
AddMembers(r) ==
    /\ pc[r] = "addMembers"
    /\ IF RefusedMembers(r) # 200
       THEN Answer(r, RefusedMembers(r)) /\ UNCHANGED <<members, links, history, raced>>
       ELSE /\ members' = [members EXCEPT ![op[r].id] = @ \cup op[r].members]
            /\ links' = [links EXCEPT ![op[r].id] = @ \cup linked[r]]
            /\ Record(r)
            /\ history' = history \cup {Representation(op[r].id, row[op[r].id], members'[op[r].id])}
            /\ Goto(r, "reply")
    /\ UNCHANGED <<users, exists, row, config, op, found, listed, linked, announced>>

\* Mutant: the transaction does not increment the version.
RowAfter_SameVersion(r) ==
    [version |-> row[op[r].id].version, displayName |-> NewName(r)]

\* Mutant: the new version is computed from the row that was found.
RowAfter_SnapshotVersion(r) ==
    [version |-> found[r].version + 1, displayName |-> NewName(r)]

RowAfter(r) ==
    [version |-> row[op[r].id].version + 1, displayName |-> NewName(r)]

\* Mutant: the old member rows are not deleted.
MembersAfter_NotDeleted(r) == members[op[r].id] \cup NewMembers(r)

MembersAfter(r) == NewMembers(r)

\* Mutant: a link to a user that is gone is accepted.
RefusedUpdate_NoForeignKey(r) == IF op[r].id \notin exists THEN 404 ELSE 200

\* The transaction fails: no such row, or a link to a user that is gone.
RefusedUpdate(r) ==
    CASE op[r].id \notin exists -> 404
      [] op[r].id \in exists /\ ~(linked[r] \subseteq users) -> 500
      [] OTHER -> 200

\* updateGroupWithMembers: the row, the deletion and the new member rows in one
\* transaction.
Update(r) ==
    /\ pc[r] = "commit" /\ op[r].kind # "delete"
    /\ IF RefusedUpdate(r) # 200
       THEN Answer(r, RefusedUpdate(r)) /\ UNCHANGED <<row, members, links, history, raced>>
       ELSE /\ row' = [row EXCEPT ![op[r].id] = RowAfter(r)]
            /\ members' = [members EXCEPT ![op[r].id] = MembersAfter(r)]
            /\ links' = [links EXCEPT ![op[r].id] = linked[r]]
            /\ Record(r)
            /\ history' = history \cup {Representation(op[r].id, RowAfter(r), MembersAfter(r))}
            /\ Goto(r, "reply")
    /\ UNCHANGED <<users, exists, config, op, found, listed, linked, announced>>

\* Mutant: deleting what is already gone succeeds.
RefusedDelete_Idempotent(r) == FALSE

RefusedDelete(r) == op[r].id \notin exists

\* The repository's delete; the member rows go with the group (cascade).
Delete(r) ==
    /\ pc[r] = "commit" /\ op[r].kind = "delete"
    /\ IF RefusedDelete(r)
       THEN Answer(r, 404) /\ UNCHANGED <<exists, members, links, raced>>
       ELSE /\ exists' = exists \ {op[r].id}
            /\ members' = [members EXCEPT ![op[r].id] = {}]
            /\ links' = [links EXCEPT ![op[r].id] = {}]
            /\ Record(r)
            /\ Goto(r, "reply")
    /\ UNCHANGED <<users, row, config, op, found, listed, linked, announced, history>>

\* After the write: create and update read the group again to answer with it;
\* create has emitted its event before it notices that the group is gone,
\* update has not.
Reply(r) ==
    /\ pc[r] = "reply"
    /\ announced' = [announced EXCEPT ![op[r].id] =
            CASE op[r].kind = "create" -> @ + 1
              [] op[r].kind = "delete" -> @ - 1
              [] OTHER -> @]
    /\ Answer(r, CASE op[r].kind = "delete" \/ op[r].id \in exists -> 200
                   [] op[r].kind = "create" /\ op[r].id \notin exists -> 404
                   [] OTHER -> 500)
    /\ UNCHANGED <<tableVars, config, op, found, listed, linked, history, raced>>

-----------------------------------------------------------------------------

\* A user is deleted (endpoint-scim-users.service.ts): the member rows keep
\* their value and lose their link.
DeleteUser(u) ==
    /\ u \in users
    /\ users' = users \ {u}
    /\ links' = [i \in Id |-> links[i] \ {u}]
    /\ UNCHANGED <<exists, row, members, config, op, pc, found, listed, linked, status,
                   announced, history, raced>>

\* A query is rejected, or the answer to an executed one is lost.
DatabaseFails(r) ==
    /\ Cardinality({q \in Request : status[q] = 503}) < MaxFailures
    /\ pc[r] # "done"
    /\ Answer(r, 503)
    /\ UNCHANGED <<tableVars, config, op, found, listed, linked, announced, history, raced>>

Done ==
    /\ \A r \in Request : pc[r] = "done"
    /\ UNCHANGED groupVars

Next ==
    \/ \E r \in Request :
          \/ FindRow(r) \/ FindMembers(r) \/ CheckConflict(r) \/ Resolve(r)
          \/ Insert(r) \/ AddMembers(r) \/ Update(r) \/ Delete(r)
          \/ Reply(r) \/ DatabaseFails(r)
    \/ \E u \in Member : DeleteUser(u)
    \/ Done

Spec == Init /\ [][Next]_groupVars

-----------------------------------------------------------------------------

\* The shape of the state.
TypeOK ==
    /\ users \subseteq Member /\ exists \subseteq Id
    /\ row \in [Id -> Row]
    /\ \A i \in exists : row[i].version > 0
    /\ members \in [Id -> SUBSET Member]
    /\ links \in [Id -> SUBSET Member]
    /\ config \in Config
    /\ op \in [Request -> Operation]
    /\ pc \in [Request -> {"find", "findMembers", "conflict", "insert", "resolve",
                           "addMembers", "commit", "reply", "done"}]
    /\ found \in [Request -> Row]
    /\ listed \in [Request -> SUBSET Member]
    /\ linked \in [Request -> SUBSET Member]
    /\ status \in [Request -> {0, 200, 400, 404, 409, 412, 428, 500, 503}]
    /\ announced \in [Id -> Int]
    /\ raced \in [Request -> SUBSET Request]

Acked(r) == status[r] = 200

AtRest == \A r \in Request : pc[r] = "done"

\* What r asked for, the stored group shows.
Shows(r) ==
    LET i == op[r].id IN
    CASE op[r].kind = "add" -> op[r].member \in members[i]
      [] op[r].kind = "remove" -> op[r].member \notin members[i]
      [] op[r].kind = "rename" -> row[i].displayName = op[r].displayName
      [] OTHER -> row[i].displayName = op[r].displayName /\ members[i] = op[r].members

\* q asks for something that undoes or changes what r asked for.
Touches(q, r) ==
    /\ op[q].id = op[r].id
    /\ CASE op[q].kind \in {"add", "remove"} ->
              /\ op[r].kind # "rename"
              /\ op[r].kind \in {"add", "remove"} =>
                    op[q].member = op[r].member /\ op[q].kind # op[r].kind
         [] op[q].kind = "rename" -> op[r].kind \notin {"add", "remove"}
         [] OTHER -> op[q].kind = "replace"

(***************************************************************************)
(* An acknowledged change of a group (a member added or removed, a new     *)
(* name, a PUT or POST as a whole) stays visible while nobody asks for     *)
(* another change of the same thing, unless it fell between the read and   *)
(* the write of another request on the group: every PATCH stores the whole *)
(* member list and the name as it found them, and a create adds its        *)
(* members late.                                                           *)
(***************************************************************************)
ChangeStandsUnlessOverlapped ==
    \A r \in Request :
        /\ op[r].kind # "delete" /\ Acked(r) /\ op[r].id \in exists
        /\ \A q \in raced[r] : op[q].id # op[r].id
        /\ \A q \in Request \ {r} : ~Touches(q, r)
        => Shows(r)

(***************************************************************************)
(* The database's view of a user's groups (links) shows exactly the groups *)
(* that list the user (values), although links are resolved before the     *)
(* write and users are deleted at any moment.                              *)
(***************************************************************************)
LinksFollowUsers ==
    \A i \in Id : links[i] = members[i] \cap users

(***************************************************************************)
(* An ETag W/"vN" of a group names one representation, except that version *)
(* 1 exists without and with the members of its create; a change that gets *)
(* between the two writes of the create is in the same position.           *)
(***************************************************************************)
EtagIdentifiesGroup ==
    \A h, k \in history :
        h.id = k.id /\ h.version = k.version =>
            /\ h.displayName = k.displayName
            /\ \/ h.members = k.members
               \/ \E r \in Request :
                     /\ op[r].kind = "create" /\ op[r].id = h.id
                     /\ {h.members, k.members} =
                           {h.members \cap k.members, (h.members \cap k.members) \cup op[r].members}

(***************************************************************************)
(* Two groups have one displayName only if one of the requests on them had *)
(* looked for a conflict, or read its group, before another wrote, and     *)
(* wrote after it.                                                         *)
(***************************************************************************)
NamesUniqueUnlessRaced ==
    \A i, j \in exists :
        i # j /\ row[i].displayName = row[j].displayName =>
            \E r \in Request : \E q \in raced[r] : {op[q].id, op[r].id} = {i, j}

(***************************************************************************)
(* The events tell how many groups there are: at rest the groups created   *)
(* less those deleted, as announced, are those the table gained, one by    *)
(* one. The exceptions are a lost answer, and a create whose second write  *)
(* was refused: its group exists and nobody was told.                      *)
(***************************************************************************)
Unannounced(r) ==
    status[r] = 503 \/ (op[r].kind = "create" /\ status[r] \in {409, 500} /\ row[op[r].id].version > 0)

Count(b) == IF b THEN 1 ELSE 0

EventsCountGroups ==
    AtRest =>
        \A i \in Id :
            \/ announced[i] = Count(i \in exists) - Count(FirstGroups[i] # NoGroup)
            \/ \E r \in Request : op[r].id = i /\ Unannounced(r)

(***************************************************************************)
(* Apart from their members the groups are a ResourceStore: consecutive    *)
(* versions, no id used twice, no deleted group written back. What the     *)
(* store calls the unique name is the id; displayName is not unique.       *)
(***************************************************************************)
IdOf(c) == c[1]

GroupContent == Id \X DisplayName

Content == [i \in Id |-> IF i \in exists THEN <<i, row[i].displayName>> ELSE NoGroup]
Version == [i \in Id |-> row[i].version]

Store == INSTANCE ResourceStore WITH
            Content <- GroupContent,
            NameOf <- IdOf,
            Absent <- NoGroup,
            version <- Version,
            content <- Content

GroupsImplementStore == Store!StoreSpec

=============================================================================
