-------------------------- MODULE ScimGroups_proofs --------------------------
(***************************************************************************)
(* Proofs about ScimGroups, for every set of groups, members, requests,    *)
(* operations and configurations: the state keeps its shape, the links     *)
(* follow the users, an ETag names one representation (two for the version *)
(* at which a create adds its members), the groups implement               *)
(* ResourceStore, a change is lost only to a race, and the events tell     *)
(* which groups there are.                                                 *)
(*                                                                         *)
(* The argument: between resolveMemberInputs and the write users only      *)
(* disappear, so that the links computed are all those the database can    *)
(* still want, and the foreign key refuses those it no longer can. Every   *)
(* update makes a version above all others of its group; a create that has *)
(* its second write still to do is the only one to add a representation at *)
(* a version that exists, and it does so once.                             *)
(***************************************************************************)
EXTENDS ScimGroups, TLAPS

\* Until the write, the links computed are members to be, and all of those
\* that are users still.
LinkedCurrent ==
    \A r \in Request :
        /\ pc[r] \in {"find", "findMembers", "conflict"} => linked[r] = {}
        /\ pc[r] \in {"addMembers", "commit"} =>
              /\ linked[r] \subseteq NewMembers(r)
              /\ op[r].kind # "delete" => NewMembers(r) \cap users \subseteq linked[r]

\* A create neither reads nor updates, and nothing else inserts.
CreatesOnly ==
    \A r \in Request :
        /\ pc[r] \in {"find", "findMembers"} => op[r].kind # "create"
        /\ pc[r] \in {"insert", "addMembers"} => op[r].kind = "create"

\* r is a create that has a write to do.
Creating(r) ==
    op[r].kind = "create" /\ pc[r] \in {"conflict", "insert", "resolve", "addMembers"}

\* The id of a create is nobody's until its row is inserted.
NotYetInserted ==
    \A r \in Request :
        Creating(r) /\ pc[r] \in {"conflict", "insert"} => row[op[r].id].version = 0

\* The member rows go with the group.
NoOrphans == \A i \in Id \ exists : members[i] = {}

GroupRepresentation ==
    [id : Id, version : Nat, displayName : DisplayName, members : SUBSET Member]

\* No representation is newer than the row, and the row has the name its
\* version has.
HistoryBounded ==
    /\ history \subseteq GroupRepresentation
    /\ \A h \in history :
          /\ h.version <= row[h.id].version
          /\ h.version = row[h.id].version => h.displayName = row[h.id].displayName

\* While its create goes on, a group's version has one representation.
OneWhileCreating ==
    \A r \in Request : \A h \in history :
        /\ Creating(r) /\ op[r].id \in exists
        /\ h.id = op[r].id /\ h.version = row[h.id].version
        => h.members = members[h.id]

GroupsInv ==
    /\ TypeOK
    /\ FreshIds
    /\ LinksFollowUsers
    /\ LinkedCurrent
    /\ CreatesOnly
    /\ NotYetInserted
    /\ NoOrphans
    /\ HistoryBounded
    /\ OneWhileCreating
    /\ EtagIdentifiesGroup

-----------------------------------------------------------------------------

\* The initial tables satisfy the invariant.
LEMMA GroupsInitInv == Init => GroupsInv
<1> SUFFICES ASSUME Init PROVE GroupsInv
  OBVIOUS
<1> USE FirstGroupsAssumption, OperationAssumption DEF Init
<1>1. \A i \in exists : FirstGroups[i] \in FirstGroup
  OBVIOUS
<1>2. \A i \in exists : /\ FirstGroups[i].displayName \in DisplayName
                        /\ FirstGroups[i].members \in SUBSET Member
  BY <1>1 DEF FirstGroup
<1>3. (CHOOSE n \in DisplayName : TRUE) \in DisplayName
  OBVIOUS
<1>4. row \in [Id -> Row] /\ \A i \in Id : row[i].version = IF i \in exists THEN 1 ELSE 0
  BY <1>2, <1>3 DEF Row
<1>5. members \in [Id -> SUBSET Member]
  BY <1>2
<1>6. \A r \in Request : op[r] \in Operation /\ op[r].id \in Id
  OBVIOUS
<1>7. TypeOK
  BY <1>4, <1>5, <1>6 DEF TypeOK
<1>8. FreshIds /\ LinksFollowUsers /\ NoOrphans
  BY DEF LinksFollowUsers, NoOrphans
<1>9. LinkedCurrent /\ CreatesOnly
  BY DEF LinkedCurrent, CreatesOnly
<1>10. NotYetInserted
  BY <1>4, <1>6 DEF NotYetInserted, Creating, FreshIds
<1>11. \A h \in history : \E i \in exists : h = Representation(i, row[i], members[i])
  OBVIOUS
<1>12. HistoryBounded /\ OneWhileCreating /\ EtagIdentifiesGroup
  <2>1. \A i \in exists : i \in Id /\ row[i] \in Row /\ members[i] \in SUBSET Member
    BY <1>4, <1>5
  <2>2. HistoryBounded
    BY <1>11, <2>1 DEF HistoryBounded, GroupRepresentation, Representation, Row
  <2>3. OneWhileCreating /\ EtagIdentifiesGroup
    BY <1>11 DEF OneWhileCreating, EtagIdentifiesGroup, Representation
  <2> QED BY <2>2, <2>3
<1> QED BY <1>7, <1>8, <1>9, <1>10, <1>12 DEF GroupsInv

\* What a request writes is well formed.
LEMMA NewType ==
  ASSUME GroupsInv, NEW r \in Request
  PROVE  /\ op[r] \in Operation /\ op[r].id \in Id
         /\ op[r].kind \in {"create", "add", "remove", "rename", "replace", "delete"}
         /\ op[r].kind = "create" => op[r].members \in SUBSET Member
         /\ op[r].kind # "delete" => NewName(r) \in DisplayName
         /\ NewMembers(r) \in SUBSET Member
<1>1. op[r] \in Operation
  BY DEF GroupsInv, TypeOK
<1>2. found[r] \in Row /\ listed[r] \in SUBSET Member
  BY DEF GroupsInv, TypeOK
<1>3. /\ op[r].id \in Id
      /\ op[r].kind \in {"create", "add", "remove", "rename", "replace", "delete"}
      /\ op[r].kind \in {"create", "rename", "replace"} => op[r].displayName \in DisplayName
      /\ op[r].kind \in {"create", "replace"} => op[r].members \in SUBSET Member
      /\ op[r].kind \in {"add", "remove"} => op[r].member \in Member
  BY <1>1, OperationAssumption
<1>4. NewName(r) \in DisplayName
  BY <1>2, <1>3 DEF NewName, Row
<1>5. NewMembers(r) \in SUBSET Member
  BY <1>2, <1>3 DEF NewMembers
<1> QED BY <1>1, <1>3, <1>4, <1>5

\* The statuses the checks before a write can answer with.
LEMMA StatusAfterFindRange ==
  ASSUME NEW r \in Request
  PROVE  StatusAfterFind(r) \in {200, 400, 412, 428}
<1>1. IfMatchStatus(op[r].ifMatch, found'[r].version) \in {200, 412, 428}
  BY DEF IfMatchStatus
<1> QED BY <1>1 DEF StatusAfterFind

\* What the ETags name depends on the history alone.
LEMMA EtagsUntouched ==
  ASSUME GroupsInv, UNCHANGED <<op, history>>
  PROVE  EtagIdentifiesGroup'
<1>1. op' = op /\ history' = history
  OBVIOUS
<1> QED BY <1>1 DEF GroupsInv, EtagIdentifiesGroup

\* A step that leaves the tables and the requests alone keeps what is said
\* about the tables.
LEMMA TablesUntouched ==
  ASSUME GroupsInv, UNCHANGED <<tableVars, op, history>>
  PROVE  FreshIds' /\ LinksFollowUsers' /\ NoOrphans' /\ HistoryBounded' /\ EtagIdentifiesGroup'
<1>1. FreshIds' /\ LinksFollowUsers' /\ NoOrphans'
  BY DEF GroupsInv, tableVars, FreshIds, LinksFollowUsers, NoOrphans
<1>2. HistoryBounded'
  BY DEF GroupsInv, tableVars, HistoryBounded
<1>3. EtagIdentifiesGroup'
  BY EtagsUntouched
<1> QED BY <1>1, <1>2, <1>3

\* Nothing turns into a create, and a create that is on its way was so before.
LEMMA CreatesUntouched ==
  ASSUME GroupsInv, UNCHANGED <<tableVars, op, history>>, NEW r \in Request, NEW label,
         pc' = [pc EXCEPT ![r] = label],
         Creating(r)' => Creating(r),
         op[r].kind = "create" /\ label \in {"conflict", "insert"} => pc[r] \in {"conflict", "insert"}
  PROVE  NotYetInserted' /\ OneWhileCreating'
<1>1. \A q \in Request : Creating(q)' => Creating(q)
  BY DEF GroupsInv, TypeOK, Creating
<1>2. \A q \in Request : op[q].kind = "create" /\ pc'[q] \in {"conflict", "insert"}
                           => pc[q] \in {"conflict", "insert"}
  BY DEF GroupsInv, TypeOK
<1>3. NotYetInserted'
  BY <1>1, <1>2 DEF GroupsInv, NotYetInserted, tableVars, Creating
<1>4. OneWhileCreating'
  BY <1>1 DEF GroupsInv, OneWhileCreating, tableVars
<1> QED BY <1>3, <1>4

\* The steps before the write change no table.
LEMMA ReadStepKeepsInv ==
  ASSUME GroupsInv, NEW r \in Request,
         \/ FindRow(r) \/ FindMembers(r) \/ CheckConflict(r) \/ Resolve(r)
         \/ Reply(r) \/ DatabaseFails(r)
  PROVE  GroupsInv'
<1>1. UNCHANGED <<tableVars, op, config, history, raced>>
  BY DEF FindRow, FindMembers, CheckConflict, Resolve, Reply, DatabaseFails
<1>2. FreshIds' /\ LinksFollowUsers' /\ NoOrphans' /\ HistoryBounded' /\ EtagIdentifiesGroup'
  BY <1>1, TablesUntouched
<1>3. op[r].id \in Id /\ NewMembers(r) \in SUBSET Member
      /\ op[r].kind \in {"create", "add", "remove", "rename", "replace", "delete"}
  BY NewType
<1>4. users' = users /\ exists' = exists /\ row' = row /\ members' = members /\ links' = links
  BY <1>1 DEF tableVars
<1>5. CASE FindRow(r)
  <2>1. StatusAfterFind(r) \in {200, 400, 412, 428}
    BY StatusAfterFindRange
  <2>2. /\ pc[r] = "find" /\ row[op[r].id] \in Row
        /\ found' = [found EXCEPT ![r] = row[op[r].id]]
        /\ UNCHANGED <<listed, linked, announced>>
    BY <1>3, <1>5 DEF FindRow, GroupsInv, TypeOK
  <2>3. \/ /\ pc' = [pc EXCEPT ![r] = "done"]
           /\ \E code \in {400, 404, 412, 428} : status' = [status EXCEPT ![r] = code]
        \/ /\ UNCHANGED status
           /\ pc' = [pc EXCEPT ![r] = IF op[r].kind = "delete" THEN "commit" ELSE "findMembers"]
    BY <1>5, <2>1 DEF FindRow, Checked, Answer, Goto
  <2>4. TypeOK'
    BY <1>1, <1>4, <2>2, <2>3 DEF GroupsInv, TypeOK
  <2>5. LinkedCurrent' /\ CreatesOnly'
    <3>1. linked[r] = {} /\ op[r].kind # "create"
      BY <2>2 DEF GroupsInv, LinkedCurrent, CreatesOnly
    <3>2. \A q \in Request : q # r => pc'[q] = pc[q] /\ NewMembers(q)' = NewMembers(q)
      BY <1>1, <2>2, <2>3 DEF NewMembers, GroupsInv, TypeOK
    <3>3. pc'[r] \in {"done", "findMembers"} \/ (pc'[r] = "commit" /\ op[r].kind = "delete")
      BY <2>3 DEF GroupsInv, TypeOK
    <3> QED BY <1>1, <1>4, <2>2, <3>1, <3>2, <3>3 DEF GroupsInv, LinkedCurrent, CreatesOnly
  <2>6. NotYetInserted' /\ OneWhileCreating'
    BY <1>1, <2>2, <2>3, CreatesUntouched DEF Creating, GroupsInv, TypeOK, CreatesOnly
  <2> QED BY <1>2, <2>4, <2>5, <2>6 DEF GroupsInv
<1>6. CASE FindMembers(r)
  <2>1. StatusAfterFind(r) \in {200, 400, 412, 428}
    BY StatusAfterFindRange
  <2>2. /\ pc[r] = "findMembers" /\ members[op[r].id] \in SUBSET Member
        /\ listed' = [listed EXCEPT ![r] = members[op[r].id]]
        /\ UNCHANGED <<found, linked, announced>>
    BY <1>3, <1>6 DEF FindMembers, GroupsInv, TypeOK
  <2>3. \/ /\ pc' = [pc EXCEPT ![r] = "done"]
           /\ \E code \in {400, 412, 428} : status' = [status EXCEPT ![r] = code]
        \/ UNCHANGED status /\ pc' = [pc EXCEPT ![r] = "conflict"]
    BY <1>6, <2>1 DEF FindMembers, Checked, Answer, Goto
  <2>4. TypeOK'
    BY <1>1, <1>4, <2>2, <2>3 DEF GroupsInv, TypeOK
  <2>5. LinkedCurrent' /\ CreatesOnly'
    <3>1. linked[r] = {}
      BY <2>2 DEF GroupsInv, LinkedCurrent
    <3>2. \A q \in Request : q # r => pc'[q] = pc[q] /\ NewMembers(q)' = NewMembers(q)
      BY <1>1, <2>2, <2>3 DEF NewMembers, GroupsInv, TypeOK
    <3>3. pc'[r] \in {"done", "conflict"}
      BY <2>3 DEF GroupsInv, TypeOK
    <3> QED BY <1>1, <1>4, <2>2, <3>1, <3>2, <3>3 DEF GroupsInv, LinkedCurrent, CreatesOnly
  <2>6. NotYetInserted' /\ OneWhileCreating'
    BY <1>1, <2>2, <2>3, CreatesUntouched DEF Creating, GroupsInv, TypeOK, CreatesOnly
  <2> QED BY <1>2, <2>4, <2>5, <2>6 DEF GroupsInv
<1>7. CASE CheckConflict(r)
  <2>1. /\ pc[r] = "conflict" /\ UNCHANGED <<found, listed, linked, announced>>
        /\ \/ /\ pc' = [pc EXCEPT ![r] = "done"]
              /\ status' = [status EXCEPT ![r] = 409]
           \/ /\ UNCHANGED status
              /\ \/ op[r].kind = "create" /\ pc' = [pc EXCEPT ![r] = "insert"]
                 \/ op[r].kind # "create" /\ pc' = [pc EXCEPT ![r] = "resolve"]
                 \/ /\ op[r].kind # "create" /\ pc' = [pc EXCEPT ![r] = "commit"]
                    /\ NewMembers(r) = {}
    BY <1>7 DEF CheckConflict, Answer, Goto
  <2>2. TypeOK'
    BY <1>1, <1>4, <2>1 DEF GroupsInv, TypeOK
  <2>3. LinkedCurrent' /\ CreatesOnly'
    <3>1. linked[r] = {}
      BY <2>1 DEF GroupsInv, LinkedCurrent
    <3>2. \A q \in Request : NewMembers(q)' = NewMembers(q)
      BY <1>1, <2>1 DEF NewMembers
    <3>3. \A q \in Request : q # r => pc'[q] = pc[q]
      BY <2>1 DEF GroupsInv, TypeOK
    <3>4. \/ pc'[r] \in {"done", "resolve"} \/ (pc'[r] = "commit" /\ NewMembers(r) = {})
          \/ pc'[r] = "insert" /\ op[r].kind = "create"
      BY <2>1 DEF GroupsInv, TypeOK
    <3> QED BY <1>1, <1>4, <2>1, <3>1, <3>2, <3>3, <3>4
            DEF GroupsInv, LinkedCurrent, CreatesOnly
  <2>4. NotYetInserted' /\ OneWhileCreating'
    BY <1>1, <2>1, CreatesUntouched DEF Creating, GroupsInv, TypeOK
  <2> QED BY <1>2, <2>2, <2>3, <2>4 DEF GroupsInv
<1>8. CASE Resolve(r)
  <2>1. /\ pc[r] = "resolve" /\ UNCHANGED <<found, listed, announced, status>>
        /\ linked' = [linked EXCEPT ![r] = NewMembers(r) \cap users]
        /\ pc' = [pc EXCEPT ![r] = IF op[r].kind = "create" THEN "addMembers" ELSE "commit"]
    BY <1>8 DEF Resolve, Goto
  <2>2. TypeOK'
    BY <1>1, <1>3, <1>4, <2>1 DEF GroupsInv, TypeOK
  <2>3. LinkedCurrent' /\ CreatesOnly'
    <3>1. linked'[r] = NewMembers(r) \cap users
      BY <2>1 DEF GroupsInv, TypeOK
    <3>2. \A q \in Request : NewMembers(q)' = NewMembers(q)
      BY <1>1, <2>1 DEF NewMembers
    <3>3. \A q \in Request : q # r => pc'[q] = pc[q] /\ linked'[q] = linked[q]
      BY <2>1 DEF GroupsInv, TypeOK
    <3>4. pc'[r] = "commit" \/ (pc'[r] = "addMembers" /\ op[r].kind = "create")
      BY <2>1 DEF GroupsInv, TypeOK
    <3> QED BY <1>1, <1>4, <3>1, <3>2, <3>3, <3>4 DEF GroupsInv, LinkedCurrent, CreatesOnly
  <2>4. NotYetInserted' /\ OneWhileCreating'
    BY <1>1, <2>1, CreatesUntouched DEF Creating, GroupsInv, TypeOK
  <2> QED BY <1>2, <2>2, <2>3, <2>4 DEF GroupsInv
<1>9. CASE Reply(r) \/ DatabaseFails(r)
  <2>1. /\ UNCHANGED <<found, listed, linked>> /\ pc' = [pc EXCEPT ![r] = "done"]
        /\ \E code \in {200, 404, 500, 503} : status' = [status EXCEPT ![r] = code]
        /\ \/ UNCHANGED announced
           \/ \E n \in {announced[op[r].id] - 1, announced[op[r].id], announced[op[r].id] + 1} :
                 announced' = [announced EXCEPT ![op[r].id] = n]
    BY <1>9 DEF Reply, DatabaseFails, Answer
  <2>2. TypeOK'
    BY <1>1, <1>3, <1>4, <2>1 DEF GroupsInv, TypeOK
  <2>3. LinkedCurrent' /\ CreatesOnly'
    <3>1. \A q \in Request : NewMembers(q)' = NewMembers(q)
      BY <1>1, <2>1 DEF NewMembers
    <3>2. \A q \in Request : pc'[q] = IF q = r THEN "done" ELSE pc[q]
      BY <2>1 DEF GroupsInv, TypeOK
    <3> QED BY <1>1, <1>4, <2>1, <3>1, <3>2 DEF GroupsInv, LinkedCurrent, CreatesOnly
  <2>4. NotYetInserted' /\ OneWhileCreating'
    <3>1. pc' = [pc EXCEPT ![r] = "done"] /\ ~Creating(r)'
      BY <2>1 DEF Creating, GroupsInv, TypeOK
    <3> QED BY <1>1, <3>1, CreatesUntouched
  <2> QED BY <1>2, <2>2, <2>3, <2>4 DEF GroupsInv
<1> QED BY <1>5, <1>6, <1>7, <1>8, <1>9

(***************************************************************************)
(* A representation of group i at version v joins the history: if nothing  *)
(* the history holds of i is of a version v or above, an ETag still names  *)
(* one representation.                                                     *)
(***************************************************************************)
LEMMA NewVersion ==
  ASSUME GroupsInv, NEW i \in Id, NEW columns \in Row, NEW list \in SUBSET Member,
         columns.version > row[i].version,
         row' = [row EXCEPT ![i] = columns],
         members' = [members EXCEPT ![i] = list],
         history' = history \cup {Representation(i, columns, list)},
         UNCHANGED op
  PROVE  /\ HistoryBounded' /\ EtagIdentifiesGroup'
         /\ \A h \in history' :
               h.id = i /\ h.version = row'[i].version => h.members = members'[i]
<1> DEFINE new == Representation(i, columns, list)
<1>1. /\ new \in GroupRepresentation /\ new.id = i /\ new.version = columns.version
      /\ new.displayName = columns.displayName /\ new.members = list
  BY DEF Representation, GroupRepresentation, Row
<1>2. row'[i] = columns /\ members'[i] = list /\ \A j \in Id : j # i => row'[j] = row[j]
  BY DEF GroupsInv, TypeOK
<1>3. \A h \in history : /\ h \in GroupRepresentation /\ h.id \in Id /\ h.version \in Nat
                         /\ row[h.id].version \in Nat
  BY DEF GroupsInv, TypeOK, HistoryBounded, GroupRepresentation, Row
<1>4. \A h \in history : h.id = i => h.version < columns.version
  BY <1>3 DEF GroupsInv, HistoryBounded, Row
<1> HIDE DEF new
<1>5. history' = history \cup {new}
  BY DEF new
<1>6. HistoryBounded'
  <2>1. ASSUME NEW h \in history'
        PROVE  /\ h.version <= row'[h.id].version
               /\ h.version = row'[h.id].version => h.displayName = row'[h.id].displayName
    <3>1. CASE h = new
      BY <1>1, <1>2, <3>1 DEF Row
    <3>2. CASE h \in history /\ h.id = i
      BY <1>2, <1>3, <1>4, <3>2 DEF Row
    <3>3. CASE h \in history /\ h.id # i
      BY <1>2, <1>3, <3>3 DEF GroupsInv, HistoryBounded
    <3> QED BY <1>5, <3>1, <3>2, <3>3
  <2>2. history' \subseteq GroupRepresentation
    BY <1>1, <1>3, <1>5
  <2> QED BY <2>1, <2>2 DEF HistoryBounded
<1>7. EtagIdentifiesGroup'
  <2> SUFFICES ASSUME NEW h \in history', NEW k \in history', h.id = k.id, h.version = k.version
               PROVE  /\ h.displayName = k.displayName
                      /\ \/ h.members = k.members
                         \/ \E r \in Request :
                               /\ op'[r].kind = "create" /\ op'[r].id = h.id
                               /\ {h.members, k.members} =
                                     {h.members \cap k.members,
                                      (h.members \cap k.members) \cup op'[r].members}
    BY Zenon DEF EtagIdentifiesGroup
  <2>1. CASE h = new /\ k = new
    BY <2>1
  <2>2. CASE h \in history /\ k \in history
    <3>1. op' = op
      OBVIOUS
    <3>2. /\ h.displayName = k.displayName
          /\ \/ h.members = k.members
             \/ \E r \in Request :
                   /\ op[r].kind = "create" /\ op[r].id = h.id
                   /\ {h.members, k.members} =
                         {h.members \cap k.members,
                          (h.members \cap k.members) \cup op[r].members}
      BY <2>2, Zenon DEF GroupsInv, EtagIdentifiesGroup
    <3> QED BY <3>1, <3>2, Zenon
  <2>3. ASSUME NEW g \in history, g.id = i PROVE g.version # new.version
    BY <1>1, <1>3, <1>4, <2>3 DEF Row
  <2> QED BY <1>1, <1>5, <2>1, <2>2, <2>3
<1>8. \A h \in history' : h.id = i /\ h.version = row'[i].version => h.members = members'[i]
  BY <1>1, <1>2, <1>3, <1>4, <1>5 DEF Row
<1> QED BY <1>6, <1>7, <1>8

\* create's first write keeps the invariant: its id is nobody's.
LEMMA InsertKeepsInv ==
  ASSUME GroupsInv, NEW r \in Request, Insert(r)
  PROVE  GroupsInv'
<1> DEFINE i == op[r].id
<1>1. /\ pc[r] = "insert" /\ op[r].kind = "create" /\ i \in Id
      /\ op[r].displayName \in DisplayName
  <2>1. op[r] \in Operation /\ op[r].id \in Id
    BY NewType
  <2> QED BY <2>1, OperationAssumption DEF Insert, GroupsInv, CreatesOnly
<1>2. /\ exists' = exists \cup {i} /\ row' = [row EXCEPT ![i] = FirstRow(r)]
      /\ history' = history \cup {Representation(i, FirstRow(r), {})}
      /\ pc' = [pc EXCEPT ![r] = IF op[r].members = {} THEN "reply" ELSE "resolve"]
      /\ raced' = [raced EXCEPT ![r] = @ \cup {q \in Request \ {r} : Open(q)}]
      /\ UNCHANGED <<users, members, links, config, op, found, listed, linked, status, announced>>
  BY DEF Insert, Record, Goto
<1>3. row[i].version = 0 /\ i \notin exists /\ members[i] = {}
  <2>1. row[i].version = 0
    BY <1>1 DEF GroupsInv, NotYetInserted, Creating
  <2>2. i \notin exists
    BY <2>1 DEF GroupsInv, TypeOK
  <2> QED BY <1>1, <2>1, <2>2 DEF GroupsInv, NoOrphans
<1>4. FirstRow(r) \in Row /\ FirstRow(r).version = 1
  BY <1>1 DEF FirstRow, Row
<1>5. members' = [members EXCEPT ![i] = {}]
  BY <1>1, <1>2, <1>3 DEF GroupsInv, TypeOK
<1>6. /\ HistoryBounded' /\ EtagIdentifiesGroup'
      /\ \A h \in history' : h.id = i /\ h.version = row'[i].version => h.members = members'[i]
  <2>1. FirstRow(r).version > row[i].version /\ {} \in SUBSET Member
    BY <1>3, <1>4
  <2> HIDE DEF i
  <2> QED BY <1>1, <1>2, <1>4, <1>5, <2>1, NewVersion
<1>7. \A j \in Id : row'[j] = IF j = i THEN FirstRow(r) ELSE row[j]
  BY <1>2 DEF GroupsInv, TypeOK
<1>8. TypeOK'
  BY <1>1, <1>2, <1>4, <1>7 DEF GroupsInv, TypeOK
<1>9. FreshIds' /\ LinksFollowUsers' /\ NoOrphans'
  BY <1>2 DEF GroupsInv, FreshIds, LinksFollowUsers, NoOrphans
<1>10. \A q \in Request : q # r => pc'[q] = pc[q]
  BY <1>2 DEF GroupsInv, TypeOK
<1>11. pc'[r] \in {"reply", "resolve"}
  BY <1>2 DEF GroupsInv, TypeOK
<1>12. LinkedCurrent' /\ CreatesOnly'
  <2>1. \A q \in Request : NewMembers(q)' = NewMembers(q)
    BY <1>2 DEF NewMembers
  <2> QED BY <1>2, <1>10, <1>11, <2>1 DEF GroupsInv, LinkedCurrent, CreatesOnly
<1>13. \A q \in Request : q # r /\ op[q].kind = "create" => op[q].id # i
  BY <1>1 DEF GroupsInv, FreshIds
<1>14. NotYetInserted'
  <2> SUFFICES ASSUME NEW q \in Request, Creating(q)', pc'[q] \in {"conflict", "insert"}
               PROVE  row'[op[q].id].version = 0
    BY <1>2 DEF NotYetInserted
  <2>1. q # r /\ Creating(q) /\ pc[q] \in {"conflict", "insert"} /\ op[q].kind = "create"
    BY <1>2, <1>10, <1>11 DEF Creating
  <2>2. op[q].id # i /\ op[q].id \in Id
    BY <1>13, <2>1, NewType
  <2> QED BY <1>7, <2>1, <2>2 DEF GroupsInv, NotYetInserted
<1>15. OneWhileCreating'
  <2> SUFFICES ASSUME NEW q \in Request, NEW h \in history',
                      Creating(q)', op[q].id \in exists', h.id = op[q].id,
                      h.version = row'[h.id].version
               PROVE  h.members = members'[h.id]
    BY <1>2 DEF OneWhileCreating
  <2>1. CASE q = r
    BY <1>6, <2>1
  <2>2. CASE q # r
    <3>1. op[q].kind = "create" /\ Creating(q)
      BY <1>2, <1>10, <2>2 DEF Creating
    <3>2. op[q].id # i /\ op[q].id \in Id
      BY <1>13, <2>2, <3>1, NewType
    <3>3. h \in history /\ op[q].id \in exists /\ h.version = row[h.id].version
      BY <1>2, <1>7, <3>2 DEF Representation
    <3> QED BY <1>2, <3>1, <3>3 DEF GroupsInv, OneWhileCreating
  <2> QED BY <2>1, <2>2
<1> QED BY <1>6, <1>8, <1>9, <1>12, <1>14, <1>15 DEF GroupsInv

\* create's second write keeps the invariant: the version it leaves as it is
\* has had one representation, and gets a second.
LEMMA AddMembersKeepsInv ==
  ASSUME GroupsInv, NEW r \in Request, AddMembers(r)
  PROVE  GroupsInv'
<1> DEFINE i == op[r].id
<1>1. /\ pc[r] = "addMembers" /\ op[r].kind = "create" /\ i \in Id /\ op[r].members \in SUBSET Member
      /\ UNCHANGED <<users, exists, row, config, op, found, listed, linked, announced>>
  BY NewType DEF AddMembers, GroupsInv, CreatesOnly
<1>2. FreshIds'
  BY <1>1 DEF GroupsInv, FreshIds
<1>3. ASSUME pc'[r] \in {"done", "reply"}, \A q \in Request \ {r} : pc'[q] = pc[q]
      PROVE  LinkedCurrent' /\ CreatesOnly' /\ NotYetInserted' /\ (\A q \in Request : Creating(q)' => q # r /\ Creating(q))
  <2>1. \A q \in Request : NewMembers(q)' = NewMembers(q)
    BY <1>1 DEF NewMembers
  <2>2. LinkedCurrent' /\ CreatesOnly'
    BY <1>1, <1>3, <2>1 DEF GroupsInv, LinkedCurrent, CreatesOnly
  <2>3. \A q \in Request : Creating(q)' => q # r /\ Creating(q)
    BY <1>1, <1>3 DEF Creating
  <2>4. NotYetInserted'
    BY <1>1, <1>3, <2>3 DEF GroupsInv, NotYetInserted
  <2> QED BY <2>2, <2>3, <2>4
<1>4. CASE RefusedMembers(r) # 200
  <2>1. /\ pc' = [pc EXCEPT ![r] = "done"] /\ UNCHANGED <<members, links, history, raced>>
        /\ \E code \in {409, 500} : status' = [status EXCEPT ![r] = code]
    BY <1>4 DEF AddMembers, Answer, RefusedMembers
  <2>2. TypeOK'
    BY <1>1, <2>1 DEF GroupsInv, TypeOK
  <2>3. pc'[r] = "done" /\ \A q \in Request \ {r} : pc'[q] = pc[q]
    BY <2>1 DEF GroupsInv, TypeOK
  <2>4. /\ LinkedCurrent' /\ CreatesOnly' /\ NotYetInserted'
        /\ \A q \in Request : Creating(q)' => q # r /\ Creating(q)
    BY <1>3, <2>3
  <2>5. LinksFollowUsers' /\ NoOrphans' /\ HistoryBounded' /\ EtagIdentifiesGroup'
    BY <1>1, <2>1, TablesUntouched DEF tableVars
  <2>6. OneWhileCreating'
    BY <1>1, <2>1, <2>4 DEF GroupsInv, OneWhileCreating
  <2> QED BY <1>2, <2>2, <2>4, <2>5, <2>6 DEF GroupsInv
<1>5. CASE RefusedMembers(r) = 200
  <2> DEFINE list == members[i] \cup op[r].members
             new == Representation(i, row[i], list)
  <2>1. /\ members' = [members EXCEPT ![i] = list]
        /\ links' = [links EXCEPT ![i] = @ \cup linked[r]]
        /\ pc' = [pc EXCEPT ![r] = "reply"] /\ UNCHANGED status
        /\ raced' = [raced EXCEPT ![r] = @ \cup {q \in Request \ {r} : Open(q)}]
    BY <1>5 DEF AddMembers, Record, Goto
  <2>2. members'[i] = list
    BY <1>1, <2>1 DEF GroupsInv, TypeOK
  <2>3. history' = history \cup {new}
    BY <1>5, <2>2 DEF AddMembers
  <2>4. i \in exists /\ linked[r] \subseteq users
    BY <1>5 DEF RefusedMembers
  <2>5. TypeOK'
    BY <1>1, <2>1 DEF GroupsInv, TypeOK
  <2>6. linked[r] = op[r].members \cap users
    BY <1>1, <2>4 DEF GroupsInv, LinkedCurrent, NewMembers
  <2>7. LinksFollowUsers'
    <3>1. links[i] = members[i] \cap users
      BY <1>1 DEF GroupsInv, LinksFollowUsers
    <3>2. links'[i] = members'[i] \cap users'
      BY <1>1, <2>1, <2>2, <2>6, <3>1 DEF GroupsInv, TypeOK
    <3>3. \A j \in Id : j # i => links'[j] = links[j] /\ members'[j] = members[j]
      BY <2>1 DEF GroupsInv, TypeOK
    <3> QED BY <1>1, <3>2, <3>3 DEF GroupsInv, LinksFollowUsers
  <2>8. \A j \in Id : j # i => members'[j] = members[j]
    BY <2>1 DEF GroupsInv, TypeOK
  <2>9. NoOrphans'
    BY <1>1, <2>4, <2>8 DEF GroupsInv, NoOrphans
  <2>10. pc'[r] = "reply" /\ \A q \in Request \ {r} : pc'[q] = pc[q]
    BY <2>1 DEF GroupsInv, TypeOK
  <2>11. /\ LinkedCurrent' /\ CreatesOnly' /\ NotYetInserted'
         /\ \A q \in Request : Creating(q)' => q # r /\ Creating(q)
    BY <1>3, <2>10
  <2>12. /\ new \in GroupRepresentation /\ new.id = i /\ new.version = row[i].version
         /\ new.displayName = row[i].displayName /\ new.members = list
    <3>1. row[i] \in Row /\ members[i] \in SUBSET Member
      BY <1>1 DEF GroupsInv, TypeOK
    <3> QED BY <1>1, <3>1 DEF Representation, GroupRepresentation, Row
  <2>13. \A h \in history : h.id = i /\ h.version = row[i].version =>
            h.members = members[i] /\ h.displayName = row[i].displayName
    BY <1>1, <2>4 DEF GroupsInv, OneWhileCreating, HistoryBounded, Creating
  <2> HIDE DEF new
  <2>14. HistoryBounded'
    <3>1. \A h \in history' : h \in history \/ h = new
      BY <2>3
    <3>2. row[i].version \in Nat
      BY <1>1 DEF GroupsInv, TypeOK, Row
    <3> QED BY <1>1, <2>12, <3>1, <3>2 DEF GroupsInv, HistoryBounded
  <2>15. EtagIdentifiesGroup'
    <3> SUFFICES ASSUME NEW h \in history', NEW k \in history', h.id = k.id, h.version = k.version
                 PROVE  /\ h.displayName = k.displayName
                        /\ \/ h.members = k.members
                           \/ \E q \in Request :
                                 /\ op'[q].kind = "create" /\ op'[q].id = h.id
                                 /\ {h.members, k.members} =
                                       {h.members \cap k.members,
                                        (h.members \cap k.members) \cup op'[q].members}
      BY Zenon DEF EtagIdentifiesGroup
    <3>1. op' = op
      BY <1>1
    <3>2. CASE h \in history /\ k \in history
      <4>1. /\ h.displayName = k.displayName
            /\ \/ h.members = k.members
               \/ \E q \in Request :
                     /\ op[q].kind = "create" /\ op[q].id = h.id
                     /\ {h.members, k.members} =
                           {h.members \cap k.members,
                            (h.members \cap k.members) \cup op[q].members}
        BY <3>2, Zenon DEF GroupsInv, EtagIdentifiesGroup
      <4> QED BY <3>1, <4>1, Zenon
    <3>3. CASE h = new /\ k = new
      BY <3>3
    <3>4. CASE h = new /\ k \in history
      <4>1. h.displayName = k.displayName /\ h.id = i /\ h.members = list /\ k.members = members[i]
        BY <2>12, <2>13, <3>4
      <4>2. h.members \cap k.members = members[i]
        BY <4>1
      <4>3. {h.members, k.members} = {members[i], members[i] \cup op[r].members}
        BY <4>1
      <4> QED BY <1>1, <3>1, <4>1, <4>2, <4>3
    <3>5. CASE h \in history /\ k = new
      <4>1. h.displayName = k.displayName /\ h.id = i /\ k.members = list /\ h.members = members[i]
        BY <2>12, <2>13, <3>5
      <4>2. h.members \cap k.members = members[i]
        BY <4>1
      <4>3. {h.members, k.members} = {members[i], members[i] \cup op[r].members}
        BY <4>1
      <4>4. /\ op'[r].kind = "create" /\ op'[r].id = h.id
            /\ {h.members, k.members} =
                  {h.members \cap k.members, (h.members \cap k.members) \cup op'[r].members}
        BY <1>1, <3>1, <3>5, <4>1, <4>2, <4>3, <2>12
      <4> QED BY <4>1, <4>4
    <3> QED BY <2>3, <3>2, <3>3, <3>4, <3>5
  <2>16. OneWhileCreating'
    <3> SUFFICES ASSUME NEW q \in Request, NEW h \in history',
                        Creating(q)', op[q].id \in exists', h.id = op[q].id,
                        h.version = row'[h.id].version
                 PROVE  h.members = members'[h.id]
      BY <1>1 DEF OneWhileCreating
    <3>1. q # r /\ Creating(q)
      BY <2>11
    <3>2. op[q].id # i /\ op[q].id \in Id
      BY <1>1, <3>1, NewType DEF Creating, GroupsInv, FreshIds
    <3>3. h \in history
      BY <2>3, <2>12, <3>2
    <3>4. op[q].id \in exists /\ h.version = row[h.id].version
      BY <1>1
    <3>5. h.members = members[h.id]
      BY <3>1, <3>3, <3>4 DEF GroupsInv, OneWhileCreating
    <3>6. members'[h.id] = members[h.id]
      BY <2>8, <3>2
    <3> QED BY <3>5, <3>6
  <2> QED BY <1>2, <2>5, <2>7, <2>9, <2>11, <2>14, <2>15, <2>16 DEF GroupsInv
<1> QED BY <1>4, <1>5

\* The effect of a request's last write on the requests: it is over for r.
LEMMA RequestsAfterWrite ==
  ASSUME GroupsInv, NEW r \in Request, UNCHANGED <<users, op, found, listed, linked>>,
         NEW label \in {"done", "reply"}, pc' = [pc EXCEPT ![r] = label]
  PROVE  FreshIds' /\ LinkedCurrent' /\ CreatesOnly'
<1>1. \A q \in Request : NewMembers(q)' = NewMembers(q)
  BY DEF NewMembers
<1>2. \A q \in Request : pc'[q] = IF q = r THEN label ELSE pc[q]
  BY DEF GroupsInv, TypeOK
<1>3. LinkedCurrent' /\ CreatesOnly'
  BY <1>1, <1>2 DEF GroupsInv, LinkedCurrent, CreatesOnly
<1> QED BY <1>3 DEF GroupsInv, FreshIds

\* The transaction keeps the invariant: its version is above all others, and
\* the foreign key has refused the links that were stale.
LEMMA UpdateKeepsInv ==
  ASSUME GroupsInv, NEW r \in Request, Update(r)
  PROVE  GroupsInv'
<1> DEFINE i == op[r].id
<1>1. /\ pc[r] = "commit" /\ op[r].kind # "delete" /\ i \in Id
      /\ NewName(r) \in DisplayName /\ NewMembers(r) \in SUBSET Member
      /\ UNCHANGED <<users, exists, config, op, found, listed, linked, announced>>
  BY NewType DEF Update
<1>2. CASE RefusedUpdate(r) # 200
  <2>1. /\ pc' = [pc EXCEPT ![r] = "done"] /\ UNCHANGED <<row, members, links, history, raced>>
        /\ \E code \in {404, 500} : status' = [status EXCEPT ![r] = code]
    BY <1>2 DEF Update, Answer, RefusedUpdate
  <2>2. TypeOK'
    BY <1>1, <2>1 DEF GroupsInv, TypeOK
  <2>3. FreshIds' /\ LinkedCurrent' /\ CreatesOnly'
    BY <1>1, <2>1, RequestsAfterWrite
  <2>4. LinksFollowUsers' /\ NoOrphans' /\ HistoryBounded' /\ EtagIdentifiesGroup'
    BY <1>1, <2>1, TablesUntouched DEF tableVars
  <2>5. NotYetInserted' /\ OneWhileCreating'
    <3>1. ~Creating(r)'
      BY <1>1, <2>1 DEF Creating, GroupsInv, TypeOK
    <3>2. UNCHANGED <<tableVars, op, history>>
      BY <1>1, <2>1 DEF tableVars
    <3> QED BY <2>1, <3>1, <3>2, CreatesUntouched
  <2> QED BY <2>2, <2>3, <2>4, <2>5 DEF GroupsInv
<1>3. CASE RefusedUpdate(r) = 200
  <2> DEFINE columns == RowAfter(r)
             list == NewMembers(r)
  <2>1. /\ row' = [row EXCEPT ![i] = columns]
        /\ members' = [members EXCEPT ![i] = list]
        /\ links' = [links EXCEPT ![i] = linked[r]]
        /\ pc' = [pc EXCEPT ![r] = "reply"] /\ UNCHANGED status
        /\ raced' = [raced EXCEPT ![r] = @ \cup {q \in Request \ {r} : Open(q)}]
        /\ history' = history \cup {Representation(i, columns, list)}
    BY <1>3 DEF Update, Record, Goto, MembersAfter
  <2>2. i \in exists /\ linked[r] \subseteq users
    BY <1>3 DEF RefusedUpdate
  <2>3. columns \in Row /\ columns.version > row[i].version
    <3>1. row[i] \in Row
      BY <1>1 DEF GroupsInv, TypeOK
    <3> QED BY <1>1, <3>1 DEF RowAfter, Row
  <2>4. linked[r] = list \cap users
    BY <1>1, <2>2 DEF GroupsInv, LinkedCurrent
  <2> HIDE DEF columns, list
  <2>5. /\ HistoryBounded' /\ EtagIdentifiesGroup'
        /\ \A h \in history' : h.id = i /\ h.version = row'[i].version => h.members = members'[i]
    <3> HIDE DEF i
    <3>1. list \in SUBSET Member
      BY <1>1 DEF list
    <3> QED BY <1>1, <2>1, <2>3, <3>1, NewVersion
  <2>6. /\ \A j \in Id : j # i => row'[j] = row[j] /\ members'[j] = members[j] /\ links'[j] = links[j]
        /\ row'[i] = columns /\ members'[i] = list /\ links'[i] = linked[r]
    BY <1>1, <2>1 DEF GroupsInv, TypeOK
  <2>7. TypeOK'
    <3>1. /\ list \in SUBSET Member /\ columns.version \in Nat /\ columns.version > 0
          /\ linked[r] \in SUBSET Member
      BY <1>1, <2>3 DEF list, GroupsInv, TypeOK, Row
    <3> QED BY <1>1, <2>1, <2>3, <2>6, <3>1 DEF GroupsInv, TypeOK
  <2>8. FreshIds' /\ LinkedCurrent' /\ CreatesOnly'
    BY <1>1, <2>1, RequestsAfterWrite
  <2>9. LinksFollowUsers'
    BY <1>1, <2>4, <2>6 DEF GroupsInv, LinksFollowUsers
  <2>10. NoOrphans'
    BY <1>1, <2>2, <2>6 DEF GroupsInv, NoOrphans
  <2>11. \A q \in Request : Creating(q)' => Creating(q) /\ pc'[q] = pc[q]
    BY <1>1, <2>1 DEF Creating, GroupsInv, TypeOK
  <2>12. NotYetInserted'
    <3> SUFFICES ASSUME NEW q \in Request, Creating(q)', pc'[q] \in {"conflict", "insert"}
                 PROVE  row'[op[q].id].version = 0
      BY <1>1 DEF NotYetInserted
    <3>1. row[op[q].id].version = 0 /\ op[q].id \in Id
      BY <2>11, NewType DEF GroupsInv, NotYetInserted
    <3>2. op[q].id # i
      BY <2>2, <3>1 DEF GroupsInv, TypeOK
    <3> QED BY <2>6, <3>1, <3>2
  <2>13. OneWhileCreating'
    <3> SUFFICES ASSUME NEW q \in Request, NEW h \in history',
                        Creating(q)', op[q].id \in exists', h.id = op[q].id,
                        h.version = row'[h.id].version
                 PROVE  h.members = members'[h.id]
      BY <1>1 DEF OneWhileCreating
    <3>1. CASE h.id = i
      BY <2>5, <3>1
    <3>2. CASE h.id # i
      <4>1. h \in history
        BY <2>1, <3>2 DEF Representation
      <4>2. h.id \in Id /\ h.version = row[h.id].version /\ members'[h.id] = members[h.id]
        BY <2>6, <3>2, NewType
      <4>3. h.members = members[h.id]
        BY <1>1, <2>11, <4>1, <4>2 DEF GroupsInv, OneWhileCreating
      <4> QED BY <4>2, <4>3
    <3> QED BY <3>1, <3>2
  <2> QED BY <2>5, <2>7, <2>8, <2>9, <2>10, <2>12, <2>13 DEF GroupsInv
<1> QED BY <1>2, <1>3

\* The deletion of a group keeps the invariant.
LEMMA DeleteKeepsInv ==
  ASSUME GroupsInv, NEW r \in Request, Delete(r)
  PROVE  GroupsInv'
<1> DEFINE i == op[r].id
<1>1. /\ pc[r] = "commit" /\ op[r].kind = "delete" /\ i \in Id
      /\ UNCHANGED <<users, row, config, op, found, listed, linked, announced, history>>
  BY NewType DEF Delete
<1>2. \/ /\ pc' = [pc EXCEPT ![r] = "done"] /\ status' = [status EXCEPT ![r] = 404]
         /\ UNCHANGED <<exists, members, links, raced>>
      \/ /\ pc' = [pc EXCEPT ![r] = "reply"] /\ UNCHANGED status
         /\ exists' = exists \ {i}
         /\ members' = [members EXCEPT ![i] = {}] /\ links' = [links EXCEPT ![i] = {}]
         /\ raced' = [raced EXCEPT ![r] = @ \cup {q \in Request \ {r} : Open(q)}]
  BY DEF Delete, Answer, Goto, Record
<1>3. TypeOK'
  BY <1>1, <1>2 DEF GroupsInv, TypeOK
<1>4. FreshIds' /\ LinkedCurrent' /\ CreatesOnly'
  BY <1>1, <1>2, RequestsAfterWrite
<1>5. LinksFollowUsers' /\ NoOrphans'
  BY <1>1, <1>2 DEF GroupsInv, TypeOK, LinksFollowUsers, NoOrphans
<1>6. HistoryBounded'
  BY <1>1 DEF GroupsInv, HistoryBounded
<1>7. EtagIdentifiesGroup'
  BY <1>1, EtagsUntouched
<1>8. \A q \in Request : Creating(q)' => Creating(q) /\ pc'[q] = pc[q]
  BY <1>1, <1>2 DEF Creating, GroupsInv, TypeOK
<1>9. NotYetInserted'
  BY <1>1, <1>8 DEF GroupsInv, NotYetInserted
<1>10. OneWhileCreating'
  <2>1. \A j \in exists' : j \in exists /\ members'[j] = members[j]
    BY <1>2 DEF GroupsInv, TypeOK
  <2> QED BY <1>1, <1>8, <2>1 DEF GroupsInv, OneWhileCreating
<1> QED BY <1>3, <1>4, <1>5, <1>6, <1>7, <1>9, <1>10 DEF GroupsInv

\* The deletion of a user keeps the invariant: it takes its links along.
LEMMA DeleteUserKeepsInv ==
  ASSUME GroupsInv, NEW u \in Member, DeleteUser(u)
  PROVE  GroupsInv'
<1>1. /\ users' = users \ {u} /\ links' = [i \in Id |-> links[i] \ {u}]
      /\ UNCHANGED <<exists, row, members, config, op, pc, found, listed, linked, status,
                     announced, history, raced>>
  BY DEF DeleteUser
<1>2. TypeOK'
  BY <1>1 DEF GroupsInv, TypeOK
<1>3. LinksFollowUsers'
  BY <1>1 DEF GroupsInv, LinksFollowUsers
<1>4. LinkedCurrent'
  <2>1. \A q \in Request : NewMembers(q)' = NewMembers(q)
    BY <1>1 DEF NewMembers
  <2> QED BY <1>1, <2>1 DEF GroupsInv, LinkedCurrent
<1>5. FreshIds' /\ CreatesOnly' /\ NoOrphans'
  BY <1>1 DEF GroupsInv, FreshIds, CreatesOnly, NoOrphans
<1>6. NotYetInserted' /\ HistoryBounded' /\ OneWhileCreating'
  BY <1>1 DEF GroupsInv, NotYetInserted, HistoryBounded, OneWhileCreating, Creating
<1>7. EtagIdentifiesGroup'
  BY <1>1, EtagsUntouched
<1> QED BY <1>2, <1>3, <1>4, <1>5, <1>6, <1>7 DEF GroupsInv

\* Every step of the service, and of the deletion of users, keeps it.
LEMMA GroupsNextInv == GroupsInv /\ [Next]_groupVars => GroupsInv'
<1> SUFFICES ASSUME GroupsInv, [Next]_groupVars PROVE GroupsInv'
  OBVIOUS
<1>1. ASSUME NEW r \in Request,
             \/ FindRow(r) \/ FindMembers(r) \/ CheckConflict(r) \/ Resolve(r)
             \/ Reply(r) \/ DatabaseFails(r)
      PROVE  GroupsInv'
  BY <1>1, ReadStepKeepsInv
<1>2. ASSUME NEW r \in Request, Insert(r) \/ AddMembers(r) \/ Update(r) \/ Delete(r)
      PROVE  GroupsInv'
  BY <1>2, InsertKeepsInv, AddMembersKeepsInv, UpdateKeepsInv, DeleteKeepsInv
<1>3. ASSUME NEW u \in Member, DeleteUser(u) PROVE GroupsInv'
  BY <1>3, DeleteUserKeepsInv
<1>4. CASE UNCHANGED groupVars
  <2>1. UNCHANGED <<tableVars, op, history>> /\ config' = config /\ pc' = pc
        /\ UNCHANGED <<found, listed, linked, status, announced, raced>>
    BY <1>4 DEF groupVars
  <2>2. FreshIds' /\ LinksFollowUsers' /\ NoOrphans' /\ HistoryBounded' /\ EtagIdentifiesGroup'
    BY <2>1, TablesUntouched
  <2>3. TypeOK' /\ CreatesOnly' /\ NotYetInserted' /\ OneWhileCreating'
    BY <2>1 DEF GroupsInv, TypeOK, tableVars, CreatesOnly, NotYetInserted, OneWhileCreating,
                Creating
  <2>4. \A q \in Request : NewMembers(q)' = NewMembers(q)
    BY <2>1 DEF NewMembers
  <2>5. LinkedCurrent'
    BY <2>1, <2>4 DEF GroupsInv, LinkedCurrent, tableVars
  <2> QED BY <2>2, <2>3, <2>5 DEF GroupsInv
<1> QED BY <1>1, <1>2, <1>3, <1>4 DEF Next, Done

\* The invariant holds in every reachable state.
THEOREM GroupsInvariant == Spec => []GroupsInv
  BY GroupsInitInv, GroupsNextInv, PTL DEF Spec

\* The state keeps its shape: what PATCH computes from its torn read, and every
\* row and member list stored, is well formed, for any requests.
THEOREM GroupsTypeCorrect == Spec => []TypeOK
<1>1. GroupsInv => TypeOK
  BY DEF GroupsInv
<1> QED BY <1>1, GroupsInvariant, PTL

\* The links of a group are its members that are users, although they are
\* resolved before the write and users are deleted at any moment.
THEOREM LinksFollow == Spec => []LinksFollowUsers
<1>1. GroupsInv => LinksFollowUsers
  BY DEF GroupsInv
<1> QED BY <1>1, GroupsInvariant, PTL

\* A version-based ETag identifies one representation of a group, or the two a
\* create in two writes gives it.
THEOREM GroupEtagsIdentify == Spec => []EtagIdentifiesGroup
<1>1. GroupsInv => EtagIdentifiesGroup
  BY DEF GroupsInv
<1> QED BY <1>1, GroupsInvariant, PTL

-----------------------------------------------------------------------------

\* An abstract resource is present exactly when the group exists.
LEMMA PresentIsExists ==
  ASSUME GroupsInv
  PROVE  /\ Store!Present = exists
         /\ \A i \in Id : Content[i] = IF i \in exists THEN <<i, row[i].displayName>> ELSE NoGroup
         /\ \A i \in exists : Content[i] \in GroupContent /\ Content[i] # NoGroup
         /\ Content \in [Id -> GroupContent \cup {NoGroup}]
<1>1. exists \subseteq Id /\ \A i \in Id : row[i].displayName \in DisplayName
  BY DEF GroupsInv, TypeOK, Row
<1>2. \A i \in Id : <<i, row[i].displayName>> \in GroupContent
  BY <1>1 DEF GroupContent
<1>3. NoGroup \notin GroupContent
  BY FirstGroupsAssumption DEF GroupContent
<1>4. \A i \in Id : Content[i] = IF i \in exists THEN <<i, row[i].displayName>> ELSE NoGroup
  BY DEF Content
<1>5. \A i \in exists : Content[i] \in GroupContent /\ Content[i] # NoGroup
  BY <1>1, <1>2, <1>3, <1>4
<1>6. Content \in [Id -> GroupContent \cup {NoGroup}]
  BY <1>2 DEF Content
<1>7. Store!Present = exists
  BY <1>1, <1>4, <1>5 DEF Store!Present
<1> QED BY <1>4, <1>5, <1>6, <1>7

\* No two groups have one id.
LEMMA IdsUnique ==
  ASSUME GroupsInv, NEW i \in Id, NEW n
  PROVE  Store!NameFree(<<i, n>>, i)
<1>1. Store!Present = exists /\ exists \subseteq Id
  BY PresentIsExists DEF GroupsInv, TypeOK
<1>2. \A j \in exists : Content[j] = <<j, row[j].displayName>>
  BY <1>1, PresentIsExists
<1>3. \A j \in exists : IdOf(Content[j]) = j
  BY <1>2 DEF IdOf
<1>4. IdOf(<<i, n>>) = i
  BY DEF IdOf
<1> QED BY <1>1, <1>3, <1>4 DEF Store!NameFree

\* The initial tables are an initial store.
LEMMA InitImplements == Init => Store!StoreInit
<1> SUFFICES ASSUME Init PROVE Store!StoreInit
  OBVIOUS
<1>1. GroupsInv
  BY GroupsInitInv
<1>2. Store!Present = exists /\ Content \in [Id -> GroupContent \cup {NoGroup}]
  BY <1>1, PresentIsExists
<1>3. Version = [i \in Id |-> IF i \in Store!Present THEN 1 ELSE 0]
  BY <1>2 DEF Init, Version
<1>4. \A i \in Store!Present : Store!NameFree(Content[i], i)
  BY <1>1, <1>2, PresentIsExists, IdsUnique DEF GroupsInv, TypeOK
<1> QED BY <1>2, <1>3, <1>4 DEF Store!StoreInit

\* A change of one group, or of the table's knowledge of it, is a change of one
\* abstract resource.
LEMMA OneGroup ==
  ASSUME GroupsInv, GroupsInv', NEW i \in Id,
         \A j \in Id \ {i} : row'[j] = row[j] /\ (j \in exists' <=> j \in exists)
  PROVE  /\ Content' = [Content EXCEPT ![i] = Content'[i]]
         /\ Version' = [Version EXCEPT ![i] = row'[i].version]
         /\ i \in exists' => Content'[i] \in GroupContent /\ Store!NameFree(Content'[i], i)
<1>1. \A j \in Id : j # i => Content'[j] = Content[j] /\ Version'[j] = Version[j]
  BY DEF Content, Version
<1>2. DOMAIN Content = Id /\ DOMAIN Content' = Id /\ DOMAIN Version = Id /\ DOMAIN Version' = Id
  BY DEF Content, Version
<1>3. Version'[i] = row'[i].version
  BY DEF Version
<1>4. Content' = [j \in Id |-> Content'[j]] /\ Content = [j \in Id |-> Content[j]]
  BY DEF Content
<1>5. Version' = [j \in Id |-> Version'[j]] /\ Version = [j \in Id |-> Version[j]]
  BY DEF Version
<1>6. Content' = [Content EXCEPT ![i] = Content'[i]]
  BY <1>1, <1>2, <1>4
<1>7. Version' = [Version EXCEPT ![i] = row'[i].version]
  BY <1>1, <1>2, <1>3, <1>5
<1>8. ASSUME i \in exists'
      PROVE  Content'[i] \in GroupContent /\ Store!NameFree(Content'[i], i)
  <2>1. Content'[i] = <<i, row'[i].displayName>>
    BY <1>8 DEF Content
  <2>2. row'[i].displayName \in DisplayName
    BY DEF GroupsInv, TypeOK, Row
  <2> QED BY <2>1, <2>2, IdsUnique DEF GroupContent
<1> QED BY <1>6, <1>7, <1>8

\* The writes of the rows are steps of the store.
LEMMA WriteImplements ==
  ASSUME GroupsInv, GroupsInv', NEW r \in Request
  PROVE  /\ Insert(r) => Store!StoreNext
         /\ Update(r) /\ RefusedUpdate(r) = 200 => Store!StoreNext
         /\ Delete(r) /\ ~RefusedDelete(r) => Store!StoreNext
<1> DEFINE i == op[r].id
<1>1. i \in Id
  BY NewType
<1>2. Store!Present = exists
  BY PresentIsExists
<1>3. ASSUME Insert(r) PROVE Store!StoreNext
  <2>1. /\ row' = [row EXCEPT ![i] = FirstRow(r)] /\ exists' = exists \cup {i}
        /\ pc[r] = "insert"
    BY <1>3 DEF Insert
  <2>2. Version[i] = 0 /\ row'[i].version = 1
    BY <1>1, <2>1 DEF Version, FirstRow, GroupsInv, TypeOK, CreatesOnly, NotYetInserted, Creating
  <2>3. \A j \in Id \ {i} : row'[j] = row[j] /\ (j \in exists' <=> j \in exists)
    BY <2>1 DEF GroupsInv, TypeOK
  <2>4. i \in exists'
    BY <2>1
  <2> HIDE DEF i
  <2>5. Store!CreateResource(i)
    BY <1>1, <2>2, <2>3, <2>4, OneGroup DEF Store!CreateResource, Store!Only
  <2> QED BY <1>1, <2>5 DEF Store!StoreNext
<1>4. ASSUME Update(r), RefusedUpdate(r) = 200 PROVE Store!StoreNext
  <2>1. /\ row' = [row EXCEPT ![i] = RowAfter(r)] /\ exists' = exists /\ i \in exists
    BY <1>4 DEF Update, RefusedUpdate
  <2>2. row'[i].version = Version[i] + 1
    BY <1>1, <2>1 DEF Version, RowAfter, GroupsInv, TypeOK
  <2>3. \A j \in Id \ {i} : row'[j] = row[j] /\ (j \in exists' <=> j \in exists)
    BY <2>1 DEF GroupsInv, TypeOK
  <2>4. i \in exists' /\ i \in exists
    BY <2>1
  <2> HIDE DEF i
  <2>5. Store!ChangeResource(i)
    BY <1>1, <1>2, <2>2, <2>3, <2>4, OneGroup DEF Store!ChangeResource, Store!Only
  <2> QED BY <1>1, <2>5 DEF Store!StoreNext
<1>5. ASSUME Delete(r), ~RefusedDelete(r) PROVE Store!StoreNext
  <2>1. row' = row /\ exists' = exists \ {i} /\ i \in exists
    BY <1>5 DEF Delete, RefusedDelete
  <2>2. \A j \in Id \ {i} : row'[j] = row[j] /\ (j \in exists' <=> j \in exists)
    BY <2>1
  <2>3. Content'[i] = NoGroup /\ Version' = Version
    BY <1>1, <2>1 DEF Content, Version
  <2>4. i \in exists
    BY <2>1
  <2> HIDE DEF i
  <2>5. Store!DeleteResource(i)
    BY <1>1, <1>2, <2>2, <2>3, <2>4, OneGroup DEF Store!DeleteResource
  <2> QED BY <1>1, <2>5 DEF Store!StoreNext
<1> QED BY <1>3, <1>4, <1>5

\* The write of a row is a step of the store; every other step, the second
\* write of a create included, changes nothing there.
LEMMA StepImplements ==
  GroupsInv /\ [Next]_groupVars => [Store!StoreNext]_Store!storeVars
<1> SUFFICES ASSUME GroupsInv, [Next]_groupVars
             PROVE  [Store!StoreNext]_Store!storeVars
  OBVIOUS
<1>1. GroupsInv'
  BY GroupsNextInv
<1>2. CASE UNCHANGED <<exists, row>>
  BY <1>2 DEF Store!storeVars, Content, Version
<1>3. ASSUME NEW r \in Request,
             \/ FindRow(r) \/ FindMembers(r) \/ CheckConflict(r) \/ Resolve(r) \/ AddMembers(r)
             \/ Reply(r) \/ DatabaseFails(r)
             \/ Update(r) /\ RefusedUpdate(r) # 200
             \/ Delete(r) /\ RefusedDelete(r)
      PROVE  UNCHANGED <<exists, row>>
  BY <1>3 DEF FindRow, FindMembers, CheckConflict, Resolve, AddMembers, Reply, DatabaseFails,
              Update, Delete, tableVars
<1>4. ASSUME NEW u \in Member, DeleteUser(u) PROVE UNCHANGED <<exists, row>>
  BY <1>4 DEF DeleteUser
<1>5. ASSUME NEW r \in Request,
             \/ Insert(r)
             \/ Update(r) /\ RefusedUpdate(r) = 200
             \/ Delete(r) /\ ~RefusedDelete(r)
      PROVE  Store!StoreNext
  BY <1>1, <1>5, WriteImplements
<1>6. CASE UNCHANGED groupVars
  BY <1>2, <1>6 DEF groupVars, tableVars
<1>7. CASE Next
  BY <1>2, <1>3, <1>4, <1>5, <1>6, <1>7 DEF Next, Done
<1> QED BY <1>6, <1>7

(***************************************************************************)
(* Apart from their members the groups of an endpoint are a ResourceStore  *)
(* for any number of concurrent requests and failures: the versions of a   *)
(* group are consecutive, no two creates share a group, and a PATCH never  *)
(* writes a deleted group back.                                            *)
(***************************************************************************)
THEOREM GroupsAreStore == Spec => GroupsImplementStore
  BY InitImplements, StepImplements, GroupsInvariant, PTL
     DEF Spec, GroupsImplementStore, Store!StoreSpec

-----------------------------------------------------------------------------
(***************************************************************************)
(* What the writes of groups do to each other: a change is lost, and a     *)
(* displayName is given twice, only by a race that "raced" has on record.  *)
(*                                                                         *)
(* The argument: once r has written, whoever reads the group reads r's     *)
(* change, and writes it back unless it asks for another change of the     *)
(* same thing; who had read before is in raced[r], and so is a create that *)
(* has its members still to add. The same for the names: until r writes,   *)
(* a group with the name r has checked was written by somebody who saw r   *)
(* open.                                                                   *)
(***************************************************************************)

\* What Shows says, of an operation, a name and a list (no variable occurs).
NameShown(o, name) == o.kind \notin {"add", "remove"} => name = o.displayName

ListShown(o, list) ==
    /\ o.kind = "add" => o.member \in list
    /\ o.kind = "remove" => o.member \notin list
    /\ o.kind \in {"create", "replace"} => list = o.members

\* r's change is in the table and no failure has been reported for it.
Wrote(r) == op[r].kind # "delete" /\ (pc[r] = "reply" \/ status[r] = 200)

\* q writes what it read.
Reads(q) == op[q].kind \notin {"create", "delete"}

HasRow == {"findMembers", "conflict", "resolve", "commit"}
HasList == {"conflict", "resolve", "commit"}

Alone(r) == \A q \in Request \ {r} : ~Touches(q, r)
Unraced(r) == \A q \in raced[r] : op[q].id # op[r].id

\* A status is the last thing that happens, and a create has no transaction.
Sequence ==
    \A r \in Request :
        /\ pc[r] # "done" => status[r] = 0
        /\ pc[r] = "commit" => op[r].kind # "create"

\* A group that was written has been created; the create that is not finished
\* saw the write.
WroteGiven ==
    \A r \in Request : Wrote(r) =>
        /\ row[op[r].id].version > 0
        /\ op[r].kind # "create" =>
              \A q \in Request : Creating(q) /\ op[q].id = op[r].id => q \in raced[r]

\* Between the writes of a create its group is as the first one left it.
CreateStands ==
    \A r \in Request :
        /\ Creating(r) /\ pc[r] \in {"resolve", "addMembers"}
        /\ Alone(r) /\ op[r].id \in exists
        => row[op[r].id].displayName = op[r].displayName /\ members[op[r].id] = {}

\* The change of r, in the tables and in the hands of whoever will write them.
ChangeStands ==
    \A r \in Request :
        /\ Wrote(r) /\ Unraced(r) /\ Alone(r) /\ op[r].id \in exists
        => /\ NameShown(op[r], row[op[r].id].displayName)
           /\ ListShown(op[r], members[op[r].id])
           /\ \A q \in Request \ {r} : Reads(q) /\ op[q].id = op[r].id =>
                 /\ pc[q] \in HasRow => NameShown(op[r], found[q].displayName)
                 /\ pc[q] \in HasList => ListShown(op[r], listed[q])

\* r has looked for a conflict and not yet written the name.
NamePending(r) ==
    \/ op[r].kind = "create" /\ pc[r] = "insert"
    \/ Reads(r) /\ pc[r] \in {"resolve", "commit"}

\* A group with the name r is about to write got it while r was open.
NamesPending ==
    \A r \in Request : NamePending(r) =>
        \A j \in exists \ {op[r].id} : row[j].displayName = NewName(r) =>
            \E q \in Request : r \in raced[q] /\ op[q].id = j

\* The record of a race between groups i and j.
Crossed(i, j) ==
    \E r, q \in Request :
        /\ q \in raced[r]
        /\ \/ op[q].id = i /\ op[r].id = j
           \/ op[q].id = j /\ op[r].id = i

NamesUnique ==
    \A i, j \in exists : i # j /\ row[i].displayName = row[j].displayName => Crossed(i, j)

RacesInv ==
    /\ GroupsInv
    /\ Sequence
    /\ WroteGiven
    /\ CreateStands
    /\ ChangeStands
    /\ NamesPending
    /\ NamesUnique

-----------------------------------------------------------------------------

LEMMA KindFacts ==
  ASSUME GroupsInv, NEW r \in Request
  PROVE  /\ op[r].id \in Id
         /\ op[r].kind \in {"create", "add", "remove", "rename", "replace", "delete"}
BY NewType

\* What r writes shows its change.
LEMMA WritesItself ==
  ASSUME GroupsInv, NEW r \in Request, Reads(r)
  PROVE  NameShown(op[r], NewName(r)) /\ ListShown(op[r], NewMembers(r))
<1>1. op[r].kind \in {"add", "remove", "rename", "replace"}
  BY KindFacts DEF Reads
<1>2. NameShown(op[r], NewName(r))
  BY <1>1 DEF NameShown, NewName
<1>3. ListShown(op[r], NewMembers(r))
  BY <1>1 DEF ListShown, NewMembers
<1> QED BY <1>2, <1>3

\* What q writes still shows r's change, when q had read it and does not touch it.
LEMMA WritesOther ==
  ASSUME GroupsInv, NEW r \in Request, NEW q \in Request, Reads(q), op[r].kind # "delete",
         op[q].id = op[r].id, ~Touches(q, r),
         NameShown(op[r], found[q].displayName), ListShown(op[r], listed[q])
  PROVE  NameShown(op[r], NewName(q)) /\ ListShown(op[r], NewMembers(q))
<1>1. /\ op[q].kind \in {"add", "remove", "rename", "replace"}
      /\ op[r].kind \in {"create", "add", "remove", "rename", "replace"}
  BY KindFacts DEF Reads
<1>2. CASE op[q].kind \in {"add", "remove"}
  <2>1. /\ op[r].kind # "rename" => op[r].kind \in {"add", "remove"}
        /\ op[r].kind \in {"add", "remove"} =>
              op[q].member # op[r].member \/ op[q].kind = op[r].kind
    BY <1>1, <1>2 DEF Touches
  <2>2. NewName(q) = found[q].displayName
    BY <1>2 DEF NewName
  <2>3. \/ op[q].kind = "add" /\ NewMembers(q) = listed[q] \cup {op[q].member}
        \/ op[q].kind = "remove" /\ NewMembers(q) = listed[q] \ {op[q].member}
    BY <1>2 DEF NewMembers
  <2> QED BY <1>1, <2>1, <2>2, <2>3 DEF NameShown, ListShown
<1>3. CASE op[q].kind = "rename"
  <2>1. op[r].kind \in {"add", "remove"}
    BY <1>1, <1>3 DEF Touches
  <2>2. NewMembers(q) = listed[q]
    BY <1>3 DEF NewMembers
  <2> QED BY <2>1, <2>2 DEF NameShown
<1>4. CASE op[q].kind = "replace"
  BY <1>4 DEF Touches
<1> QED BY <1>1, <1>2, <1>3, <1>4

LEMMA RacesInit == Init => RacesInv
<1> SUFFICES ASSUME Init PROVE RacesInv
  OBVIOUS
<1>1. GroupsInv
  BY GroupsInitInv
<1>2. \A r \in Request : pc[r] \in {"find", "conflict"} /\ status[r] = 0 /\ ~Wrote(r) /\ ~NamePending(r)
  BY DEF Init, Wrote, NamePending
<1>3. NamesUnique
  <2>1. \A i \in exists : FirstGroups[i] # NoGroup /\ row[i].displayName = FirstGroups[i].displayName
    BY DEF Init
  <2>2. exists \subseteq Id
    BY <1>1 DEF GroupsInv, TypeOK
  <2> QED BY <2>1, <2>2, FirstNamesUnique DEF NamesUnique
<1> QED BY <1>1, <1>2, <1>3
    DEF RacesInv, Sequence, WroteGiven, CreateStands, ChangeStands, NamesPending

\* A step that leaves the groups alone: who goes on with a row or a list goes on
\* with the present one, and who passes the check passes it against the table.
LEMMA QuietKeepsRaces ==
  ASSUME RacesInv, GroupsInv', UNCHANGED <<exists, row, members, op, raced>>,
         \A q \in Request : Wrote(q)' => Wrote(q),
         \A q \in Request : pc'[q] # "done" => status'[q] = 0,
         \A q \in Request : pc'[q] = "commit" => op[q].kind # "create",
         \A q \in Request : Creating(q)' =>
            /\ Creating(q)
            /\ pc'[q] \in {"resolve", "addMembers"} => pc[q] \in {"resolve", "addMembers"},
         \A q \in Request : Reads(q) /\ pc'[q] \in HasRow =>
            \/ pc[q] \in HasRow /\ found'[q] = found[q]
            \/ found'[q] = row[op[q].id],
         \A q \in Request : Reads(q) /\ pc'[q] \in HasList =>
            \/ pc[q] \in HasList /\ listed'[q] = listed[q]
            \/ listed'[q] = members[op[q].id],
         \A q \in Request : NamePending(q)' =>
            /\ NewName(q)' = NewName(q)
            /\ NamePending(q) \/ ~NameTaken(NewName(q), op[q].id)
  PROVE  RacesInv'
<1>1. \A r \in Request : /\ Alone(r)' <=> Alone(r)
                         /\ Unraced(r)' <=> Unraced(r)
                         /\ Reads(r)' <=> Reads(r)
  BY DEF Alone, Touches, Unraced, Reads
<1>2. Sequence' /\ WroteGiven'
  <2>1. Sequence'
    BY DEF Sequence
  <2>2. WroteGiven'
    BY DEF RacesInv, WroteGiven
  <2> QED BY <2>1, <2>2
<1>3. CreateStands'
  BY <1>1 DEF RacesInv, CreateStands
<1>4. ChangeStands'
  <2> SUFFICES ASSUME NEW r \in Request, Wrote(r)', Unraced(r), Alone(r), op[r].id \in exists
               PROVE  /\ NameShown(op[r], row[op[r].id].displayName)
                      /\ ListShown(op[r], members[op[r].id])
                      /\ \A q \in Request \ {r} : Reads(q) /\ op[q].id = op[r].id =>
                            /\ pc'[q] \in HasRow => NameShown(op[r], found'[q].displayName)
                            /\ pc'[q] \in HasList => ListShown(op[r], listed'[q])
    BY <1>1 DEF ChangeStands
  <2>1. /\ NameShown(op[r], row[op[r].id].displayName)
        /\ ListShown(op[r], members[op[r].id])
        /\ \A q \in Request \ {r} : Reads(q) /\ op[q].id = op[r].id =>
              /\ pc[q] \in HasRow => NameShown(op[r], found[q].displayName)
              /\ pc[q] \in HasList => ListShown(op[r], listed[q])
    BY DEF RacesInv, ChangeStands
  <2>2. ASSUME NEW q \in Request \ {r}, Reads(q), op[q].id = op[r].id, pc'[q] \in HasRow
        PROVE  NameShown(op[r], found'[q].displayName)
    BY <2>1, <2>2
  <2>3. ASSUME NEW q \in Request \ {r}, Reads(q), op[q].id = op[r].id, pc'[q] \in HasList
        PROVE  ListShown(op[r], listed'[q])
    BY <2>1, <2>3
  <2> QED BY <2>1, <2>2, <2>3
<1>5. NamesPending'
  <2> SUFFICES ASSUME NEW r \in Request, NamePending(r)', NEW j \in exists \ {op[r].id},
                      row[j].displayName = NewName(r)'
               PROVE  \E q \in Request : r \in raced[q] /\ op[q].id = j
    BY DEF NamesPending
  <2>1. NewName(r)' = NewName(r) /\ NamePending(r)
    BY DEF NameTaken
  <2> QED BY <2>1 DEF RacesInv, NamesPending
<1>6. NamesUnique'
  BY DEF RacesInv, NamesUnique, Crossed
<1> QED BY <1>2, <1>3, <1>4, <1>5, <1>6 DEF RacesInv

Codes == {0, 200, 400, 404, 409, 412, 428, 500, 503}
Places == {"find", "findMembers", "conflict", "insert", "resolve", "addMembers", "commit",
           "reply", "done"}

LEMMA Shapes ==
  ASSUME GroupsInv
  PROVE  /\ pc \in [Request -> Places] /\ status \in [Request -> Codes]
         /\ found \in [Request -> Row] /\ listed \in [Request -> SUBSET Member]
         /\ row \in [Id -> Row] /\ members \in [Id -> SUBSET Member] /\ exists \subseteq Id
         /\ raced \in [Request -> SUBSET Request]
BY DEF GroupsInv, TypeOK, Places, Codes

\* Only r moves.
OnlyMoves(r, label) ==
    /\ UNCHANGED <<exists, row, members, op, raced>>
    /\ pc' = [pc EXCEPT ![r] = label]
    /\ \A q \in Request \ {r} : found'[q] = found[q] /\ listed'[q] = listed[q]

\* The end of a request that changes nothing else.
LEMMA EndKeepsRaces ==
  ASSUME RacesInv, GroupsInv', NEW r \in Request, NEW code \in Codes,
         OnlyMoves(r, "done"), status' = [status EXCEPT ![r] = code],
         code = 200 => pc[r] = "reply" \/ op[r].kind = "delete"
  PROVE  RacesInv'
<1>1. /\ \A q \in Request \ {r} : /\ pc'[q] = pc[q] /\ status'[q] = status[q]
                                  /\ found'[q] = found[q] /\ listed'[q] = listed[q]
      /\ pc'[r] = "done" /\ status'[r] = code
      /\ UNCHANGED <<exists, row, members, op, raced>>
  BY Shapes DEF RacesInv, OnlyMoves
<1>2. \A q \in Request : Wrote(q)' => Wrote(q)
  BY <1>1 DEF Wrote
<1>3. \A q \in Request : pc'[q] # "done" => status'[q] = 0
  BY <1>1 DEF RacesInv, Sequence
<1>4. \A q \in Request : pc'[q] = "commit" => op[q].kind # "create"
  BY <1>1 DEF RacesInv, Sequence
<1>5. \A q \in Request : Creating(q)' => Creating(q) /\ pc'[q] = pc[q]
  BY <1>1 DEF Creating
<1>6. \A q \in Request : NamePending(q)' => NewName(q)' = NewName(q) /\ NamePending(q)
  BY <1>1 DEF NamePending, NewName, Reads
<1>7. \A q \in Request : pc'[q] \in HasRow => pc[q] \in HasRow /\ found'[q] = found[q]
  BY <1>1 DEF HasRow
<1>8. \A q \in Request : pc'[q] \in HasList => pc[q] \in HasList /\ listed'[q] = listed[q]
  BY <1>1 DEF HasList
<1> QED BY <1>1, <1>2, <1>3, <1>4, <1>5, <1>6, <1>7, <1>8, QuietKeepsRaces

\* A request that goes on, with the present row and list or those it had, and
\* with a name it had checked or that is free.
LEMMA MoveKeepsRaces ==
  ASSUME RacesInv, GroupsInv', NEW r \in Request, NEW label \in Places \ {"done", "reply"},
         OnlyMoves(r, label), UNCHANGED status, pc[r] # "done",
         label = "commit" => op[r].kind # "create",
         op[r].kind = "create" =>
            Creating(r) /\ (label \in {"resolve", "addMembers"} => pc[r] \in {"resolve", "addMembers"}),
         Reads(r) /\ label \in HasRow =>
            (pc[r] \in HasRow /\ found'[r] = found[r]) \/ found'[r] = row[op[r].id],
         Reads(r) /\ label \in HasList =>
            (pc[r] \in HasList /\ listed'[r] = listed[r]) \/ listed'[r] = members[op[r].id],
         NamePending(r)' =>
            NewName(r)' = NewName(r) /\ (NamePending(r) \/ ~NameTaken(NewName(r), op[r].id))
  PROVE  RacesInv'
<1>1. /\ \A q \in Request \ {r} : /\ pc'[q] = pc[q]
                                  /\ found'[q] = found[q] /\ listed'[q] = listed[q]
      /\ pc'[r] = label /\ status' = status
      /\ UNCHANGED <<exists, row, members, op, raced>>
  BY Shapes DEF RacesInv, OnlyMoves
<1>2. \A q \in Request : Wrote(q)' => Wrote(q)
  BY <1>1 DEF Wrote
<1>3. \A q \in Request : pc'[q] # "done" => status'[q] = 0
  BY <1>1 DEF RacesInv, Sequence
<1>4. \A q \in Request : pc'[q] = "commit" => op[q].kind # "create"
  BY <1>1 DEF RacesInv, Sequence
<1>5. \A q \in Request : Creating(q)' =>
         /\ Creating(q)
         /\ pc'[q] \in {"resolve", "addMembers"} => pc[q] \in {"resolve", "addMembers"}
  BY <1>1 DEF Creating
<1>6. \A q \in Request : NamePending(q)' =>
         NewName(q)' = NewName(q) /\ (NamePending(q) \/ ~NameTaken(NewName(q), op[q].id))
  BY <1>1 DEF NamePending, NewName, Reads
<1>7. \A q \in Request : Reads(q) /\ pc'[q] \in HasRow =>
         (pc[q] \in HasRow /\ found'[q] = found[q]) \/ found'[q] = row[op[q].id]
  BY <1>1
<1>8. \A q \in Request : Reads(q) /\ pc'[q] \in HasList =>
         (pc[q] \in HasList /\ listed'[q] = listed[q]) \/ listed'[q] = members[op[q].id]
  BY <1>1
<1> QED BY <1>1, <1>2, <1>3, <1>4, <1>5, <1>6, <1>7, <1>8, QuietKeepsRaces

\* Reading and checking keep the invariant.
LEMMA ReadKeepsRaces ==
  ASSUME RacesInv, NEW r \in Request,
         FindRow(r) \/ FindMembers(r) \/ CheckConflict(r) \/ Resolve(r)
  PROVE  RacesInv'
<1>1. /\ GroupsInv /\ GroupsInv' /\ op[r].id \in Id
      /\ op[r].kind \in {"create", "add", "remove", "rename", "replace", "delete"}
      /\ UNCHANGED <<exists, row, members, op, raced>>
  BY ReadStepKeepsInv, KindFacts
     DEF RacesInv, FindRow, FindMembers, CheckConflict, Resolve, tableVars
<1>2. StatusAfterFind(r) \in {200, 400, 412, 428}
  BY StatusAfterFindRange
<1>3. pc[r] # "done" /\ status[r] = 0 /\ (pc[r] \in {"find", "findMembers"} => op[r].kind # "create")
  BY <1>1 DEF RacesInv, Sequence, FindRow, FindMembers, CheckConflict, Resolve, GroupsInv, CreatesOnly
<1>4. CASE FindRow(r)
  <2>1. /\ found' = [found EXCEPT ![r] = row[op[r].id]] /\ UNCHANGED listed /\ pc[r] = "find"
        /\ \/ /\ pc' = [pc EXCEPT ![r] = "done"]
              /\ \E code \in Codes \ {200} : status' = [status EXCEPT ![r] = code]
           \/ /\ UNCHANGED status
              /\ \/ pc' = [pc EXCEPT ![r] = "findMembers"]
                 \/ op[r].kind = "delete" /\ pc' = [pc EXCEPT ![r] = "commit"]
    BY <1>2, <1>4 DEF FindRow, Checked, Answer, Goto, Codes
  <2>2. /\ \A q \in Request \ {r} : found'[q] = found[q] /\ listed'[q] = listed[q]
        /\ found'[r] = row[op[r].id]
    BY <1>1, <2>1, Shapes
  <2>3. CASE /\ pc' = [pc EXCEPT ![r] = "done"]
             /\ \E code \in Codes \ {200} : status' = [status EXCEPT ![r] = code]
    <3>1. OnlyMoves(r, "done")
      BY <1>1, <2>2, <2>3 DEF OnlyMoves
    <3> QED BY <1>1, <2>3, <3>1, EndKeepsRaces
  <2>4. CASE UNCHANGED status /\ pc' = [pc EXCEPT ![r] = "findMembers"]
    <3>1. "findMembers" \notin HasList /\ ~NamePending(r)'
      BY <1>1, <2>4, Shapes DEF HasList, NamePending
    <3> QED BY <1>1, <1>3, <2>1, <2>2, <2>4, <3>1, MoveKeepsRaces DEF OnlyMoves, Places
  <2>5. CASE UNCHANGED status /\ op[r].kind = "delete" /\ pc' = [pc EXCEPT ![r] = "commit"]
    <3>1. ~Reads(r) /\ ~NamePending(r)'
      BY <1>1, <2>5, Shapes DEF Reads, NamePending
    <3> QED BY <1>1, <1>3, <2>1, <2>2, <2>5, <3>1, MoveKeepsRaces DEF OnlyMoves, Places
  <2> QED BY <2>1, <2>3, <2>4, <2>5
<1>5. CASE FindMembers(r)
  <2>1. /\ listed' = [listed EXCEPT ![r] = members[op[r].id]] /\ UNCHANGED found
        /\ pc[r] = "findMembers"
        /\ \/ /\ pc' = [pc EXCEPT ![r] = "done"]
              /\ \E code \in Codes \ {200} : status' = [status EXCEPT ![r] = code]
           \/ UNCHANGED status /\ pc' = [pc EXCEPT ![r] = "conflict"]
    BY <1>2, <1>5 DEF FindMembers, Checked, Answer, Goto, Codes
  <2>2. /\ \A q \in Request \ {r} : found'[q] = found[q] /\ listed'[q] = listed[q]
        /\ found'[r] = found[r] /\ listed'[r] = members[op[r].id]
    BY <1>1, <2>1, Shapes
  <2>3. CASE /\ pc' = [pc EXCEPT ![r] = "done"]
             /\ \E code \in Codes \ {200} : status' = [status EXCEPT ![r] = code]
    <3>1. OnlyMoves(r, "done")
      BY <1>1, <2>2, <2>3 DEF OnlyMoves
    <3> QED BY <1>1, <2>3, <3>1, EndKeepsRaces
  <2>4. CASE UNCHANGED status /\ pc' = [pc EXCEPT ![r] = "conflict"]
    <3>1. pc[r] \in HasRow /\ ~NamePending(r)'
      BY <1>1, <2>1, <2>4, Shapes DEF HasRow, NamePending
    <3> QED BY <1>1, <1>3, <2>1, <2>2, <2>4, <3>1, MoveKeepsRaces DEF OnlyMoves, Places
  <2> QED BY <2>1, <2>3, <2>4
<1>6. CASE CheckConflict(r)
  <2>1. /\ UNCHANGED <<found, listed>> /\ pc[r] = "conflict"
        /\ \/ /\ pc' = [pc EXCEPT ![r] = "done"]
              /\ \E code \in Codes \ {200} : status' = [status EXCEPT ![r] = code]
           \/ /\ UNCHANGED status /\ ~NameTaken(NewName(r), op[r].id)
              /\ \/ op[r].kind = "create" /\ pc' = [pc EXCEPT ![r] = "insert"]
                 \/ op[r].kind # "create" /\ \E label \in {"resolve", "commit"} :
                                                pc' = [pc EXCEPT ![r] = label]
    BY <1>6 DEF CheckConflict, Answer, Goto, Codes
  <2>2. NewName(r)' = NewName(r) /\ pc[r] \in HasRow /\ pc[r] \in HasList
    BY <1>1, <2>1 DEF NewName, HasRow, HasList
  <2>3. CASE /\ pc' = [pc EXCEPT ![r] = "done"]
             /\ \E code \in Codes \ {200} : status' = [status EXCEPT ![r] = code]
    <3>1. OnlyMoves(r, "done")
      BY <1>1, <2>1, <2>3 DEF OnlyMoves
    <3> QED BY <1>1, <2>3, <3>1, EndKeepsRaces
  <2>4. CASE UNCHANGED status /\ op[r].kind = "create" /\ pc' = [pc EXCEPT ![r] = "insert"]
             /\ ~NameTaken(NewName(r), op[r].id)
    <3>1. Creating(r) /\ ~Reads(r)
      BY <2>1, <2>4 DEF Creating, Reads
    <3> QED BY <1>1, <1>3, <2>1, <2>2, <2>4, <3>1, MoveKeepsRaces DEF OnlyMoves, Places
  <2>5. ASSUME UNCHANGED status, op[r].kind # "create", NEW label \in {"resolve", "commit"},
               pc' = [pc EXCEPT ![r] = label], ~NameTaken(NewName(r), op[r].id)
        PROVE  RacesInv'
    BY <1>1, <1>3, <2>1, <2>2, <2>5, MoveKeepsRaces DEF OnlyMoves, Places
  <2> QED BY <2>1, <2>3, <2>4, <2>5
<1>7. CASE Resolve(r)
  <2>1. /\ UNCHANGED <<found, listed, status>> /\ pc[r] = "resolve"
        /\ \/ op[r].kind = "create" /\ pc' = [pc EXCEPT ![r] = "addMembers"]
           \/ op[r].kind # "create" /\ pc' = [pc EXCEPT ![r] = "commit"]
    BY <1>7 DEF Resolve, Goto
  <2>2. NewName(r)' = NewName(r) /\ pc[r] \in HasRow /\ pc[r] \in HasList
    BY <1>1, <2>1 DEF NewName, HasRow, HasList
  <2>3. CASE op[r].kind = "create" /\ pc' = [pc EXCEPT ![r] = "addMembers"]
    <3>1. Creating(r) /\ ~Reads(r) /\ ~NamePending(r)'
      BY <1>1, <2>1, <2>3, Shapes DEF Creating, Reads, NamePending
    <3> QED BY <1>1, <1>3, <2>1, <2>2, <2>3, <3>1, MoveKeepsRaces DEF OnlyMoves, Places
  <2>4. CASE op[r].kind # "create" /\ pc' = [pc EXCEPT ![r] = "commit"]
    <3>1. NamePending(r)' => NamePending(r)
      BY <1>1, <2>1, <2>4, Shapes DEF NamePending, Reads
    <3> QED BY <1>1, <1>3, <2>1, <2>2, <2>4, <3>1, MoveKeepsRaces DEF OnlyMoves, Places
  <2> QED BY <2>1, <2>3, <2>4
<1> QED BY <1>4, <1>5, <1>6, <1>7

\* The answer, a query that fails, and a write that the database refuses.
LEMMA AnswerKeepsRaces ==
  ASSUME RacesInv, NEW r \in Request,
         \/ Reply(r) \/ DatabaseFails(r)
         \/ AddMembers(r) /\ RefusedMembers(r) # 200
         \/ Update(r) /\ RefusedUpdate(r) # 200
         \/ Delete(r) /\ RefusedDelete(r)
  PROVE  RacesInv'
<1>1. GroupsInv'
  BY GroupsNextInv DEF RacesInv, Next
<1>2. RefusedMembers(r) \in {200, 409, 500} /\ RefusedUpdate(r) \in {200, 404, 500}
  BY DEF RefusedMembers, RefusedUpdate
<1>3. UNCHANGED <<exists, row, members, op, raced, found, listed>>
  BY DEF Reply, DatabaseFails, AddMembers, Update, Delete, tableVars
<1>4. /\ pc' = [pc EXCEPT ![r] = "done"]
      /\ \E code \in Codes : /\ status' = [status EXCEPT ![r] = code]
                             /\ code = 200 => pc[r] = "reply"
  BY <1>2 DEF Reply, DatabaseFails, AddMembers, Update, Delete, Answer, Codes
<1>5. OnlyMoves(r, "done")
  BY <1>3, <1>4 DEF OnlyMoves
<1> QED BY <1>1, <1>4, <1>5, EndKeepsRaces

\* What is no step of a request.
LEMMA StutterKeepsRaces ==
  ASSUME RacesInv, GroupsInv',
         UNCHANGED <<exists, row, members, op, pc, found, listed, status, raced>>
  PROVE  RacesInv'
<1>1. \A q \in Request : /\ Wrote(q)' => Wrote(q)
                         /\ Creating(q)' => Creating(q)
                         /\ NamePending(q)' => NewName(q)' = NewName(q) /\ NamePending(q)
  BY DEF Wrote, Creating, NamePending, NewName, Reads
<1>2. \A q \in Request : /\ pc'[q] # "done" => status'[q] = 0
                         /\ pc'[q] = "commit" => op[q].kind # "create"
  BY DEF RacesInv, Sequence
<1> QED BY <1>1, <1>2, QuietKeepsRaces

-----------------------------------------------------------------------------

(***************************************************************************)
(* What every write has in common: r, which will answer or, if it is a     *)
(* create, goes on to its members, changes its group alone and records who *)
(* is open.                                                                *)
(***************************************************************************)
Writes(r, label) ==
    /\ label \in {"reply", "resolve"}
    /\ label = "resolve" => op[r].kind = "create" /\ pc[r] = "insert"
    /\ pc[r] # "done" /\ pc' = [pc EXCEPT ![r] = label]
    /\ UNCHANGED <<op, found, listed, status>>
    /\ Record(r)
    /\ \A j \in Id \ {op[r].id} :
          row'[j] = row[j] /\ members'[j] = members[j] /\ (j \in exists' <=> j \in exists)
    /\ op[r].kind = "delete" => op[r].id \notin exists' /\ row' = row
    /\ op[r].kind # "delete" => row'[op[r].id].version > 0
    /\ Reads(r) => op[r].id \in exists

\* Who is open when r writes is in raced[r]; everything else stays.
LEMMA AfterWrite ==
  ASSUME RacesInv, NEW r \in Request, NEW label, Writes(r, label)
  PROVE  /\ op' = op /\ found' = found /\ listed' = listed /\ status' = status
         /\ pc'[r] = label /\ \A q \in Request \ {r} : pc'[q] = pc[q]
         /\ raced'[r] = raced[r] \cup {q \in Request \ {r} : Open(q)}
         /\ \A q \in Request : raced[q] \subseteq raced'[q]
         /\ \A q \in Request : /\ Unraced(q)' => Unraced(q)
                               /\ Alone(q)' <=> Alone(q)
                               /\ Reads(q)' <=> Reads(q)
                               /\ NewName(q)' = NewName(q)
         /\ \A q \in Request \ {r} : /\ Wrote(q)' <=> Wrote(q)
                                     /\ Creating(q)' <=> Creating(q)
                                     /\ NamePending(q)' <=> NamePending(q)
                                     /\ NamePending(q) => Open(q)
                                     /\ Reads(q) /\ pc[q] \in HasRow => Open(q)
                                     /\ pc[q] \in HasList => pc[q] \in HasRow
         /\ ~NamePending(r)'
<1>1. /\ op' = op /\ found' = found /\ listed' = listed /\ status' = status
      /\ pc'[r] = label /\ \A q \in Request \ {r} : pc'[q] = pc[q]
      /\ label \in {"reply", "resolve"} /\ (label = "resolve" => op[r].kind = "create")
  BY Shapes DEF Writes, RacesInv
<1>2. /\ raced'[r] = raced[r] \cup {q \in Request \ {r} : Open(q)}
      /\ \A q \in Request : raced[q] \subseteq raced'[q]
  BY Shapes DEF Writes, RacesInv, Record
<1>3. \A q \in Request : /\ Unraced(q)' => Unraced(q)
                         /\ Alone(q)' <=> Alone(q)
                         /\ Reads(q)' <=> Reads(q)
                         /\ NewName(q)' = NewName(q)
  BY <1>1, <1>2 DEF Unraced, Alone, Touches, Reads, NewName
<1>4. \A q \in Request \ {r} : /\ Wrote(q)' <=> Wrote(q)
                               /\ Creating(q)' <=> Creating(q)
                               /\ NamePending(q)' <=> NamePending(q)
                               /\ NamePending(q) => Open(q)
                               /\ Reads(q) /\ pc[q] \in HasRow => Open(q)
                               /\ pc[q] \in HasList => pc[q] \in HasRow
  BY <1>1 DEF Wrote, Creating, NamePending, Reads, Open, HasRow, HasList
<1>5. ~NamePending(r)'
  BY <1>1 DEF NamePending, Reads
<1> QED BY <1>1, <1>2, <1>3, <1>4, <1>5

(***************************************************************************)
(* A write keeps the invariant if it shows its own change, or the first    *)
(* half of it, and those of others it has not overlapped with; and if the  *)
(* name it writes, when it writes one, is one it had pending.              *)
(***************************************************************************)
LEMMA WriteKeepsRaces ==
  ASSUME RacesInv, GroupsInv', NEW r \in Request, NEW label, Writes(r, label),
         op[r].id \in exists' =>
            \/ NamePending(r) /\ row'[op[r].id].displayName = NewName(r)
            \/ op[r].id \in exists /\ row'[op[r].id].displayName = row[op[r].id].displayName,
         label = "resolve" =>
            row'[op[r].id].displayName = op[r].displayName /\ members'[op[r].id] = {},
         label = "reply" /\ op[r].kind # "delete" /\ Alone(r) =>
            /\ NameShown(op[r], row'[op[r].id].displayName)
            /\ ListShown(op[r], members'[op[r].id]),
         \A p \in Request \ {r} :
            Wrote(p) /\ Unraced(p) /\ Alone(p) /\ op[p].id = op[r].id /\ op[r].id \in exists' =>
               /\ op[r].id \in exists
               /\ NameShown(op[p], row'[op[r].id].displayName)
               /\ ListShown(op[p], members'[op[r].id])
  PROVE  RacesInv'
<1> DEFINE i == op[r].id
<1>1. /\ GroupsInv /\ i \in Id /\ exists \subseteq Id /\ exists' \subseteq Id
      /\ \A q \in Request : op[q].id \in Id
      /\ op[r].kind \in {"create", "add", "remove", "rename", "replace", "delete"}
  BY KindFacts DEF RacesInv, GroupsInv, TypeOK
<1>2. /\ op' = op /\ found' = found /\ listed' = listed /\ status' = status
      /\ pc'[r] = label /\ \A q \in Request \ {r} : pc'[q] = pc[q]
      /\ raced'[r] = raced[r] \cup {q \in Request \ {r} : Open(q)}
      /\ \A q \in Request : raced[q] \subseteq raced'[q]
  BY AfterWrite
<1>3. /\ label \in {"reply", "resolve"} /\ (label = "resolve" => op[r].kind = "create" /\ pc[r] = "insert")
      /\ pc[r] # "done"
      /\ \A j \in Id \ {i} :
            row'[j] = row[j] /\ members'[j] = members[j] /\ (j \in exists' <=> j \in exists)
      /\ op[r].kind = "delete" => i \notin exists' /\ row' = row
      /\ op[r].kind # "delete" => row'[i].version > 0
      /\ Reads(r) => i \in exists
  BY DEF Writes
<1>4. Sequence'
  BY <1>2, <1>3 DEF RacesInv, Sequence
<1>5. WroteGiven'
  <2>1. \A q \in Request \ {r} : Wrote(q)' => Wrote(q)
    BY AfterWrite
  <2>2. \A j \in Id : row[j].version > 0 => row'[j].version > 0
    BY <1>3
  <2>3. ASSUME NEW q \in Request, Creating(q)', op[q].id = i, Reads(r)
        PROVE  q \in raced'[r]
    <3>1. q # r
      BY <1>1, <1>2, <2>3 DEF Creating, Reads
    <3>2. Creating(q)
      BY <2>3, <3>1, AfterWrite
    <3>3. row[i].version > 0
      BY <1>1, <1>3, <2>3 DEF GroupsInv, TypeOK
    <3>4. pc[q] \notin {"conflict", "insert"}
      BY <1>1, <2>3, <3>2, <3>3 DEF GroupsInv, NotYetInserted
    <3> QED BY <1>2, <3>1, <3>2, <3>4 DEF Creating, Open
  <2>4. ASSUME NEW q \in Request, Creating(q)', NEW p \in Request \ {r}, Wrote(p),
               op[p].kind # "create", op[q].id = op[p].id
        PROVE  q \in raced'[p]
    <3>1. Creating(q)
      <4>1. CASE q # r
        BY <2>4, <4>1, AfterWrite
      <4>2. CASE q = r
        BY <1>2, <1>3, <2>4, <4>2 DEF Creating
      <4> QED BY <4>1, <4>2
    <3> QED BY <1>2, <2>4, <3>1 DEF RacesInv, WroteGiven
  <2>5. Wrote(r)' => op[r].kind # "delete" /\ (op[r].kind # "create" => Reads(r))
    BY <1>2 DEF Wrote, Reads
  <2> QED BY <1>1, <1>2, <1>3, <2>1, <2>2, <2>3, <2>4, <2>5 DEF RacesInv, WroteGiven
<1>6. CreateStands'
  <2> SUFFICES ASSUME NEW p \in Request, Creating(p)', pc'[p] \in {"resolve", "addMembers"},
                      Alone(p), op[p].id \in exists'
               PROVE  /\ row'[op[p].id].displayName = op[p].displayName
                      /\ members'[op[p].id] = {}
    BY <1>2, AfterWrite DEF CreateStands
  <2>1. CASE p = r
    BY <1>2, <1>3, <2>1
  <2>2. CASE p # r
    <3>1. Creating(p) /\ pc[p] \in {"resolve", "addMembers"}
      BY <1>2, <2>2, AfterWrite
    <3>2. op[p].id # i
      <4>1. CASE op[r].kind = "create"
        BY <1>1, <2>2, <3>1, <4>1 DEF GroupsInv, FreshIds, Creating
      <4>2. CASE Reads(r)
        <5>1. op[p].id = i => Touches(r, p)
          BY <1>1, <3>1, <4>2 DEF Touches, Reads, Creating
        <5> QED BY <2>2, <5>1 DEF Alone
      <4>3. CASE op[r].kind = "delete"
        BY <1>3, <4>3
      <4> QED BY <4>1, <4>2, <4>3 DEF Reads
    <3> QED BY <1>1, <1>3, <3>1, <3>2 DEF RacesInv, CreateStands
  <2> QED BY <2>1, <2>2
<1>7. ChangeStands'
  <2> SUFFICES ASSUME NEW p \in Request, Wrote(p)', Unraced(p)', Alone(p), op[p].id \in exists'
               PROVE  /\ NameShown(op[p], row'[op[p].id].displayName)
                      /\ ListShown(op[p], members'[op[p].id])
                      /\ \A q \in Request \ {p} : Reads(q) /\ op[q].id = op[p].id =>
                            /\ pc'[q] \in HasRow => NameShown(op[p], found[q].displayName)
                            /\ pc'[q] \in HasList => ListShown(op[p], listed[q])
    BY <1>2, AfterWrite DEF ChangeStands
  <2>1. Unraced(p)
    BY AfterWrite
  <2>2. CASE p = r
    <3>1. label = "reply" /\ op[r].kind # "delete"
      BY <1>2, <1>3, <2>2 DEF Wrote, RacesInv, Sequence
    <3>2. NameShown(op[r], row'[i].displayName) /\ ListShown(op[r], members'[i])
      BY <2>2, <3>1
    <3>3. ASSUME NEW q \in Request \ {r}, Reads(q), op[q].id = i
          PROVE  pc'[q] \notin HasRow /\ pc'[q] \notin HasList
      <4>1. q \notin raced'[r]
        BY <1>2, <2>2, <3>3 DEF Unraced
      <4>2. ~Open(q)
        BY <1>2, <4>1
      <4> QED BY <1>2, <3>3, <4>2, AfterWrite
    <3> QED BY <2>2, <3>2, <3>3
  <2>3. CASE p # r
    <3>1. Wrote(p)
      BY <2>3, AfterWrite
    <3>2. op[p].id \in exists
      BY <1>1, <1>3, <2>1, <2>3, <3>1
    <3>3. \A q \in Request \ {p} : Reads(q) /\ op[q].id = op[p].id =>
             /\ pc[q] \in HasRow => NameShown(op[p], found[q].displayName)
             /\ pc[q] \in HasList => ListShown(op[p], listed[q])
      BY <2>1, <3>1, <3>2 DEF RacesInv, ChangeStands
    <3>4. NameShown(op[p], row'[op[p].id].displayName) /\ ListShown(op[p], members'[op[p].id])
      <4>1. CASE op[p].id = i
        BY <2>1, <2>3, <3>1, <4>1
      <4>2. CASE op[p].id # i
        <5>1. row'[op[p].id] = row[op[p].id] /\ members'[op[p].id] = members[op[p].id]
          BY <1>1, <1>3, <4>2
        <5> QED BY <2>1, <3>1, <3>2, <5>1 DEF RacesInv, ChangeStands
      <4> QED BY <4>1, <4>2
    <3>5. pc'[r] \notin HasRow \/ ~Reads(r)
      BY <1>2, <1>3 DEF HasRow, Reads
    <3>6. pc'[r] \notin HasList \/ ~Reads(r)
      BY <1>2, <1>3 DEF HasList, Reads
    <3> QED BY <1>2, <3>3, <3>4, <3>5, <3>6
  <2> QED BY <2>2, <2>3
<1>8. NamesPending'
  <2> SUFFICES ASSUME NEW p \in Request, NamePending(p)', NEW j \in exists' \ {op[p].id},
                      row'[j].displayName = NewName(p)
               PROVE  \E q \in Request : p \in raced'[q] /\ op[q].id = j
    BY <1>2, AfterWrite DEF NamesPending
  <2>1. p # r /\ NamePending(p)
    BY AfterWrite
  <2>2. CASE j = i
    BY <1>2, <2>1, <2>2, AfterWrite
  <2>3. CASE j # i
    BY <1>1, <1>2, <1>3, <2>1, <2>3 DEF RacesInv, NamesPending
  <2> QED BY <2>2, <2>3
<1>9. NamesUnique'
  <2>1. \A j, k \in Id : Crossed(j, k) => Crossed(j, k)'
    BY <1>2 DEF Crossed
  <2>2. ASSUME NEW j \in exists', j # i, i \in exists', row'[j].displayName = row'[i].displayName
        PROVE  Crossed(i, j)' /\ Crossed(j, i)'
    <3>1. j \in exists /\ row'[j] = row[j]
      BY <1>1, <1>3, <2>2
    <3>2. CASE i \in exists /\ row'[i].displayName = row[i].displayName
      <4>1. row[j].displayName = row[i].displayName
        BY <2>2, <3>1, <3>2
      <4>2. Crossed(i, j) /\ Crossed(j, i)
        BY <2>2, <3>1, <3>2, <4>1 DEF RacesInv, NamesUnique
      <4> QED BY <1>2, <4>2 DEF Crossed
    <3>3. CASE NamePending(r) /\ row'[i].displayName = NewName(r)
      <4>1. PICK q \in Request : r \in raced[q] /\ op[q].id = j
        BY <2>2, <3>1, <3>3 DEF RacesInv, NamesPending
      <4> QED BY <1>2, <4>1 DEF Crossed
    <3> QED BY <2>2, <3>2, <3>3
  <2>3. ASSUME NEW j \in exists', NEW k \in exists', j # i, k # i, j # k,
               row'[j].displayName = row'[k].displayName
        PROVE  Crossed(j, k)'
    <3>1. j \in exists /\ k \in exists /\ row'[j] = row[j] /\ row'[k] = row[k]
      BY <1>1, <1>3, <2>3
    <3> QED BY <1>1, <2>1, <2>3, <3>1 DEF RacesInv, NamesUnique
  <2> SUFFICES ASSUME NEW j \in exists', NEW k \in exists', j # k,
                      row'[j].displayName = row'[k].displayName
               PROVE  Crossed(j, k)'
    BY DEF NamesUnique
  <2>4. CASE j = i \/ k = i
    BY <1>2, <2>2, <2>4 DEF Crossed
  <2>5. CASE j # i /\ k # i
    BY <2>3, <2>5
  <2> QED BY <2>4, <2>5
<1> QED BY <1>4, <1>5, <1>6, <1>7, <1>8, <1>9 DEF RacesInv

\* create's first write: nobody has written the group before.
LEMMA InsertKeepsRaces ==
  ASSUME RacesInv, NEW r \in Request, Insert(r)
  PROVE  RacesInv'
<1> DEFINE i == op[r].id
           label == IF op[r].members = {} THEN "reply" ELSE "resolve"
<1>1. GroupsInv /\ GroupsInv'
  BY InsertKeepsInv DEF RacesInv
<1>2. /\ op[r].kind = "create" /\ i \in Id /\ row[i].version = 0 /\ i \notin exists
      /\ members[i] = {}
  BY <1>1, KindFacts DEF Insert, GroupsInv, CreatesOnly, NotYetInserted, Creating, TypeOK, NoOrphans
<1>3. /\ row' = [row EXCEPT ![i] = FirstRow(r)] /\ members' = members
      /\ exists' = exists \cup {i} /\ pc[r] = "insert"
      /\ pc' = [pc EXCEPT ![r] = label] /\ UNCHANGED <<op, found, listed, status>>
      /\ Record(r)
  BY DEF Insert, Goto
<1>4. row'[i] = FirstRow(r) /\ \A j \in Id \ {i} : row'[j] = row[j]
  BY <1>1, <1>2, <1>3, Shapes
<1>5. Writes(r, label)
  BY <1>2, <1>3, <1>4 DEF Writes, FirstRow, Reads
<1>6. NamePending(r) /\ row'[i].displayName = NewName(r) /\ row'[i].displayName = op[r].displayName
  BY <1>2, <1>3, <1>4 DEF NamePending, NewName, FirstRow
<1>7. label = "reply" =>
         NameShown(op[r], row'[i].displayName) /\ ListShown(op[r], members'[i])
  BY <1>2, <1>3, <1>6 DEF NameShown, ListShown
<1>8. \A p \in Request \ {r} : ~(Wrote(p) /\ op[p].id = i)
  BY <1>2 DEF RacesInv, WroteGiven
<1>9. label = "resolve" => row'[i].displayName = op[r].displayName /\ members'[i] = {}
  BY <1>2, <1>3, <1>6
<1> HIDE DEF i, label
<1> QED BY <1>1, <1>5, <1>6, <1>7, <1>8, <1>9, WriteKeepsRaces DEF i

\* create's second write: whoever has written the group in between saw it open.
LEMMA AddMembersKeepsRaces ==
  ASSUME RacesInv, NEW r \in Request, AddMembers(r), RefusedMembers(r) = 200
  PROVE  RacesInv'
<1> DEFINE i == op[r].id
<1>1. GroupsInv /\ GroupsInv'
  BY AddMembersKeepsInv DEF RacesInv
<1>2. op[r].kind = "create" /\ i \in Id /\ Creating(r) /\ i \in exists /\ row[i].version > 0
  BY <1>1, KindFacts DEF AddMembers, RefusedMembers, GroupsInv, CreatesOnly, Creating, TypeOK
<1>3. /\ members' = [members EXCEPT ![i] = @ \cup op[r].members]
      /\ UNCHANGED <<exists, row>> /\ pc[r] = "addMembers"
      /\ pc' = [pc EXCEPT ![r] = "reply"] /\ UNCHANGED <<op, found, listed, status>>
      /\ Record(r)
  BY DEF AddMembers, Goto
<1>4. members'[i] = members[i] \cup op[r].members /\ \A j \in Id \ {i} : members'[j] = members[j]
  BY <1>1, <1>2, <1>3, Shapes
<1>5. Writes(r, "reply")
  BY <1>2, <1>3, <1>4 DEF Writes, Reads
<1>6. Alone(r) => NameShown(op[r], row'[i].displayName) /\ ListShown(op[r], members'[i])
  <2>1. Alone(r) => row[i].displayName = op[r].displayName /\ members[i] = {}
    BY <1>2, <1>3 DEF RacesInv, CreateStands
  <2>2. Alone(r) => members'[i] = op[r].members /\ row'[i].displayName = op[r].displayName
    BY <1>3, <1>4, <2>1
  <2> QED BY <1>2, <2>2 DEF NameShown, ListShown
<1>7. \A p \in Request \ {r} : ~(Wrote(p) /\ Unraced(p) /\ op[p].id = i)
  <2> SUFFICES ASSUME NEW p \in Request \ {r}, Wrote(p), Unraced(p), op[p].id = i PROVE FALSE
    OBVIOUS
  <2>1. op[p].kind # "create"
    BY <1>1, <1>2 DEF GroupsInv, FreshIds
  <2>2. r \in raced[p]
    BY <1>2, <2>1 DEF RacesInv, WroteGiven
  <2> QED BY <2>2 DEF Unraced
<1> HIDE DEF i
<1> QED BY <1>1, <1>2, <1>3, <1>5, <1>6, <1>7, WriteKeepsRaces DEF i

\* The transaction of PUT and PATCH writes what it read and what it was asked for.
LEMMA UpdateKeepsRaces ==
  ASSUME RacesInv, NEW r \in Request, Update(r), RefusedUpdate(r) = 200
  PROVE  RacesInv'
<1> DEFINE i == op[r].id
<1>1. GroupsInv /\ GroupsInv'
  BY UpdateKeepsInv DEF RacesInv
<1>2. /\ op[r].kind \in {"add", "remove", "rename", "replace"} /\ Reads(r)
      /\ i \in Id /\ i \in exists /\ row[i] \in Row /\ pc[r] = "commit"
  BY <1>1, KindFacts, Shapes DEF Update, RefusedUpdate, RacesInv, Sequence, Reads
<1>3. /\ row' = [row EXCEPT ![i] = RowAfter(r)] /\ members' = [members EXCEPT ![i] = NewMembers(r)]
      /\ UNCHANGED exists
      /\ pc' = [pc EXCEPT ![r] = "reply"] /\ UNCHANGED <<op, found, listed, status>>
      /\ Record(r)
  BY DEF Update, Goto, MembersAfter
<1>4. /\ row'[i] = RowAfter(r) /\ \A j \in Id \ {i} : row'[j] = row[j]
      /\ members'[i] = NewMembers(r) /\ \A j \in Id \ {i} : members'[j] = members[j]
  BY <1>1, <1>2, <1>3, Shapes
<1>5. row'[i].displayName = NewName(r) /\ row'[i].version > 0 /\ NamePending(r)
  BY <1>2, <1>4 DEF RowAfter, Row, NamePending
<1>6. Writes(r, "reply")
  BY <1>2, <1>3, <1>4, <1>5 DEF Writes
<1>7. NameShown(op[r], row'[i].displayName) /\ ListShown(op[r], members'[i])
  BY <1>1, <1>2, <1>4, <1>5, WritesItself
<1>8. ASSUME NEW p \in Request \ {r}, Wrote(p), Unraced(p), Alone(p), op[p].id = i
      PROVE  NameShown(op[p], row'[i].displayName) /\ ListShown(op[p], members'[i])
  <2>1. op[p].kind # "delete" /\ ~Touches(r, p)
    BY <1>8 DEF Wrote, Alone
  <2>2. NameShown(op[p], found[r].displayName) /\ ListShown(op[p], listed[r])
    BY <1>2, <1>8 DEF RacesInv, ChangeStands, HasRow, HasList
  <2> QED BY <1>1, <1>2, <1>4, <1>5, <1>8, <2>1, <2>2, WritesOther
<1> HIDE DEF i
<1> QED BY <1>1, <1>2, <1>5, <1>6, <1>7, <1>8, WriteKeepsRaces DEF i

\* The deletion takes what there was to show with it.
LEMMA DeletionKeepsRaces ==
  ASSUME RacesInv, NEW r \in Request, Delete(r), ~RefusedDelete(r)
  PROVE  RacesInv'
<1> DEFINE i == op[r].id
<1>1. GroupsInv /\ GroupsInv'
  BY DeleteKeepsInv DEF RacesInv
<1>2. op[r].kind = "delete" /\ ~Reads(r) /\ i \in Id /\ pc[r] = "commit"
  BY <1>1, KindFacts DEF Delete, Reads
<1>3. /\ exists' = exists \ {i} /\ row' = row /\ members' = [members EXCEPT ![i] = {}]
      /\ pc' = [pc EXCEPT ![r] = "reply"] /\ UNCHANGED <<op, found, listed, status>>
      /\ Record(r)
  BY DEF Delete, Goto
<1>4. \A j \in Id \ {i} : members'[j] = members[j]
  BY <1>1, <1>3, Shapes
<1>5. Writes(r, "reply") /\ i \notin exists'
  BY <1>2, <1>3, <1>4 DEF Writes
<1> HIDE DEF i
<1> QED BY <1>1, <1>2, <1>5, WriteKeepsRaces DEF i

\* Every step of the service, and of the deletion of users, keeps the invariant.
LEMMA RacesNext == RacesInv /\ [Next]_groupVars => RacesInv'
<1> SUFFICES ASSUME RacesInv, [Next]_groupVars PROVE RacesInv'
  OBVIOUS
<1>1. GroupsInv'
  BY GroupsNextInv DEF RacesInv
<1>2. ASSUME NEW r \in Request,
             \/ FindRow(r) \/ FindMembers(r) \/ CheckConflict(r) \/ Resolve(r)
             \/ Reply(r) \/ DatabaseFails(r)
      PROVE  RacesInv'
  BY <1>2, ReadKeepsRaces, AnswerKeepsRaces
<1>3. ASSUME NEW r \in Request, Insert(r) \/ AddMembers(r) \/ Update(r) \/ Delete(r)
      PROVE  RacesInv'
  BY <1>3, AnswerKeepsRaces, InsertKeepsRaces, AddMembersKeepsRaces, UpdateKeepsRaces,
     DeletionKeepsRaces
<1>4. ASSUME NEW u \in Member, DeleteUser(u) PROVE RacesInv'
  BY <1>1, <1>4, StutterKeepsRaces DEF DeleteUser
<1>5. CASE UNCHANGED groupVars
  BY <1>1, <1>5, StutterKeepsRaces DEF groupVars, tableVars
<1> QED BY <1>2, <1>3, <1>4, <1>5 DEF Next, Done

\* The invariant holds in every reachable state.
THEOREM RacesInvariant == Spec => []RacesInv
  BY RacesInit, RacesNext, PTL DEF Spec

(***************************************************************************)
(* An acknowledged change of a group is undone by nobody but who asks for  *)
(* another one of the same thing, or had read the group, or had started to *)
(* create it, before the change was written and wrote after it: although   *)
(* every PATCH stores the whole name and member list it had found.         *)
(***************************************************************************)
THEOREM ChangesStand == Spec => []ChangeStandsUnlessOverlapped
<1>1. ASSUME RacesInv PROVE ChangeStandsUnlessOverlapped
  <2> SUFFICES ASSUME NEW r \in Request, op[r].kind # "delete", Acked(r), op[r].id \in exists,
                      \A q \in raced[r] : op[q].id # op[r].id,
                      \A q \in Request \ {r} : ~Touches(q, r)
               PROVE  Shows(r)
    BY DEF ChangeStandsUnlessOverlapped
  <2>1. Wrote(r) /\ Unraced(r) /\ Alone(r)
    BY DEF Wrote, Acked, Unraced, Alone
  <2>2. /\ NameShown(op[r], row[op[r].id].displayName)
        /\ ListShown(op[r], members[op[r].id])
    BY <1>1, <2>1 DEF RacesInv, ChangeStands
  <2>3. op[r].kind \in {"create", "add", "remove", "rename", "replace"}
    BY <1>1, KindFacts DEF RacesInv
  <2> QED BY <2>2, <2>3 DEF Shows, NameShown, ListShown
<1> QED BY <1>1, RacesInvariant, PTL

(***************************************************************************)
(* Nothing in the database keeps displayNames apart, yet two groups have   *)
(* one name only if a request on one of them was between its check, or its *)
(* read, and its write when a request on the other wrote.                  *)
(***************************************************************************)
THEOREM NamesHold == Spec => []NamesUniqueUnlessRaced
<1>1. ASSUME RacesInv PROVE NamesUniqueUnlessRaced
  <2> SUFFICES ASSUME NEW i \in exists, NEW j \in exists, i # j,
                      row[i].displayName = row[j].displayName
               PROVE  \E r \in Request : \E q \in raced[r] : {op[q].id, op[r].id} = {i, j}
    BY DEF NamesUniqueUnlessRaced
  <2>1. Crossed(i, j)
    BY <1>1 DEF RacesInv, NamesUnique
  <2>2. PICK r \in Request, q \in Request :
           /\ q \in raced[r]
           /\ \/ op[q].id = i /\ op[r].id = j
              \/ op[q].id = j /\ op[r].id = i
    BY <2>1, Zenon DEF Crossed
  <2>3. {op[q].id, op[r].id} = {i, j}
    BY <2>2
  <2>4. r \in Request /\ q \in raced[r]
    BY <2>2
  <2> QED BY <2>3, <2>4, Zenon
<1> QED BY <1>1, RacesInvariant, PTL

-----------------------------------------------------------------------------
(***************************************************************************)
(* What the events tell. The argument: the count of a group is right but   *)
(* for what is under way: a create that has inserted and not yet replied,  *)
(* a delete that has taken the group and not yet replied. There is at most *)
(* one of either, for ids are not given twice and a group that is gone     *)
(* never returns; and whoever ends between the two leaves an exception.    *)
(***************************************************************************)
ToldLate(r) == op[r].kind = "create" /\ pc[r] \in {"resolve", "addMembers", "reply"}
Taken(r) == op[r].kind = "delete" /\ pc[r] = "reply"

CreateOwed(i) == \E r \in Request : op[r].id = i /\ ToldLate(r)
DeleteOwed(i) == \E r \in Request : op[r].id = i /\ Taken(r)
Lost(i) == \E r \in Request : op[r].id = i /\ Unannounced(r)

\* Who has taken a group was alone, and the group is gone for good.
TakenOnce ==
    \A r \in Request : Taken(r) =>
        /\ op[r].id \notin exists /\ row[op[r].id].version > 0
        /\ \A q \in Request : Taken(q) /\ op[q].id = op[r].id => q = r

\* The group of a create that has inserted has been there.
OwedInserted == \A r \in Request : ToldLate(r) => row[op[r].id].version > 0

\* The events and the table agree, but for those under way.
Told(i) ==
    announced[i] = Count(i \in exists) - Count(FirstGroups[i] # NoGroup)
                       - Count(CreateOwed(i)) + Count(DeleteOwed(i))

Ledger == \A i \in Id : Lost(i) \/ Told(i)

EventsInv == RacesInv /\ TakenOnce /\ OwedInserted /\ Ledger

-----------------------------------------------------------------------------

\* Only r moves, it had not ended, and no version is taken back to 0.
StepOf(r) ==
    /\ UNCHANGED op /\ pc[r] # "done"
    /\ \A q \in Request \ {r} : pc'[q] = pc[q] /\ status'[q] = status[q]
    /\ \A i \in Id : row[i].version > 0 => row'[i].version > 0
    /\ \A i \in Id \ {op[r].id} : announced'[i] = announced[i] /\ (i \in exists' <=> i \in exists)

\* What a client was not told stays so: it is the last thing its request does.
LEMMA LostStays ==
  ASSUME RacesInv, NEW r \in Request, StepOf(r), NEW i \in Id, Lost(i)
  PROVE  Lost(i)'
<1>1. PICK q \in Request : op[q].id = i /\ Unannounced(q)
  BY DEF Lost
<1>2. q # r
  <2>1. status[q] # 0
    BY <1>1 DEF Unannounced
  <2>2. pc[q] = "done"
    BY <2>1 DEF RacesInv, Sequence
  <2> QED BY <2>2 DEF StepOf
<1>3. op'[q].id = i /\ Unannounced(q)'
  BY <1>1, <1>2 DEF StepOf, Unannounced
<1> QED BY <1>3 DEF Lost

\* The account of the other groups does not change.
LEMMA OthersTold ==
  ASSUME RacesInv, NEW r \in Request, StepOf(r), NEW i \in Id \ {op[r].id}, Told(i)
  PROVE  Told(i)'
<1>1. CreateOwed(i)' <=> CreateOwed(i)
  BY DEF StepOf, CreateOwed, ToldLate
<1>2. DeleteOwed(i)' <=> DeleteOwed(i)
  BY DEF StepOf, DeleteOwed, Taken
<1>3. announced'[i] = announced[i] /\ (i \in exists' <=> i \in exists)
  BY DEF StepOf
<1>4. /\ Count(CreateOwed(i))' = Count(CreateOwed(i)) /\ Count(DeleteOwed(i))' = Count(DeleteOwed(i))
      /\ Count(i \in exists)' = Count(i \in exists)
  BY <1>1, <1>2, <1>3 DEF Count
<1> QED BY <1>3, <1>4 DEF Told

\* It is enough to look at the group of the request that moves.
LEMMA StepKeepsEvents ==
  ASSUME EventsInv, RacesInv', NEW r \in Request, NEW i \in Id, i = op[r].id, StepOf(r),
         TakenOnce', OwedInserted', Told(i) => Lost(i)' \/ Told(i)'
  PROVE  EventsInv'
<1>1. \A j \in Id : Lost(j) \/ Told(j)
  BY DEF EventsInv, Ledger
<1>2. \A j \in Id : Lost(j) => Lost(j)'
  BY LostStays DEF EventsInv
<1>3. \A j \in Id \ {i} : Told(j) => Told(j)'
  BY OthersTold DEF EventsInv
<1>4. \A j \in Id : Lost(j)' \/ Told(j)'
  BY <1>1, <1>2, <1>3
<1>5. Ledger'
  BY <1>4 DEF Ledger
<1> QED BY <1>5 DEF EventsInv

\* A step of r in which it neither begins nor ends to owe an event.
LEMMA QuietKeepsEvents ==
  ASSUME EventsInv, RacesInv', NEW r \in Request, StepOf(r), UNCHANGED <<announced, exists>>,
         ToldLate(r)' <=> ToldLate(r), Taken(r)' <=> Taken(r)
  PROVE  EventsInv'
<1>1. \A q \in Request : (ToldLate(q)' <=> ToldLate(q)) /\ (Taken(q)' <=> Taken(q))
  BY DEF StepOf, ToldLate, Taken
<1>2. \A q \in Request : op'[q] = op[q] /\ op[q].id \in Id
  BY KindFacts DEF StepOf, EventsInv, RacesInv
<1>3. TakenOnce'
  BY <1>1, <1>2 DEF EventsInv, TakenOnce, StepOf
<1>4. OwedInserted'
  BY <1>1, <1>2 DEF EventsInv, OwedInserted, StepOf
<1>5. PICK i \in Id : i = op[r].id
  BY <1>2
<1>6. (CreateOwed(i)' <=> CreateOwed(i)) /\ (DeleteOwed(i)' <=> DeleteOwed(i))
  BY <1>1, <1>2 DEF CreateOwed, DeleteOwed
<1>7. Told(i) => Told(i)'
  BY <1>6 DEF Told, Count
<1> QED BY <1>3, <1>4, <1>5, <1>7, StepKeepsEvents

\* A step of r that ends it with the group's account open.
LEMMA LosesKeepsEvents ==
  ASSUME EventsInv, RacesInv', NEW r \in Request, StepOf(r), UNCHANGED exists,
         pc'[r] = "done", Unannounced(r)'
  PROVE  EventsInv'
<1>1. \A q \in Request : op'[q] = op[q] /\ op[q].id \in Id
  BY KindFacts DEF StepOf, EventsInv, RacesInv
<1>2. \A q \in Request : (ToldLate(q)' => ToldLate(q)) /\ (Taken(q)' => Taken(q))
  BY DEF StepOf, ToldLate, Taken
<1>3. TakenOnce'
  BY <1>1, <1>2 DEF EventsInv, TakenOnce, StepOf
<1>4. OwedInserted'
  BY <1>1, <1>2 DEF EventsInv, OwedInserted, StepOf
<1>5. PICK i \in Id : i = op[r].id
  BY <1>1
<1>6. Lost(i)'
  BY <1>1, <1>5 DEF Lost
<1> QED BY <1>3, <1>4, <1>5, <1>6, StepKeepsEvents

\* The steps of a request are steps of it alone, and take no version back.
LEMMA RequestSteps ==
  ASSUME RacesInv, RacesInv', NEW r \in Request,
         \/ FindRow(r) \/ FindMembers(r) \/ CheckConflict(r) \/ Resolve(r)
         \/ Insert(r) \/ AddMembers(r) \/ Update(r) \/ Delete(r)
         \/ Reply(r) \/ DatabaseFails(r)
  PROVE  StepOf(r)
<1> DEFINE i == op[r].id
<1>1. /\ i \in Id /\ announced \in [Id -> Int] /\ row \in [Id -> Row] /\ exists \subseteq Id
      /\ pc \in [Request -> Places] /\ status \in [Request -> Codes]
      /\ row' \in [Id -> Row]
  BY KindFacts, Shapes DEF RacesInv, GroupsInv, TypeOK
<1>2. /\ op' = op
      /\ \/ announced' = announced
         \/ \E n : announced' = [announced EXCEPT ![i] = n]
      /\ \/ exists' = exists \/ exists' = exists \cup {i} \/ exists' = exists \ {i}
  BY DEF FindRow, FindMembers, CheckConflict, Resolve, Insert, AddMembers, Update, Delete,
         Reply, DatabaseFails, tableVars
<1>3. pc[r] # "done"
  BY DEF FindRow, FindMembers, CheckConflict, Resolve, Insert, AddMembers, Update, Delete,
         Reply, DatabaseFails
<1>4. /\ \E label : pc' = [pc EXCEPT ![r] = label]
      /\ status' = status \/ \E code : status' = [status EXCEPT ![r] = code]
  BY DEF FindRow, FindMembers, CheckConflict, Resolve, Insert, AddMembers, Update, Delete,
         Reply, DatabaseFails, Checked, Answer, Goto
<1>5. \/ row' = row
      \/ row' = [row EXCEPT ![i] = FirstRow(r)]
      \/ row' = [row EXCEPT ![i] = RowAfter(r)]
  BY DEF FindRow, FindMembers, CheckConflict, Resolve, Insert, AddMembers, Update, Delete,
         Reply, DatabaseFails, tableVars
<1>6. \A j \in Id : row[j].version > 0 => row'[j].version > 0
  <2>1. FirstRow(r).version = 1 /\ RowAfter(r).version = row[i].version + 1
    BY DEF FirstRow, RowAfter
  <2>2. row[i].version \in Nat
    BY <1>1 DEF Row
  <2> HIDE DEF i
  <2> QED BY <1>1, <1>5, <2>1, <2>2
<1>7. \A j \in Id \ {i} : announced'[j] = announced[j] /\ (j \in exists' <=> j \in exists)
  <2> HIDE DEF i
  <2> QED BY <1>1, <1>2
<1>8. \A q \in Request \ {r} : pc'[q] = pc[q] /\ status'[q] = status[q]
  BY <1>1, <1>4
<1> QED BY <1>2, <1>3, <1>6, <1>7, <1>8 DEF StepOf

-----------------------------------------------------------------------------

LEMMA EventsInit == Init => EventsInv
<1> SUFFICES ASSUME Init PROVE EventsInv
  OBVIOUS
<1>1. RacesInv
  BY RacesInit
<1>2. \A r \in Request : pc[r] \in {"find", "conflict"}
  BY DEF Init
<1>3. \A r \in Request : ~ToldLate(r) /\ ~Taken(r)
  BY <1>2 DEF ToldLate, Taken
<1>4. \A i \in Id : ~CreateOwed(i) /\ ~DeleteOwed(i)
  BY <1>3 DEF CreateOwed, DeleteOwed
<1>5. \A i \in Id : announced[i] = 0 /\ (i \in exists <=> FirstGroups[i] # NoGroup)
  BY DEF Init
<1>6. \A i \in Id : Told(i)
  BY <1>4, <1>5 DEF Told, Count
<1> QED BY <1>1, <1>3, <1>6 DEF EventsInv, TakenOnce, OwedInserted, Ledger

\* Reading and checking owe nobody anything.
LEMMA ReadKeepsEvents ==
  ASSUME EventsInv, RacesInv', NEW r \in Request,
         FindRow(r) \/ FindMembers(r) \/ CheckConflict(r) \/ Resolve(r)
  PROVE  EventsInv'
<1>1. StepOf(r) /\ UNCHANGED <<announced, exists, op>>
  BY RequestSteps DEF EventsInv, FindRow, FindMembers, CheckConflict, Resolve, tableVars
<1>2. pc \in [Request -> Places]
  BY Shapes DEF EventsInv, RacesInv
<1>3. \/ op[r].kind # "create" /\ pc[r] \in {"find", "findMembers"}
      \/ pc[r] = "conflict"
      \/ pc[r] = "resolve"
  BY DEF FindRow, FindMembers, CheckConflict, Resolve, EventsInv, RacesInv, GroupsInv, CreatesOnly
<1>4. /\ pc'[r] # "reply"
      /\ pc[r] \in {"find", "findMembers"} => op[r].kind # "create"
      /\ pc[r] = "conflict" => pc'[r] \in {"done", "insert"} \/ op[r].kind # "create"
      /\ pc[r] = "resolve" => pc'[r] = "addMembers" \/ op[r].kind # "create"
  BY <1>2, <1>3 DEF FindRow, FindMembers, CheckConflict, Resolve, Checked, Answer, Goto
<1>5. ToldLate(r)' <=> ToldLate(r)
  BY <1>1, <1>3, <1>4 DEF ToldLate
<1>6. Taken(r)' <=> Taken(r)
  BY <1>1, <1>3, <1>4 DEF Taken
<1> QED BY <1>1, <1>5, <1>6, QuietKeepsEvents

\* The group of a create is new: it owes the event from here on.
LEMMA InsertKeepsEvents ==
  ASSUME EventsInv, RacesInv', NEW r \in Request, NEW i \in Id, i = op[r].id, Insert(r)
  PROVE  EventsInv'
<1>1. /\ StepOf(r) /\ op' = op /\ pc \in [Request -> Places] /\ row \in [Id -> Row]
      /\ i \in Id
  BY RequestSteps, Shapes, KindFacts DEF EventsInv, RacesInv, Insert
<1>2. /\ op[r].kind = "create" /\ row[i].version = 0 /\ i \notin exists /\ pc[r] = "insert"
  BY <1>1 DEF Insert, EventsInv, RacesInv, GroupsInv, CreatesOnly, NotYetInserted, Creating, TypeOK
<1>3. /\ pc'[r] \in {"reply", "resolve"} /\ exists' = exists \cup {i} /\ announced' = announced
      /\ row'[i].version > 0
  BY <1>1 DEF Insert, Goto, FirstRow
<1>4. \A q \in Request \ {r} : ~(op[q].kind = "create" /\ op[q].id = i)
  BY <1>2 DEF EventsInv, RacesInv, GroupsInv, FreshIds
<1>5. ~CreateOwed(i) /\ CreateOwed(i)'
  BY <1>1, <1>2, <1>3, <1>4 DEF CreateOwed, ToldLate
<1>6. \A q \in Request : Taken(q) => op[q].id # i
  BY <1>2 DEF EventsInv, TakenOnce
<1>7. \A q \in Request : Taken(q)' <=> Taken(q)
  BY <1>1, <1>2 DEF StepOf, Taken
<1>8. ~DeleteOwed(i) /\ ~DeleteOwed(i)'
  BY <1>1, <1>6, <1>7 DEF DeleteOwed
<1>9. TakenOnce'
  BY <1>1, <1>3, <1>6, <1>7, KindFacts DEF EventsInv, RacesInv, TakenOnce, StepOf
<1>10. OwedInserted'
  <2> SUFFICES ASSUME NEW q \in Request, ToldLate(q)' PROVE row'[op[q].id].version > 0
    BY <1>1 DEF OwedInserted
  <2>1. CASE q = r
    BY <1>3, <2>1
  <2>2. CASE q # r
    <3>1. ToldLate(q)
      BY <1>1, <2>2 DEF StepOf, ToldLate
    <3>2. op[q].id \in Id
      BY KindFacts DEF EventsInv, RacesInv
    <3> QED BY <1>1, <3>1, <3>2 DEF EventsInv, OwedInserted, StepOf
  <2> QED BY <2>1, <2>2
<1>11. Told(i) => Told(i)'
  <2>1. announced[i] \in Int /\ announced'[i] = announced[i] /\ i \notin exists /\ i \in exists'
    BY <1>1, <1>2, <1>3 DEF EventsInv, RacesInv, GroupsInv, TypeOK
  <2> QED BY <1>5, <1>8, <2>1 DEF Told, Count
<1> QED BY <1>1, <1>9, <1>10, <1>11, StepKeepsEvents

\* The delete that takes the group owes the event from here on.
LEMMA DeletionKeepsEvents ==
  ASSUME EventsInv, RacesInv', NEW r \in Request, NEW i \in Id, i = op[r].id, Delete(r), ~RefusedDelete(r)
  PROVE  EventsInv'
<1>1. /\ StepOf(r) /\ op' = op /\ pc \in [Request -> Places]
      /\ i \in Id /\ i \in exists /\ row[i].version > 0
  BY RequestSteps, Shapes, KindFacts
     DEF EventsInv, RacesInv, GroupsInv, TypeOK, Delete, RefusedDelete
<1>2. /\ op[r].kind = "delete" /\ pc[r] = "commit" /\ pc'[r] = "reply"
      /\ exists' = exists \ {i} /\ announced' = announced /\ row' = row
  BY <1>1 DEF Delete, Goto
<1>3. \A q \in Request : ToldLate(q)' <=> ToldLate(q)
  BY <1>1, <1>2 DEF StepOf, ToldLate
<1>4. CreateOwed(i)' <=> CreateOwed(i)
  BY <1>1, <1>3 DEF CreateOwed
<1>5. \A q \in Request : Taken(q) => op[q].id # i
  BY <1>1 DEF EventsInv, TakenOnce
<1>6. Taken(r)' /\ \A q \in Request \ {r} : Taken(q)' <=> Taken(q)
  BY <1>1, <1>2 DEF StepOf, Taken
<1>7. ~DeleteOwed(i) /\ DeleteOwed(i)'
  BY <1>1, <1>5, <1>6 DEF DeleteOwed
<1>8. TakenOnce'
  BY <1>1, <1>2, <1>5, <1>6 DEF EventsInv, TakenOnce
<1>9. OwedInserted'
  BY <1>1, <1>2, <1>3 DEF EventsInv, OwedInserted
<1>10. Told(i) => Told(i)'
  <2>1. announced[i] \in Int /\ announced'[i] = announced[i] /\ i \in exists /\ i \notin exists'
    BY <1>1, <1>2 DEF EventsInv, RacesInv, GroupsInv, TypeOK
  <2> QED BY <1>4, <1>7, <2>1 DEF Told, Count
<1> QED BY <1>1, <1>8, <1>9, <1>10, StepKeepsEvents

\* The other writes, and those that the database refuses. A create whose
\* members it refuses leaves a group that nobody is told of.
LEMMA OtherWriteKeepsEvents ==
  ASSUME EventsInv, RacesInv', NEW r \in Request,
         AddMembers(r) \/ Update(r) \/ (Delete(r) /\ RefusedDelete(r))
  PROVE  EventsInv'
<1>1. /\ StepOf(r) /\ UNCHANGED <<announced, exists, op>> /\ pc \in [Request -> Places]
      /\ status \in [Request -> Codes] /\ op[r].id \in Id
  BY RequestSteps, Shapes, KindFacts DEF EventsInv, RacesInv, AddMembers, Update, Delete
<1>2. CASE AddMembers(r) /\ RefusedMembers(r) = 200
  <2>1. pc[r] = "addMembers" /\ pc'[r] = "reply" /\ op[r].kind = "create"
    BY <1>1, <1>2 DEF AddMembers, Goto, EventsInv, RacesInv, GroupsInv, CreatesOnly
  <2>2. (ToldLate(r)' <=> ToldLate(r)) /\ (Taken(r)' <=> Taken(r))
    BY <1>1, <2>1 DEF ToldLate, Taken
  <2> QED BY <1>1, <2>2, QuietKeepsEvents
<1>3. CASE AddMembers(r) /\ RefusedMembers(r) # 200
  <2>1. /\ pc[r] = "addMembers" /\ pc'[r] = "done" /\ op[r].kind = "create"
        /\ status'[r] \in {409, 500} /\ row' = row
    BY <1>1, <1>3 DEF AddMembers, Answer, RefusedMembers, EventsInv, RacesInv, GroupsInv, CreatesOnly
  <2>2. row[op[r].id].version > 0
    BY <2>1 DEF EventsInv, OwedInserted, ToldLate
  <2>3. Unannounced(r)'
    BY <1>1, <2>1, <2>2 DEF Unannounced
  <2> QED BY <1>1, <2>1, <2>3, LosesKeepsEvents
<1>4. CASE Update(r)
  <2>1. op[r].kind # "create" /\ op[r].kind # "delete"
    BY <1>4 DEF Update, EventsInv, RacesInv, Sequence
  <2>2. (ToldLate(r)' <=> ToldLate(r)) /\ (Taken(r)' <=> Taken(r))
    BY <1>1, <2>1 DEF ToldLate, Taken
  <2> QED BY <1>1, <2>2, QuietKeepsEvents
<1>5. CASE Delete(r) /\ RefusedDelete(r)
  <2>1. pc[r] = "commit" /\ pc'[r] = "done"
    BY <1>1, <1>5 DEF Delete, Answer
  <2>2. (ToldLate(r)' <=> ToldLate(r)) /\ (Taken(r)' <=> Taken(r))
    BY <1>1, <2>1 DEF ToldLate, Taken
  <2> QED BY <1>1, <2>2, QuietKeepsEvents
<1> QED BY <1>2, <1>3, <1>4, <1>5

\* The event that was owed is emitted.
LEMMA ReplyKeepsEvents ==
  ASSUME EventsInv, RacesInv', NEW r \in Request, NEW i \in Id, i = op[r].id, Reply(r)
  PROVE  EventsInv'
<1>1. /\ StepOf(r) /\ UNCHANGED <<exists, op, row>> /\ pc \in [Request -> Places]
      /\ i \in Id /\ announced \in [Id -> Int]
  BY RequestSteps, Shapes, KindFacts
     DEF EventsInv, RacesInv, GroupsInv, TypeOK, Reply, tableVars
<1>2. pc[r] = "reply" /\ pc'[r] = "done"
  BY <1>1 DEF Reply, Answer
<1>3. /\ op[r].kind = "create" => announced'[i] = announced[i] + 1
      /\ op[r].kind = "delete" => announced'[i] = announced[i] - 1
      /\ op[r].kind \notin {"create", "delete"} => announced'[i] = announced[i]
  BY <1>1 DEF Reply
<1>4. \A q \in Request : (ToldLate(q)' => ToldLate(q)) /\ (Taken(q)' => Taken(q))
  BY <1>1, <1>2 DEF StepOf, ToldLate, Taken
<1>5. TakenOnce'
  BY <1>1, <1>4 DEF EventsInv, TakenOnce
<1>6. OwedInserted'
  BY <1>1, <1>4 DEF EventsInv, OwedInserted
<1>7. CASE op[r].kind = "create"
  <2>1. \A q \in Request \ {r} : ~(op[q].kind = "create" /\ op[q].id = i)
    BY <1>7 DEF EventsInv, RacesInv, GroupsInv, FreshIds
  <2>2. CreateOwed(i) /\ ~CreateOwed(i)'
    BY <1>1, <1>2, <1>7, <2>1 DEF CreateOwed, ToldLate
  <2>3. \A q \in Request : Taken(q)' <=> Taken(q)
    BY <1>1, <1>7 DEF StepOf, Taken
  <2>4. DeleteOwed(i)' <=> DeleteOwed(i)
    BY <1>1, <2>3 DEF DeleteOwed
  <2>5. Told(i) => Told(i)'
    <3>1. announced[i] \in Int /\ announced'[i] = announced[i] + 1 /\ (i \in exists' <=> i \in exists)
      BY <1>1, <1>3, <1>7
    <3> QED BY <2>2, <2>4, <3>1 DEF Told, Count
  <2> QED BY <1>1, <1>5, <1>6, <2>5, StepKeepsEvents
<1>8. CASE op[r].kind = "delete"
  <2>1. Taken(r) /\ ~Taken(r)'
    BY <1>1, <1>2, <1>8 DEF Taken
  <2>2. \A q \in Request : Taken(q) /\ op[q].id = i => q = r
    BY <2>1 DEF EventsInv, TakenOnce
  <2>3. DeleteOwed(i) /\ ~DeleteOwed(i)'
    BY <1>1, <1>4, <2>1, <2>2 DEF DeleteOwed
  <2>4. \A q \in Request : ToldLate(q)' <=> ToldLate(q)
    BY <1>1, <1>8 DEF StepOf, ToldLate
  <2>5. CreateOwed(i)' <=> CreateOwed(i)
    BY <1>1, <2>4 DEF CreateOwed
  <2>6. Told(i) => Told(i)'
    <3>1. announced[i] \in Int /\ announced'[i] = announced[i] - 1 /\ (i \in exists' <=> i \in exists)
      BY <1>1, <1>3, <1>8
    <3> QED BY <2>3, <2>5, <3>1 DEF Told, Count
  <2> QED BY <1>1, <1>5, <1>6, <2>6, StepKeepsEvents
<1>9. CASE op[r].kind \notin {"create", "delete"}
  <2>1. announced' = announced
    BY <1>1, <1>3, <1>9 DEF Reply
  <2>2. (ToldLate(r)' <=> ToldLate(r)) /\ (Taken(r)' <=> Taken(r))
    BY <1>1, <1>9 DEF ToldLate, Taken
  <2> QED BY <1>1, <2>1, <2>2, QuietKeepsEvents
<1> QED BY <1>7, <1>8, <1>9

LEMMA FailureKeepsEvents ==
  ASSUME EventsInv, RacesInv', NEW r \in Request, DatabaseFails(r)
  PROVE  EventsInv'
<1>1. /\ StepOf(r) /\ UNCHANGED exists /\ pc \in [Request -> Places] /\ status \in [Request -> Codes]
  BY RequestSteps, Shapes DEF EventsInv, RacesInv, DatabaseFails, tableVars
<1>2. pc'[r] = "done" /\ status'[r] = 503
  BY <1>1 DEF DatabaseFails, Answer
<1>3. Unannounced(r)'
  BY <1>2 DEF Unannounced
<1> QED BY <1>1, <1>2, <1>3, LosesKeepsEvents

\* What is no step of a request.
LEMMA StutterKeepsEvents ==
  ASSUME EventsInv, RacesInv', UNCHANGED <<exists, row, op, pc, status, announced>>
  PROVE  EventsInv'
<1>1. \A r \in Request : /\ ToldLate(r)' <=> ToldLate(r)
                         /\ Taken(r)' <=> Taken(r)
                         /\ Unannounced(r)' <=> Unannounced(r)
  BY DEF ToldLate, Taken, Unannounced
<1>2. TakenOnce' /\ OwedInserted'
  BY <1>1 DEF EventsInv, TakenOnce, OwedInserted
<1>3. \A i \in Id : /\ Lost(i)' <=> Lost(i)
                    /\ CreateOwed(i)' <=> CreateOwed(i)
                    /\ DeleteOwed(i)' <=> DeleteOwed(i)
  BY <1>1 DEF Lost, CreateOwed, DeleteOwed
<1>4. \A i \in Id : Told(i) => Told(i)'
  BY <1>3 DEF Told, Count
<1>5. \A i \in Id : Lost(i)' \/ Told(i)'
  BY <1>3, <1>4 DEF EventsInv, Ledger
<1>6. Ledger'
  BY <1>5 DEF Ledger
<1> QED BY <1>2, <1>6 DEF EventsInv

LEMMA EventsNext == EventsInv /\ [Next]_groupVars => EventsInv'
<1> SUFFICES ASSUME EventsInv, [Next]_groupVars PROVE EventsInv'
  OBVIOUS
<1>1. RacesInv'
  BY RacesNext DEF EventsInv
<1>2. ASSUME NEW r \in Request,
             \/ FindRow(r) \/ FindMembers(r) \/ CheckConflict(r) \/ Resolve(r)
             \/ Insert(r) \/ AddMembers(r) \/ Update(r) \/ Delete(r)
             \/ Reply(r) \/ DatabaseFails(r)
      PROVE  EventsInv'
  <2>1. PICK i \in Id : i = op[r].id
    BY KindFacts DEF EventsInv, RacesInv
  <2> QED BY <1>1, <1>2, <2>1, ReadKeepsEvents, InsertKeepsEvents, DeletionKeepsEvents,
             OtherWriteKeepsEvents, ReplyKeepsEvents, FailureKeepsEvents
<1>3. ASSUME NEW u \in Member, DeleteUser(u) PROVE EventsInv'
  BY <1>1, <1>3, StutterKeepsEvents DEF DeleteUser
<1>4. CASE UNCHANGED groupVars
  BY <1>1, <1>4, StutterKeepsEvents DEF groupVars, tableVars
<1> QED BY <1>2, <1>3, <1>4 DEF Next, Done

THEOREM EventsInvariant == Spec => []EventsInv
  BY EventsInit, EventsNext, PTL DEF Spec

(***************************************************************************)
(* Whatever the creates and deletes of a group did to each other, its      *)
(* events, once all is quiet, tell whether it was created and whether it   *)
(* is gone, unless an answer was lost or the members of its create were    *)
(* refused.                                                                *)
(***************************************************************************)
THEOREM EventsCount == Spec => []EventsCountGroups
<1>1. ASSUME EventsInv PROVE EventsCountGroups
  <2> SUFFICES ASSUME AtRest, NEW i \in Id, ~Lost(i)
               PROVE  announced[i] = Count(i \in exists) - Count(FirstGroups[i] # NoGroup)
    BY DEF EventsCountGroups, Lost
  <2>1. ~CreateOwed(i) /\ ~DeleteOwed(i)
    BY DEF AtRest, CreateOwed, DeleteOwed, ToldLate, Taken
  <2>2. Told(i)
    BY <1>1 DEF EventsInv, Ledger
  <2> QED BY <2>1, <2>2 DEF Told, Count
<1> QED BY <1>1, EventsInvariant, PTL

=============================================================================
