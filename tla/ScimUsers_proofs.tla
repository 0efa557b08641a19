--------------------------- MODULE ScimUsers_proofs ---------------------------
(***************************************************************************)
(* Proofs about ScimUsers, for every set of users, requests, operations    *)
(* and configurations: the state keeps its shape, an ETag names one        *)
(* representation, the users implement ResourceStore, and without overlap  *)
(* no update is lost and If-Match protects what it names.                  *)
(*                                                                         *)
(* The argument: a row's version is the highest its id has ever had, and   *)
(* every write makes a version above it. That needs the history to be      *)
(* bounded by "versions", and the content a request writes to be well      *)
(* formed, hence the row it found to exist once it is past the find. An    *)
(* update that met no window is in the row and in every row found after    *)
(* it, so that whoever writes, writes it back.                             *)
(***************************************************************************)
EXTENDS ScimUsers, TLAPS

\* A row carries the last version of its id.
VersionsCurrent == \A i \in Existing : versions[i] = users[i].version

\* No two users of the endpoint share a userName.
NamesUnique ==
    \A i, j \in Existing : i # j => users[i].content.userName # users[j].content.userName

\* Nothing the table has held is newer than the last version.
HistoryBounded == \A h \in history : h[2].version <= versions[h[1]]

\* A request past the find, but for a create, has a row.
FoundRow ==
    \A r \in Request :
        pc[r] \in {"conflict", "commit", "reply"} /\ op[r].kind # "create" => found[r] # NoUser

\* Only requests with a write to do get there.
WritersWrite ==
    \A r \in Request :
        /\ pc[r] \in {"conflict", "commit", "reply"} => op[r].kind # "get"
        /\ pc[r] = "conflict" => op[r].kind # "delete"

UsersInv ==
    /\ TypeOK
    /\ VersionsCurrent
    /\ NamesUnique
    /\ HistoryBounded
    /\ EtagIdentifiesContent
    /\ FoundRow
    /\ WritersWrite

-----------------------------------------------------------------------------

\* The initial table satisfies the invariant.
LEMMA UsersInitInv == Init => UsersInv
<1> SUFFICES ASSUME Init PROVE UsersInv
  OBVIOUS
<1> USE FirstUsersAssumption DEF Init
<1>1. TypeOK
  BY DEF TypeOK
<1>2. VersionsCurrent /\ NamesUnique
  BY DEF VersionsCurrent, NamesUnique, Existing
<1>3. HistoryBounded /\ EtagIdentifiesContent
  BY DEF HistoryBounded, EtagIdentifiesContent, User
<1>4. FoundRow /\ WritersWrite
  BY DEF FoundRow, WritersWrite
<1> QED BY <1>1, <1>2, <1>3, <1>4 DEF UsersInv

\* What a request writes is a well-formed content.
LEMMA NewContentType ==
  ASSUME UsersInv, NEW r \in Request, op[r].kind \in {"create", "patch", "replace"},
         op[r].kind # "create" => found[r] # NoUser
  PROVE  NewContent(r) \in Content
<1>1. op[r] \in Operation
  BY DEF UsersInv, TypeOK
<1>2. CASE op[r].kind # "patch"
  <2>1. op[r].userName \in UserName /\ op[r].active \in BOOLEAN
    BY <1>1, <1>2, OperationAssumption
  <2> QED BY <1>2, <2>1 DEF NewContent, Content
<1>3. CASE op[r].kind = "patch"
  <2>1. found[r].content \in Content
    BY <1>3 DEF UsersInv, TypeOK, User
  <2>2. \/ op[r].path = "userName" /\ op[r].value \in UserName
        \/ op[r].path = "active" /\ op[r].value \in BOOLEAN
        \/ op[r].path \in Attr \ {"userName", "active"}
    BY <1>1, <1>3, OperationAssumption
  <2>3. Patched(r) \in Content
    BY <2>1, <2>2 DEF Patched, Content
  <2> QED BY <1>3, <2>3 DEF NewContent
<1> QED BY <1>2, <1>3

(***************************************************************************)
(* What an accepted write does to the table: it creates an id that never   *)
(* existed with version 1, gives an existing user the next version, or     *)
(* removes an existing user.                                               *)
(***************************************************************************)
LEMMA CommitEffect ==
  ASSUME UsersInv, NEW r \in Request, Commit(r), Refusal(r) = 200
  PROVE  LET i == op[r].id  row == RowAfter(r) IN
         /\ i \in Id
         /\ users' = [users EXCEPT ![i] = row]
         /\ \/ /\ op[r].kind = "create" /\ versions[i] = 0
               /\ row \in User /\ row.version = 1
               /\ \A j \in Existing \ {i} : users[j].content.userName # row.content.userName
               /\ versions' = [versions EXCEPT ![i] = 1]
               /\ history' = history \cup {<<i, row>>}
            \/ /\ op[r].kind \in {"patch", "replace"} /\ i \in Existing
               /\ row \in User /\ row.version = versions[i] + 1
               /\ \A j \in Existing \ {i} : users[j].content.userName # row.content.userName
               /\ versions' = [versions EXCEPT ![i] = versions[i] + 1]
               /\ history' = history \cup {<<i, row>>}
            \/ /\ op[r].kind = "delete" /\ i \in Existing /\ row = NoUser
               /\ UNCHANGED <<versions, history>>
<1> DEFINE i == op[r].id
           row == RowAfter(r)
<1>1. /\ op[r] \in Operation /\ i \in Id
      /\ op[r].kind \in {"create", "get", "patch", "replace", "delete"}
  BY OperationAssumption DEF UsersInv, TypeOK
<1>2. /\ pc[r] = "commit" /\ op[r].kind # "get"
      /\ op[r].kind # "create" => found[r] # NoUser
  BY DEF Commit, UsersInv, FoundRow, WritersWrite
<1>3. /\ users' = [users EXCEPT ![i] = row]
      /\ IF row = NoUser
         THEN UNCHANGED <<versions, history>>
         ELSE /\ versions' = [versions EXCEPT ![i] = row.version]
              /\ history' = history \cup {<<i, row>>}
  BY DEF Commit
<1>4. CASE op[r].kind = "create"
  <2>1. versions[i] = 0 /\ ~NameTaken(op[r].userName, i)
    BY <1>4 DEF Refusal
  <2>2. row = [version |-> 1, content |-> NewContent(r)] /\ NewContent(r) \in Content
    BY <1>4, NewContentType DEF RowAfter
  <2>3. row \in User /\ row.version = 1 /\ row # NoUser
    BY <2>2, FirstUsersAssumption DEF User
  <2>4. row.content.userName = op[r].userName
    BY <2>2, <1>4 DEF NewContent
  <2> QED BY <1>1, <1>3, <1>4, <2>1, <2>3, <2>4 DEF NameTaken
<1>5. CASE op[r].kind \in {"patch", "replace"}
  <2>1. i \in Existing /\ ~NameTaken(NewContent(r).userName, i)
    BY <1>5 DEF Refusal
  <2>2. /\ row = [version |-> users[i].version + 1, content |-> NewContent(r)]
        /\ NewContent(r) \in Content
    BY <1>2, <1>5, NewContentType DEF RowAfter
  <2>3. users[i] \in User /\ users[i].version = versions[i] /\ versions[i] \in Nat
    BY <1>1, <2>1 DEF UsersInv, TypeOK, VersionsCurrent, Existing
  <2>4. row \in User /\ row.version = versions[i] + 1 /\ row # NoUser
    BY <2>2, <2>3, FirstUsersAssumption DEF User
  <2> QED BY <1>1, <1>3, <1>5, <2>1, <2>2, <2>4 DEF NameTaken
<1>6. CASE op[r].kind = "delete"
  <2>1. i \in Existing /\ row = NoUser
    BY <1>6 DEF Refusal, RowAfter
  <2> QED BY <1>1, <1>3, <1>6, <2>1
<1> QED BY <1>1, <1>2, <1>4, <1>5, <1>6

\* A step that leaves the table alone keeps what is said about the table.
LEMMA TableUntouched ==
  ASSUME UsersInv, UNCHANGED <<users, versions, history>>
  PROVE  VersionsCurrent' /\ NamesUnique' /\ HistoryBounded' /\ EtagIdentifiesContent'
BY DEF UsersInv, VersionsCurrent, NamesUnique, HistoryBounded, EtagIdentifiesContent, Existing

\* The statuses enforceIfMatch can answer with.
LEMMA IfMatchStatusRange ==
  ASSUME NEW m, NEW v
  PROVE  IfMatchStatus(m, v) \in {200, 412, 428}
BY DEF IfMatchStatus

\* The steps before the write change no row.
LEMMA ReadStepKeepsInv ==
  ASSUME UsersInv, NEW r \in Request,
         Arrive(r) \/ Find(r) \/ CheckConflict(r) \/ Reply(r) \/ DatabaseFails(r)
  PROVE  UsersInv'
<1>1. UNCHANGED <<users, versions, history, op, config, raced, written>>
  BY DEF Arrive, Find, CheckConflict, Reply, DatabaseFails
<1>2. VersionsCurrent' /\ NamesUnique' /\ HistoryBounded' /\ EtagIdentifiesContent'
  BY <1>1, TableUntouched
<1>3. op[r] \in Operation /\ op[r].id \in Id
      /\ op[r].kind \in {"create", "get", "patch", "replace", "delete"}
  BY OperationAssumption DEF UsersInv, TypeOK
<1>4. CASE Arrive(r)
  <2>1. TypeOK'
    BY <1>1, <1>4 DEF UsersInv, TypeOK, Arrive, Goto
  <2>2. FoundRow' /\ WritersWrite'
    BY <1>1, <1>4 DEF UsersInv, TypeOK, FoundRow, WritersWrite, Arrive, Goto
  <2> QED BY <1>2, <2>1, <2>2 DEF UsersInv
<1>5. CASE Find(r)
  <2> DEFINE row == users[op[r].id]
  <2>1. row \in User \cup {NoUser} /\ found' = [found EXCEPT ![r] = row]
    BY <1>3, <1>5 DEF UsersInv, TypeOK, Find
  <2>2. StatusAfterFind(r, row) \in {200, 400, 412, 428}
    BY IfMatchStatusRange DEF StatusAfterFind
  <2>3. \/ /\ pc' = [pc EXCEPT ![r] = "done"]
           /\ \E code \in {200, 400, 404, 412, 428} : status' = [status EXCEPT ![r] = code]
        \/ /\ row # NoUser /\ op[r].kind # "get" /\ UNCHANGED status
           /\ pc' = [pc EXCEPT ![r] = IF op[r].kind = "delete" THEN "commit" ELSE "conflict"]
    BY <1>5, <2>2 DEF Find, Answer, Goto
  <2>4. TypeOK'
    BY <1>1, <2>1, <2>3 DEF UsersInv, TypeOK
  <2>5. FoundRow' /\ WritersWrite'
    BY <1>1, <2>1, <2>3 DEF UsersInv, TypeOK, FoundRow, WritersWrite
  <2> QED BY <1>2, <2>4, <2>5 DEF UsersInv
<1>6. CASE CheckConflict(r)
  <2>1. TypeOK'
    BY <1>1, <1>6 DEF UsersInv, TypeOK, CheckConflict, Answer, Goto
  <2>2. FoundRow' /\ WritersWrite'
    BY <1>1, <1>6 DEF UsersInv, TypeOK, FoundRow, WritersWrite, CheckConflict, Answer, Goto
  <2> QED BY <1>2, <2>1, <2>2 DEF UsersInv
<1>7. CASE Reply(r) \/ DatabaseFails(r)
  <2>1. TypeOK'
    BY <1>1, <1>7 DEF UsersInv, TypeOK, Reply, DatabaseFails, Answer
  <2>2. FoundRow' /\ WritersWrite'
    BY <1>1, <1>7 DEF UsersInv, TypeOK, FoundRow, WritersWrite, Reply, DatabaseFails, Answer
  <2> QED BY <1>2, <2>1, <2>2 DEF UsersInv
<1> QED BY <1>4, <1>5, <1>6, <1>7

\* The write keeps the invariant: the version it makes is above all others.
LEMMA CommitKeepsInv ==
  ASSUME UsersInv, NEW r \in Request, Commit(r)
  PROVE  UsersInv'
<1>1. UNCHANGED <<config, op, found>> /\ pc[r] = "commit"
  BY DEF Commit
<1>2. CASE Refusal(r) # 200
  <2>1. UNCHANGED <<users, versions, written, history, raced>> /\ Answer(r, Refusal(r))
    BY <1>2 DEF Commit
  <2>2. Refusal(r) \in {404, 409}
    BY <1>2 DEF Refusal
  <2>3. TypeOK'
    BY <1>1, <2>1, <2>2 DEF UsersInv, TypeOK, Answer
  <2>4. FoundRow' /\ WritersWrite'
    BY <1>1, <2>1 DEF UsersInv, TypeOK, FoundRow, WritersWrite, Answer
  <2> QED BY <2>1, <2>3, <2>4, TableUntouched DEF UsersInv
<1>3. CASE Refusal(r) = 200
  <2> DEFINE i == op[r].id
             row == RowAfter(r)
  <2>1. /\ i \in Id
        /\ users' = [users EXCEPT ![i] = row]
        /\ \/ /\ op[r].kind = "create" /\ versions[i] = 0
              /\ row \in User /\ row.version = 1
              /\ \A j \in Existing \ {i} : users[j].content.userName # row.content.userName
              /\ versions' = [versions EXCEPT ![i] = 1]
              /\ history' = history \cup {<<i, row>>}
           \/ /\ op[r].kind \in {"patch", "replace"} /\ i \in Existing
              /\ row \in User /\ row.version = versions[i] + 1
              /\ \A j \in Existing \ {i} : users[j].content.userName # row.content.userName
              /\ versions' = [versions EXCEPT ![i] = versions[i] + 1]
              /\ history' = history \cup {<<i, row>>}
           \/ /\ op[r].kind = "delete" /\ i \in Existing /\ row = NoUser
              /\ UNCHANGED <<versions, history>>
    BY <1>3, CommitEffect
  <2>2. /\ written' = [written EXCEPT ![r] = row] /\ UNCHANGED status
        /\ pc' = [pc EXCEPT ![r] = "reply"]
        /\ \E S \in SUBSET Request : raced' = [raced EXCEPT ![r] = S]
    BY <1>3 DEF Commit, Goto
  <2> HIDE DEF i, row
  <2>3. row \in User \cup {NoUser}
    BY <2>1
  <2>4. TypeOK'
    BY <1>1, <2>1, <2>2, <2>3 DEF UsersInv, TypeOK
  <2>5. FoundRow' /\ WritersWrite'
    BY <1>1, <2>2 DEF UsersInv, TypeOK, FoundRow, WritersWrite
  <2>6. \A j \in Id : j # i => users'[j] = users[j] /\ versions'[j] = versions[j]
    BY <2>1 DEF UsersInv, TypeOK
  <2>7. users'[i] = row
    BY <2>1 DEF UsersInv, TypeOK
  <2>8. CASE row = NoUser
    <3>1. UNCHANGED <<versions, history>>
      BY <2>1, <2>8, FirstUsersAssumption
    <3>2. VersionsCurrent' /\ NamesUnique'
      BY <2>6, <2>7, <2>8, <3>1 DEF UsersInv, VersionsCurrent, NamesUnique, Existing
    <3>3. HistoryBounded' /\ EtagIdentifiesContent'
      BY <3>1 DEF UsersInv, HistoryBounded, EtagIdentifiesContent
    <3> QED BY <2>4, <2>5, <3>2, <3>3 DEF UsersInv
  <2>9. CASE row \in User
    <3>1. /\ row.version = versions[i] + 1 /\ versions'[i] = versions[i] + 1
          /\ history' = history \cup {<<i, row>>} /\ row # NoUser /\ versions[i] \in Nat
          /\ \A j \in Existing \ {i} : users[j].content.userName # row.content.userName
      BY <2>1, <2>9, FirstUsersAssumption DEF UsersInv, TypeOK
    <3>2. VersionsCurrent'
      BY <2>6, <2>7, <3>1 DEF UsersInv, VersionsCurrent, Existing
    <3>3. NamesUnique'
      BY <2>6, <2>7, <3>1 DEF UsersInv, NamesUnique, Existing
    <3>4. \A h \in history : h[1] \in Id /\ h[2].version \in Nat /\ versions[h[1]] \in Nat
      BY DEF UsersInv, TypeOK, User
    <3>5. HistoryBounded'
      <4> SUFFICES ASSUME NEW h \in history' PROVE h[2].version <= versions'[h[1]]
        BY DEF HistoryBounded
      <4>1. CASE h = <<i, row>>
        BY <4>1, <3>1
      <4>2. CASE h \in history
        <5>1. h[2].version <= versions[h[1]]
          BY <4>2 DEF UsersInv, HistoryBounded
        <5> QED BY <4>2, <5>1, <2>6, <3>1, <3>4
      <4> QED BY <4>1, <4>2, <3>1
    <3>6. \A h \in history : h[1] = i => h[2].version # row.version
      BY <3>1, <3>4 DEF UsersInv, HistoryBounded
    <3>7. EtagIdentifiesContent'
      BY <3>1, <3>6 DEF UsersInv, EtagIdentifiesContent
    <3> QED BY <2>4, <2>5, <3>2, <3>3, <3>5, <3>7 DEF UsersInv
  <2> QED BY <2>3, <2>8, <2>9
<1> QED BY <1>2, <1>3

\* Every step of the service keeps the invariant.
LEMMA UsersNextInv == UsersInv /\ [Next]_userVars => UsersInv'
<1> SUFFICES ASSUME UsersInv, [Next]_userVars PROVE UsersInv'
  OBVIOUS
<1>1. ASSUME NEW r \in Request,
             Arrive(r) \/ Find(r) \/ CheckConflict(r) \/ Reply(r) \/ DatabaseFails(r)
      PROVE  UsersInv'
  BY <1>1, ReadStepKeepsInv
<1>2. ASSUME NEW r \in Request, Commit(r) PROVE UsersInv'
  BY <1>2, CommitKeepsInv
<1>3. CASE UNCHANGED userVars
  BY <1>3 DEF userVars, UsersInv, TypeOK, VersionsCurrent, NamesUnique, HistoryBounded,
              EtagIdentifiesContent, FoundRow, WritersWrite, Existing
<1> QED BY <1>1, <1>2, <1>3 DEF Next, Done

\* The invariant holds in every reachable state.
THEOREM UsersInvariant == Spec => []UsersInv
  BY UsersInitInv, UsersNextInv, PTL DEF Spec

\* The state keeps its shape: every row the service finds, computes and stores
\* is a well-formed user, for any requests.
THEOREM UsersTypeCorrect == Spec => []TypeOK
<1>1. UsersInv => TypeOK
  BY DEF UsersInv
<1> QED BY <1>1, UsersInvariant, PTL

\* A version-based ETag identifies one representation of one user for ever,
\* although the services read and write without any lock.
THEOREM EtagsIdentify == Spec => []EtagIdentifiesContent
<1>1. UsersInv => EtagIdentifiesContent
  BY DEF UsersInv
<1> QED BY <1>1, UsersInvariant, PTL

-----------------------------------------------------------------------------

\* An abstract resource is present exactly when the user exists.
LEMMA PresentIsExisting ==
  ASSUME UsersInv
  PROVE  /\ Store!Present = Existing
         /\ \A i \in Existing : ContentOf[i] = users[i].content
         /\ ContentOf \in [Id -> Content \cup {NoUser}]
<1>1. \A i \in Id : users[i] = NoUser \/ users[i].content \in Content
  BY DEF UsersInv, TypeOK, User
<1> QED BY <1>1, FirstUsersAssumption DEF Store!Present, Existing, ContentOf

\* The initial table is an initial store.
LEMMA InitImplements == Init => Store!StoreInit
<1> SUFFICES ASSUME Init PROVE Store!StoreInit
  OBVIOUS
<1>1. UsersInv
  BY UsersInitInv
<1>2. Store!Present = Existing /\ ContentOf \in [Id -> Content \cup {NoUser}]
      /\ \A i \in Existing : ContentOf[i] = users[i].content
  BY <1>1, PresentIsExisting
<1>3. versions = [i \in Id |-> IF i \in Existing THEN 1 ELSE 0]
  BY DEF Init, Existing
<1>4. \A i, j \in Existing : i # j => ContentOf[j].userName # ContentOf[i].userName
  BY <1>1, <1>2 DEF UsersInv, NamesUnique
<1>5. \A i \in Existing : Store!NameFree(ContentOf[i], i)
  BY <1>2, <1>4 DEF Store!NameFree, UserNameOf
<1> QED BY <1>2, <1>3, <1>5 DEF Store!StoreInit

\* A row stored, or removed, is a step of the store.
LEMMA WriteImplements ==
  ASSUME UsersInv, UsersInv', NEW i \in Id, NEW row,
         users' = [users EXCEPT ![i] = row],
         \/ /\ \/ versions[i] = 0 /\ versions' = [versions EXCEPT ![i] = 1]
               \/ i \in Existing /\ versions' = [versions EXCEPT ![i] = versions[i] + 1]
            /\ row \in User
            /\ \A j \in Existing \ {i} : users[j].content.userName # row.content.userName
         \/ i \in Existing /\ row = NoUser /\ UNCHANGED versions
  PROVE  Store!StoreNext
<1>1. \A j \in Id : users'[j] = IF j = i THEN row ELSE users[j]
  BY DEF UsersInv, TypeOK
<1>2. /\ Store!Present = Existing
      /\ \A j \in Existing : ContentOf[j] = users[j].content
  BY PresentIsExisting
<1>3. ContentOf' = [ContentOf EXCEPT ![i] = IF row = NoUser THEN NoUser ELSE row.content]
  <2> DEFINE new == IF row = NoUser THEN NoUser ELSE row.content
  <2>1. \A j \in Id : ContentOf'[j] = IF j = i THEN new ELSE ContentOf[j]
    BY <1>1 DEF ContentOf
  <2>2. DOMAIN ContentOf = Id /\ ContentOf = [j \in Id |-> ContentOf[j]]
    BY DEF ContentOf
  <2>3. ContentOf' = [j \in Id |-> ContentOf'[j]]
    BY DEF ContentOf
  <2> HIDE DEF new
  <2>4. ContentOf' = [j \in Id |-> IF j = i THEN new ELSE ContentOf[j]]
    BY <2>1, <2>3
  <2>5. ContentOf' = [ContentOf EXCEPT ![i] = new]
    BY <2>2, <2>4
  <2> QED BY <2>5 DEF new
<1>4. ContentOf'[i] = IF row = NoUser THEN NoUser ELSE row.content
  BY <1>3 DEF ContentOf
<1>5. Store!Only(i)
  BY <1>3, <1>4 DEF Store!Only
<1>6. ASSUME row \in User,
             \A j \in Existing \ {i} : users[j].content.userName # row.content.userName
      PROVE  ContentOf'[i] \in Content /\ Store!NameFree(ContentOf'[i], i)
  <2>1. ContentOf'[i] = row.content /\ row.content \in Content
    BY <1>4, <1>6, FirstUsersAssumption DEF User
  <2> QED BY <2>1, <1>2, <1>6 DEF Store!NameFree, UserNameOf
<1>7. CASE i \in Existing /\ row = NoUser /\ UNCHANGED versions
  <2>1. Store!DeleteResource(i)
    BY <1>2, <1>3, <1>7 DEF Store!DeleteResource
  <2> QED BY <2>1 DEF Store!StoreNext
<1>8. CASE /\ versions[i] = 0 /\ versions' = [versions EXCEPT ![i] = 1] /\ row \in User
           /\ \A j \in Existing \ {i} : users[j].content.userName # row.content.userName
  <2>1. Store!CreateResource(i)
    BY <1>5, <1>6, <1>8 DEF Store!CreateResource
  <2> QED BY <2>1 DEF Store!StoreNext
<1>9. CASE /\ i \in Existing /\ versions' = [versions EXCEPT ![i] = versions[i] + 1]
           /\ row \in User
           /\ \A j \in Existing \ {i} : users[j].content.userName # row.content.userName
  <2>1. Store!ChangeResource(i)
    BY <1>2, <1>5, <1>6, <1>9 DEF Store!ChangeResource
  <2> QED BY <2>1 DEF Store!StoreNext
<1> QED BY <1>7, <1>8, <1>9

\* A write is a step of the store; every other step changes nothing there.
LEMMA StepImplements ==
  UsersInv /\ [Next]_userVars => [Store!StoreNext]_Store!storeVars
<1> SUFFICES ASSUME UsersInv, [Next]_userVars
             PROVE  [Store!StoreNext]_Store!storeVars
  OBVIOUS
<1>0. UsersInv'
  BY UsersNextInv
<1>1. CASE UNCHANGED <<users, versions>>
  BY <1>1 DEF Store!storeVars, ContentOf
<1>2. ASSUME NEW r \in Request, Commit(r), Refusal(r) = 200
      PROVE  Store!StoreNext
  BY <1>0, <1>2, CommitEffect, WriteImplements
<1>3. ASSUME NEW r \in Request, Commit(r), Refusal(r) # 200
      PROVE  UNCHANGED <<users, versions>>
  BY <1>3 DEF Commit
<1>4. ASSUME NEW r \in Request,
             Arrive(r) \/ Find(r) \/ CheckConflict(r) \/ Reply(r) \/ DatabaseFails(r)
      PROVE  UNCHANGED <<users, versions>>
  BY <1>4 DEF Arrive, Find, CheckConflict, Reply, DatabaseFails
<1>5. CASE UNCHANGED userVars
  BY <1>1, <1>5 DEF userVars
<1>6. CASE Next
  BY <1>1, <1>2, <1>3, <1>4, <1>5, <1>6 DEF Next, Done
<1> QED BY <1>5, <1>6

(***************************************************************************)
(* The users of an endpoint are a ResourceStore for any number of          *)
(* concurrent requests, failures of the database included: versions are    *)
(* consecutive, a userName belongs to one user at a time, and a deleted    *)
(* user is never written back.                                             *)
(***************************************************************************)
THEOREM UsersImplementStore == Spec => ImplementsStore
  BY InitImplements, StepImplements, UsersInvariant, PTL DEF Spec, ImplementsStore, Store!StoreSpec

-----------------------------------------------------------------------------
(* What a write without overlap leaves, and what If-Match is worth then.    *)

\* r's update is in the table and no failure has been reported for it.
Written(r) == Updates(r) /\ (pc[r] = "reply" \/ status[r] = 200)

\* "raced" is written at the commit.
UnmarkedBefore ==
    \A r \in Request : pc[r] \in {"idle", "find", "conflict", "commit"} => raced[r] = {}

\* A written id never gets a second create.
WrittenGiven == \A r \in Request : Written(r) => versions[op[r].id] # 0

\* What Shows says, of a request o of r (no variable occurs in it).
ShownBy(o, r, c) ==
    IF o.kind = "replace"
    THEN c = [userName |-> o.userName, active |-> o.active, data |-> [a \in Attr |-> r]]
    ELSE CASE o.path = "userName" -> c.userName = o.value
           [] o.path = "active" -> c.active = o.value
           [] OTHER -> c.data[o.path] = r

\* A write nobody overlapped is in the row and in what later requests found.
WriteStands ==
    \A r \in Request :
        /\ Written(r) /\ raced[r] = {}
        /\ \A q \in Request \ {r} : ~SameTarget(q, r)
        => /\ op[r].id \in Existing => ShownBy(op[r], r, users[op[r].id].content)
           /\ \A q \in Request \ {r} :
                 InWindow(q) /\ Updates(q) /\ op[q].id = op[r].id =>
                     ShownBy(op[r], r, found[q].content)

\* r's If-Match names a version, and no write fell into r's window.
Guarded(r) ==
    /\ config.etag /\ Updates(r) /\ op[r].ifMatch > 0
    /\ \A q \in Request : r \notin raced[q]

\* The row found by such a request is the one it will write over.
MatchStands ==
    \A r \in Request :
        Guarded(r) =>
            /\ pc[r] \in {"conflict", "commit"} =>
                  users[op[r].id] = found[r] /\ found[r].version = op[r].ifMatch
            /\ Written(r) => written[r].version = op[r].ifMatch + 1

OverlapInv == UsersInv /\ UnmarkedBefore /\ WrittenGiven /\ WriteStands /\ MatchStands

LEMMA KindFacts ==
  ASSUME UsersInv, NEW r \in Request
  PROVE  /\ op[r].id \in Id
         /\ op[r].kind \in {"create", "get", "patch", "replace", "delete"}
         /\ op[r].kind \in {"patch", "replace", "delete"} => op[r].ifMatch \in Int
         /\ op[r].kind = "patch" => \/ op[r].path = "userName" /\ op[r].value \in UserName
                                    \/ op[r].path = "active" /\ op[r].value \in BOOLEAN
                                    \/ op[r].path \in Attr \ {"userName", "active"}
BY OperationAssumption DEF UsersInv, TypeOK

LEMMA ShowsIs ==
  ASSUME NEW r, NEW c
  PROVE  Shows(c, r) <=> ShownBy(op[r], r, c)
BY DEF Shows, ShownBy, NewContent

\* What a request writes shows it, and a patch of another attribute hides nothing.
LEMMA ShowsItself ==
  ASSUME UsersInv, NEW r \in Request, Updates(r), found[r] # NoUser
  PROVE  Shows(NewContent(r), r)
<1>1. CASE op[r].kind = "replace"
  BY <1>1 DEF Shows
<1>2. CASE op[r].kind = "patch"
  <2>1. found[r].content \in Content
    BY <1>2 DEF UsersInv, TypeOK, User
  <2>2. NewContent(r) = Patched(r)
    BY <1>2 DEF NewContent
  <2>3. CASE op[r].path = "userName"
    <3>1. Patched(r).userName = op[r].value
      BY <2>1, <2>3 DEF Patched, Content
    <3> QED BY <1>2, <2>2, <2>3, <3>1 DEF Shows
  <2>4. CASE op[r].path = "active"
    <3>1. Patched(r).active = op[r].value
      BY <2>1, <2>4 DEF Patched, Content
    <3> QED BY <1>2, <2>2, <2>4, <3>1 DEF Shows
  <2>5. CASE op[r].path \in Attr \ {"userName", "active"}
    <3>1. Patched(r) = [found[r].content EXCEPT !.data = [found[r].content.data EXCEPT ![op[r].path] = r]]
      BY <2>5 DEF Patched
    <3>2. Patched(r).data[op[r].path] = r
      BY <2>1, <2>5, <3>1 DEF Content
    <3> QED BY <1>2, <2>2, <2>5, <3>2 DEF Shows
  <2> QED BY <1>2, <2>3, <2>4, <2>5, KindFacts
<1> QED BY <1>1, <1>2 DEF Updates

LEMMA ShowsStill ==
  ASSUME UsersInv, NEW r \in Request, NEW q \in Request, Updates(r), Updates(q),
         op[q].id = op[r].id, ~SameTarget(q, r), found[q] # NoUser, Shows(found[q].content, r)
  PROVE  Shows(NewContent(q), r)
<1>1. op[q].kind = "patch" /\ op[r].kind = "patch" /\ op[q].path # op[r].path
  BY DEF SameTarget, Updates
<1>2. found[q].content \in Content
  BY DEF UsersInv, TypeOK, User
<1>3. NewContent(q) = Patched(q)
  BY <1>1 DEF NewContent
<1> DEFINE old == found[q].content
           new == Patched(q)
<1>4. /\ op[r].path # "active" /\ op[r].path # "userName" =>
            new.data[op[r].path] = old.data[op[r].path]
      /\ op[r].path = "active" => new.active = old.active
      /\ op[r].path = "userName" => new.userName = old.userName
  <2>1. CASE op[q].path = "userName"
    <3>1. new = [old EXCEPT !.userName = op[q].value]
      BY <2>1 DEF Patched
    <3> QED BY <1>1, <1>2, <2>1, <3>1 DEF Content
  <2>2. CASE op[q].path = "active"
    <3>1. new = [old EXCEPT !.active = op[q].value]
      BY <2>2 DEF Patched
    <3> QED BY <1>1, <1>2, <2>2, <3>1 DEF Content
  <2>3. CASE op[q].path \in Attr \ {"userName", "active"}
    <3> DEFINE data == [old.data EXCEPT ![op[q].path] = q]
    <3>1. new = [old EXCEPT !.data = data]
      BY <2>3 DEF Patched
    <3>2. old.data \in [Attr -> Request \cup {NoRequest}]
      BY <1>2 DEF Content
    <3>3. op[r].path # "active" /\ op[r].path # "userName" => op[r].path \in Attr
      BY <1>1, KindFacts
    <3>4. op[r].path # "active" /\ op[r].path # "userName" =>
              data[op[r].path] = old.data[op[r].path]
      BY <1>1, <3>2, <3>3
    <3> HIDE DEF data
    <3>5. new.data = data /\ new.active = old.active /\ new.userName = old.userName
      BY <1>2, <3>1 DEF Content
    <3> QED BY <3>4, <3>5
  <2> QED BY <1>1, <2>1, <2>2, <2>3, KindFacts
<1> HIDE DEF new
<1>5. CASE op[r].path = "userName"
  BY <1>1, <1>3, <1>4, <1>5 DEF Shows, new
<1>6. CASE op[r].path = "active"
  BY <1>1, <1>3, <1>4, <1>6 DEF Shows, new
<1>7. CASE op[r].path # "active" /\ op[r].path # "userName"
  BY <1>1, <1>3, <1>4, <1>7 DEF Shows, new
<1> QED BY <1>5, <1>6, <1>7

Early == {"idle", "find", "conflict", "commit"}

LEMMA OverlapInit == Init => OverlapInv
<1> SUFFICES ASSUME Init PROVE OverlapInv
  OBVIOUS
<1>1. UsersInv
  BY UsersInitInv
<1>2. \A r \in Request : ~Written(r) /\ pc[r] = "idle" /\ raced[r] = {}
  BY DEF Init, Written
<1> QED
  BY <1>1, <1>2 DEF OverlapInv, UnmarkedBefore, WrittenGiven, WriteStands, MatchStands

\* A step that writes no row: a request comes to its window with the row as it
\* is, at the version its If-Match names.
LEMMA QuietKeepsOverlap ==
  ASSUME OverlapInv, UsersInv', UNCHANGED <<users, versions, op, config, raced, written>>,
         \A q \in Request : Written(q)' => Written(q),
         \A q \in Request : pc'[q] \in Early => pc[q] \in Early,
         \A q \in Request : pc'[q] \in {"conflict", "commit"} =>
            \/ op[q].kind = "create"
            \/ pc[q] \in {"conflict", "commit"} /\ found'[q] = found[q]
            \/ /\ found'[q] = users[op[q].id] /\ op[q].id \in Existing
               /\ config.etag /\ Updates(q) /\ op[q].ifMatch > 0 =>
                     found'[q].version = op[q].ifMatch
  PROVE  OverlapInv'
<1>1. UnmarkedBefore' /\ WrittenGiven'
  <2>1. UnmarkedBefore'
    BY DEF OverlapInv, UnmarkedBefore, Early
  <2>2. WrittenGiven'
    BY DEF OverlapInv, WrittenGiven
  <2> QED BY <2>1, <2>2
<1>2. WriteStands'
  <2> SUFFICES ASSUME NEW r \in Request, Written(r)', raced[r] = {},
                      \A q \in Request \ {r} : ~SameTarget(q, r)
               PROVE  /\ op[r].id \in Existing => ShownBy(op[r], r, users[op[r].id].content)
                      /\ \A q \in Request \ {r} :
                            InWindow(q)' /\ Updates(q) /\ op[q].id = op[r].id =>
                                ShownBy(op[r], r, found'[q].content)
    BY DEF WriteStands, SameTarget, Updates, Existing
  <2>1. /\ op[r].id \in Existing => ShownBy(op[r], r, users[op[r].id].content)
        /\ \A q \in Request \ {r} :
              InWindow(q) /\ Updates(q) /\ op[q].id = op[r].id => ShownBy(op[r], r, found[q].content)
    BY DEF OverlapInv, WriteStands
  <2>2. ASSUME NEW q \in Request \ {r}, InWindow(q)', Updates(q), op[q].id = op[r].id
        PROVE  ShownBy(op[r], r, found'[q].content)
    <3>1. pc'[q] \in {"conflict", "commit"} /\ op[q].kind # "create"
      BY <2>2 DEF InWindow
    <3>2. CASE pc[q] \in {"conflict", "commit"} /\ found'[q] = found[q]
      BY <2>1, <2>2, <3>1, <3>2 DEF InWindow
    <3>3. CASE found'[q] = users[op[q].id] /\ op[q].id \in Existing
      BY <2>1, <2>2, <3>3
    <3> QED BY <3>1, <3>2, <3>3
  <2> QED BY <2>1, <2>2
<1>3. MatchStands'
  <2> SUFFICES ASSUME NEW r \in Request, Guarded(r)
               PROVE  /\ pc'[r] \in {"conflict", "commit"} =>
                            users[op[r].id] = found'[r] /\ found'[r].version = op[r].ifMatch
                      /\ Written(r)' => written[r].version = op[r].ifMatch + 1
    BY DEF MatchStands, Guarded, Updates
  <2>1. /\ pc[r] \in {"conflict", "commit"} =>
              users[op[r].id] = found[r] /\ found[r].version = op[r].ifMatch
        /\ Written(r) => written[r].version = op[r].ifMatch + 1
    BY DEF OverlapInv, MatchStands
  <2> QED BY <2>1 DEF Guarded, Updates
<1> QED BY <1>1, <1>2, <1>3 DEF OverlapInv

LEMMA ReadStepKeepsOverlap ==
  ASSUME OverlapInv, NEW r \in Request,
         Arrive(r) \/ Find(r) \/ CheckConflict(r) \/ Reply(r) \/ DatabaseFails(r)
  PROVE  OverlapInv'
<1>1. UNCHANGED <<users, versions, op, config, raced, written>> /\ UsersInv /\ UsersInv'
  BY ReadStepKeepsInv DEF OverlapInv, Arrive, Find, CheckConflict, Reply, DatabaseFails
<1>2. /\ pc \in [Request -> {"idle", "find", "conflict", "commit", "reply", "done"}]
      /\ status \in [Request -> {0, 200, 400, 404, 409, 412, 428, 500}]
      /\ found \in [Request -> User \cup {NoUser}]
  BY <1>1 DEF UsersInv, TypeOK
<1>3. CASE Arrive(r)
  <2>1. /\ pc[r] = "idle" /\ UNCHANGED <<status, found>>
        /\ pc' = [pc EXCEPT ![r] = IF op[r].kind = "create" THEN "conflict" ELSE "find"]
    BY <1>3 DEF Arrive, Goto
  <2>2. \A q \in Request : Written(q)' => Written(q)
    BY <1>1, <1>2, <2>1 DEF Written, Updates
  <2> QED BY <1>1, <1>2, <2>1, <2>2, QuietKeepsOverlap DEF Early
<1>4. CASE Find(r)
  <2> DEFINE row == users[op[r].id]
  <2>1. pc[r] = "find" /\ found' = [found EXCEPT ![r] = row]
    BY <1>4 DEF Find
  <2>2. \/ \E code : /\ pc' = [pc EXCEPT ![r] = "done"] /\ status' = [status EXCEPT ![r] = code]
                     /\ code = 200 => op[r].kind = "get"
        \/ /\ row # NoUser /\ StatusAfterFind(r, row) = 200 /\ UNCHANGED status
           /\ pc' = [pc EXCEPT ![r] = IF op[r].kind = "delete" THEN "commit" ELSE "conflict"]
    BY <1>4 DEF Find, Answer, Goto
  <2>3. ASSUME row # NoUser, StatusAfterFind(r, row) = 200, config.etag, Updates(r), op[r].ifMatch > 0
        PROVE  row.version = op[r].ifMatch
    <3>1. IfMatchStatus(op[r].ifMatch, row.version) = 200
      BY <2>3 DEF StatusAfterFind, Updates
    <3>2. op[r].ifMatch # NoIfMatch /\ op[r].ifMatch # AnyVersion
      BY <1>1, <2>3, KindFacts DEF NoIfMatch, AnyVersion, Updates
    <3> QED BY <2>3, <3>1, <3>2 DEF IfMatchStatus
  <2>4. \A q \in Request : Written(q)' => Written(q)
    BY <1>1, <1>2, <2>1, <2>2 DEF Written, Updates
  <2>5. row # NoUser => op[r].id \in Existing
    BY <1>1, KindFacts DEF Existing
  <2> HIDE DEF row
  <2>6. found'[r] = row /\ \A q \in Request \ {r} : found'[q] = found[q]
    BY <1>2, <2>1
  <2>7. ASSUME NEW q \in Request, pc'[q] \in {"conflict", "commit"}
        PROVE  \/ op[q].kind = "create"
               \/ pc[q] \in {"conflict", "commit"} /\ found'[q] = found[q]
               \/ /\ found'[q] = users[op[q].id] /\ op[q].id \in Existing
                  /\ config.etag /\ Updates(q) /\ op[q].ifMatch > 0 =>
                        found'[q].version = op[q].ifMatch
    <3>1. CASE q # r
      BY <1>2, <2>2, <2>6, <2>7, <3>1
    <3>2. CASE q = r
      <4>1. row # NoUser /\ StatusAfterFind(r, row) = 200
        BY <1>2, <2>2, <2>7, <3>2
      <4> QED BY <2>3, <2>5, <2>6, <3>2, <4>1 DEF row
    <3> QED BY <3>1, <3>2
  <2>8. \A q \in Request : pc'[q] \in Early => pc[q] \in Early
    BY <1>2, <2>1, <2>2 DEF Early
  <2> QED BY <1>1, <2>4, <2>7, <2>8, QuietKeepsOverlap
<1>5. CASE CheckConflict(r)
  <2>1. /\ pc[r] = "conflict" /\ UNCHANGED found
        /\ \/ pc' = [pc EXCEPT ![r] = "done"] /\ status' = [status EXCEPT ![r] = 409]
           \/ pc' = [pc EXCEPT ![r] = "commit"] /\ UNCHANGED status
    BY <1>5 DEF CheckConflict, Answer, Goto
  <2>2. \A q \in Request : Written(q)' => Written(q)
    BY <1>1, <1>2, <2>1 DEF Written, Updates
  <2> QED BY <1>1, <1>2, <2>1, <2>2, QuietKeepsOverlap DEF Early
<1>6. CASE Reply(r)
  <2>1. /\ pc[r] = "reply" /\ UNCHANGED found
        /\ pc' = [pc EXCEPT ![r] = "done"] /\ status' = [status EXCEPT ![r] = 200]
    BY <1>6 DEF Reply, Answer
  <2>2. \A q \in Request : Written(q)' => Written(q)
    BY <1>1, <1>2, <2>1 DEF Written, Updates
  <2> QED BY <1>1, <1>2, <2>1, <2>2, QuietKeepsOverlap DEF Early
<1>7. CASE DatabaseFails(r)
  <2>1. /\ UNCHANGED found
        /\ pc' = [pc EXCEPT ![r] = "done"] /\ status' = [status EXCEPT ![r] = 500]
    BY <1>7 DEF DatabaseFails, Answer
  <2>2. \A q \in Request : Written(q)' => Written(q)
    BY <1>1, <1>2, <2>1 DEF Written, Updates
  <2> QED BY <1>1, <1>2, <2>1, <2>2, QuietKeepsOverlap DEF Early
<1> QED BY <1>3, <1>4, <1>5, <1>6, <1>7

\* An accepted write of r: who had read the row is in raced[r], everybody else
\* finds r's change.
LEMMA WriteKeepsOverlap ==
  ASSUME OverlapInv, NEW r \in Request, Commit(r), Refusal(r) = 200
  PROVE  OverlapInv'
<1> DEFINE i == op[r].id
           row == RowAfter(r)
           others == {q \in Request \ {r} : InWindow(q) /\ op[q].id = i}
<1>1. UsersInv /\ UsersInv' /\ pc[r] = "commit" /\ UNCHANGED <<config, op, found, status>>
  BY CommitKeepsInv DEF OverlapInv, Commit, Goto
<1>2. /\ pc \in [Request -> {"idle", "find", "conflict", "commit", "reply", "done"}]
      /\ users \in [Id -> User \cup {NoUser}] /\ versions \in [Id -> Nat]
      /\ written \in [Request -> User \cup {NoUser}] /\ raced \in [Request -> SUBSET Request]
  BY <1>1 DEF UsersInv, TypeOK
<1>3. /\ users' = [users EXCEPT ![i] = row] /\ written' = [written EXCEPT ![r] = row]
      /\ raced' = [raced EXCEPT ![r] = others] /\ pc' = [pc EXCEPT ![r] = "reply"]
  BY DEF Commit, Goto
<1>4. /\ i \in Id
      /\ \/ op[r].kind = "create" /\ versions[i] = 0 /\ versions' = [versions EXCEPT ![i] = 1]
         \/ /\ Updates(r) /\ i \in Existing /\ row.version = versions[i] + 1
            /\ versions' = [versions EXCEPT ![i] = versions[i] + 1]
         \/ op[r].kind = "delete" /\ row = NoUser /\ UNCHANGED versions
  BY <1>1, CommitEffect DEF Updates
<1>5. Updates(r) => /\ row = [version |-> users[i].version + 1, content |-> NewContent(r)]
                    /\ found[r] # NoUser
  BY <1>1 DEF RowAfter, Updates, UsersInv, FoundRow
<1> HIDE DEF row, others
<1>6. /\ \A q \in Request \ {r} : /\ Written(q)' <=> Written(q)
                                  /\ pc'[q] = pc[q] /\ raced'[q] = raced[q]
                                  /\ written'[q] = written[q]
      /\ pc'[r] = "reply" /\ raced'[r] = others /\ written'[r] = row
      /\ users'[i] = row /\ \A j \in Id \ {i} : users'[j] = users[j]
  BY <1>1, <1>2, <1>3, <1>4 DEF Written, Updates
<1>7. UnmarkedBefore'
  BY <1>6 DEF OverlapInv, UnmarkedBefore
<1>8. WrittenGiven'
  <2>1. \A j \in Id : versions[j] # 0 => versions'[j] # 0
    BY <1>2, <1>4
  <2>2. Updates(r) => versions'[i] # 0
    BY <1>2, <1>4 DEF Updates
  <2> QED BY <1>1, <1>6, <2>1, <2>2, KindFacts DEF OverlapInv, WrittenGiven, Written, Updates
<1>9. WriteStands'
  <2> SUFFICES ASSUME NEW q \in Request, Written(q)', raced'[q] = {},
                      \A p \in Request \ {q} : ~SameTarget(p, q)
               PROVE  /\ op[q].id \in Id /\ users'[op[q].id] # NoUser =>
                            ShownBy(op[q], q, users'[op[q].id].content)
                      /\ \A p \in Request \ {q} :
                            InWindow(p)' /\ Updates(p) /\ op[p].id = op[q].id =>
                                ShownBy(op[q], q, found[p].content)
    BY <1>1 DEF WriteStands, SameTarget, Updates, Existing
  <2>1. CASE q = r
    <3>1. Updates(r) /\ ShownBy(op[r], r, NewContent(r))
      BY <1>1, <1>5, <2>1, ShowsItself, ShowsIs DEF Written, Updates
    <3>2. ASSUME NEW p \in Request \ {q}, InWindow(p)', op[p].id = op[q].id
          PROVE  FALSE
      <4>1. p \in others
        BY <1>1, <1>6, <2>1, <3>2 DEF others, InWindow
      <4> QED BY <1>6, <2>1, <4>1
    <3> QED BY <1>5, <1>6, <2>1, <3>1, <3>2
  <2>2. CASE q # r
    <3>1. /\ Written(q) /\ raced[q] = {} /\ op[q].id \in Id /\ Updates(q)
          /\ versions[op[q].id] # 0
      BY <1>1, <1>6, <2>2, KindFacts DEF OverlapInv, WrittenGiven, Written
    <3>2. /\ op[q].id \in Existing => ShownBy(op[q], q, users[op[q].id].content)
          /\ \A p \in Request \ {q} :
                InWindow(p) /\ Updates(p) /\ op[p].id = op[q].id => ShownBy(op[q], q, found[p].content)
      BY <3>1 DEF OverlapInv, WriteStands
    <3>3. ASSUME NEW p \in Request \ {q}, InWindow(p)', Updates(p), op[p].id = op[q].id
          PROVE  ShownBy(op[q], q, found[p].content)
      <4>1. InWindow(p)
        BY <1>1, <1>6, <3>3 DEF InWindow
      <4> QED BY <3>2, <3>3, <4>1
    <3>4. ASSUME users'[op[q].id] # NoUser
          PROVE  ShownBy(op[q], q, users'[op[q].id].content)
      <4>1. CASE op[q].id # i
        BY <1>6, <3>1, <3>2, <3>4, <4>1 DEF Existing
      <4>2. CASE op[q].id = i
        <5>1. Updates(r)
          BY <1>4, <1>6, <3>1, <3>4, <4>2
        <5>2. InWindow(r)
          BY <1>1, <5>1 DEF InWindow, Updates
        <5>3. ShownBy(op[q], q, found[r].content) /\ ~SameTarget(r, q)
          BY <2>2, <3>2, <4>2, <5>1, <5>2
        <5>4. ShownBy(op[q], q, NewContent(r))
          BY <1>1, <1>5, <3>1, <4>2, <5>1, <5>3, ShowsStill, ShowsIs
        <5> QED BY <1>5, <1>6, <4>2, <5>1, <5>4
      <4> QED BY <4>1, <4>2
    <3> QED BY <3>3, <3>4
  <2> QED BY <2>1, <2>2
<1>10. MatchStands'
  <2> SUFFICES ASSUME NEW q \in Request, Guarded(q)'
               PROVE  /\ pc'[q] \in {"conflict", "commit"} =>
                            users'[op[q].id] = found[q] /\ found[q].version = op[q].ifMatch
                      /\ Written(q)' => written'[q].version = op[q].ifMatch + 1
    BY <1>1 DEF MatchStands
  <2>1. Guarded(q)
    <3>1. raced[r] = {}
      BY <1>1 DEF OverlapInv, UnmarkedBefore
    <3> QED BY <1>1, <1>6, <3>1 DEF Guarded, Updates
  <2>2. /\ pc[q] \in {"conflict", "commit"} =>
              users[op[q].id] = found[q] /\ found[q].version = op[q].ifMatch
        /\ Written(q) => written[q].version = op[q].ifMatch + 1
    BY <2>1 DEF OverlapInv, MatchStands
  <2>3. CASE q = r
    <3>1. row.version = op[q].ifMatch + 1
      BY <1>1, <1>5, <2>1, <2>2, <2>3 DEF Guarded
    <3> QED BY <1>6, <2>3, <3>1
  <2>4. CASE q # r
    <3>1. ASSUME pc'[q] \in {"conflict", "commit"}
          PROVE  users'[op[q].id] = found[q] /\ found[q].version = op[q].ifMatch
      <4>1. pc[q] \in {"conflict", "commit"} /\ q \notin others /\ op[q].id \in Id
        BY <1>1, <1>6, <2>4, <3>1, KindFacts DEF Guarded
      <4>2. op[q].id # i
        BY <2>1, <2>4, <4>1 DEF others, InWindow, Guarded, Updates
      <4> QED BY <1>6, <2>2, <4>1, <4>2
    <3> QED BY <1>6, <2>2, <2>4, <3>1
  <2> QED BY <2>3, <2>4
<1> QED BY <1>1, <1>7, <1>8, <1>9, <1>10 DEF OverlapInv

LEMMA OverlapNext == OverlapInv /\ [Next]_userVars => OverlapInv'
<1> SUFFICES ASSUME OverlapInv, [Next]_userVars PROVE OverlapInv'
  OBVIOUS
<1>1. ASSUME NEW r \in Request,
             Arrive(r) \/ Find(r) \/ CheckConflict(r) \/ Reply(r) \/ DatabaseFails(r)
      PROVE  OverlapInv'
  BY <1>1, ReadStepKeepsOverlap
<1>2. ASSUME NEW r \in Request, Commit(r), Refusal(r) = 200
      PROVE  OverlapInv'
  BY <1>2, WriteKeepsOverlap
<1>3. ASSUME NEW r \in Request, Commit(r), Refusal(r) # 200
      PROVE  OverlapInv'
  <2>1. /\ UsersInv /\ UsersInv'
        /\ UNCHANGED <<users, versions, op, config, raced, written, found>>
        /\ pc' = [pc EXCEPT ![r] = "done"] /\ status' = [status EXCEPT ![r] = Refusal(r)]
    BY <1>3, CommitKeepsInv DEF OverlapInv, Commit, Answer
  <2>2. /\ pc \in [Request -> {"idle", "find", "conflict", "commit", "reply", "done"}]
        /\ status \in [Request -> {0, 200, 400, 404, 409, 412, 428, 500}]
    BY <2>1 DEF UsersInv, TypeOK
  <2>3. \A q \in Request : Written(q)' => Written(q)
    BY <1>3, <2>1, <2>2 DEF Written, Updates
  <2> QED BY <2>1, <2>2, <2>3, QuietKeepsOverlap DEF Early
<1>4. CASE UNCHANGED userVars
  <2>1. UNCHANGED <<users, versions, op, config, raced, written, found, pc, status>> /\ UsersInv'
    BY <1>4, UsersNextInv DEF OverlapInv, userVars
  <2>2. \A q \in Request : Written(q)' => Written(q)
    BY <2>1 DEF Written, Updates
  <2> QED BY <2>1, <2>2, QuietKeepsOverlap
<1> QED BY <1>1, <1>2, <1>3, <1>4 DEF Next, Done

\* What a write without overlap leaves, in every state of every execution.
THEOREM OverlapInvariant == Spec => []OverlapInv
  BY OverlapInit, OverlapNext, PTL DEF Spec

\* An acknowledged PATCH or PUT is lost only to a request that had read the row
\* before: the services write every column back as they found it.
THEOREM NoUpdateIsLost == Spec => []NoLossWithoutOverlap
<1>1. OverlapInv => NoLossWithoutOverlap
  BY ShowsIs DEF OverlapInv, WriteStands, Written, Acked, NoLossWithoutOverlap
<1> QED BY <1>1, OverlapInvariant, PTL

\* If-Match is compared before the write; a write it lets through is made on the
\* version it names unless another one came between.
THEOREM IfMatchHolds == Spec => []IfMatchHoldsUnlessOverlapped
<1>1. OverlapInv => IfMatchHoldsUnlessOverlapped
  BY DEF OverlapInv, MatchStands, Guarded, Written, Acked, IfMatchHoldsUnlessOverlapped
<1> QED BY <1>1, OverlapInvariant, PTL

=============================================================================
