---------------------------- MODULE BulkProcessor ----------------------------
(***************************************************************************)
(* Bulk requests (bulk-processor.service.ts) over the users and groups of  *)
(* one endpoint. The operations of a request run one after the other, each *)
(* through the service that a request of its own would use, and each ends  *)
(* with a result; after as many errors as the client allows the rest is    *)
(* not run. A POST may give its resource a bulkId, by which later          *)
(* operations refer to it. Nothing is undone, and between two queries any  *)
(* query of another request may run.                                       *)
(*                                                                         *)
(* One action is one query with the code behind it. A resource is named    *)
(* after the operation that created it, <<bulk, index>>. A member is the   *)
(* id of a resource, or a bulkId that was stored as it came. Names stand   *)
(* for userName and displayName, case-folded. Hard deletes are enabled and *)
(* payloads are valid.                                                     *)
(***************************************************************************)
EXTENDS GroupPatchEngine

CONSTANTS
    Bulk,        \* the requests
    First,       \* the resources that exist at the start
    FirstRows,   \* their rows
    Plan,        \* what may be asked for: sequences of operations
    Length,      \* of the longest
    Limit,       \* values of failOnErrors
    BulkId,
    Name,
    Config,      \* configurations of the endpoint
    MaxFailures, \* bound: how many queries are answered with an error
    None

Id == First \cup (Bulk \X (1..Length))
Ref == Id \cup BulkId
Kind == {"user", "group"}
Version == Nat \ {0}

\* What an operation names: resources by their id, those of the request by
\* their bulkId.
Named == First \cup BulkId

\* A member is a link too when it is a user's id. A draft is what a request
\* makes of a resource before it is written. The type of an operation may also
\* be one that no endpoint serves.
Draft == [ok : BOOLEAN, name : Name, members : SUBSET Ref]
Row == [type : Kind, version : Version, name : Name, members : SUBSET Ref, links : SUBSET Id]
PatchOperation(ref) ==
    [op : {"add", "remove", "replace"}, path : STRING,
     form : {"list", "single", "string", "object", "null", "none"},
     value : SUBSET ref, target : ref \cup {None}, name : Name, has : SUBSET {"displayName", "members"}]
Operation(ref) ==
    [method : {"POST", "PUT", "PATCH", "DELETE"}, type : STRING, target : ref \cup {None},
     bulkId : BulkId \cup {None}, match : Version \cup {None}, data : BOOLEAN, name : Name,
     members : SUBSET ref, patch : Seq(PatchOperation(ref))]

\* An id is given to a resource once, and no id reads like a bulkId.
ASSUME PlanAssumption ==
    /\ \A plan \in Plan : plan \in Seq(Operation(Named)) /\ Len(plan) \in 1..Length
    /\ FirstRows \in [First -> Row]
    /\ Limit \subseteq Nat /\ Length \in Nat /\ MaxFailures \in Nat
    /\ BulkId \cap Id = {} /\ First \cap (Bulk \X (1..Length)) = {}
    /\ None \notin Ref \cup Name \cup Row \cup Draft \cup Operation(Ref)

VARIABLES
    rows,     \* the table: version, name, members and their links by resource
    config,   \* of the endpoint: the types it serves, multiAdd, multiRemove, removeAll
    req,      \* the requests
    failures,
    gone,     \* history: the resources that were deleted
    half      \* history: those whose create inserted them and ended in an error

vars == <<rows, config, req, failures, gone, half>>

\* A request between two operations.
Rest == [left |-> <<>>, op |-> None, found |-> None, listed |-> {}, new |-> None, linked |-> {}]

Ask(plan, limit) ==
    [ops |-> plan, limit |-> limit, results |-> <<>>, ids |-> [x \in BulkId |-> None], cur |-> Rest]

Init ==
    /\ rows = [i \in Id |-> IF i \in First THEN FirstRows[i] ELSE None]
    /\ config \in Config
    /\ req \in [Bulk -> {Ask(plan, limit) : plan \in Plan, limit \in Limit}]
    /\ failures = 0 /\ gone = {} /\ half = {}

Users == {i \in Id : rows[i] # None /\ rows[i].type = "user"}
NameTaken(type, name, exclude) ==
    \E i \in Id \ {exclude} : rows[i] # None /\ rows[i].type = type /\ rows[i].name = name

-----------------------------------------------------------------------------
(* The loop                                                                 *)

Errors(q) == Cardinality({i \in DOMAIN q.results : q.results[i] = "error"})

\* Mutant: one error more than the client allows.
Stopped_Late(q) == q.limit > 0 /\ Errors(q) > q.limit

Stopped(q) == q.limit > 0 /\ Errors(q) >= q.limit

Index(q) == Len(q.results) + 1
Working(q) == q.cur.op # None
Over(q) == ~Working(q) /\ (Index(q) > Len(q.ops) \/ Stopped(q))

\* resolveBulkIdInString: the id, or the text as it is when it is no reference.
Resolved(q, x) == IF x \in BulkId /\ q.ids[x] # None THEN q.ids[x] ELSE x

\* References that resolve: those in a path have to; those in the data only
\* when some operation of the request has set a bulkId.
PathResolves(q, o) == Resolved(q, o.target) \notin BulkId
Mentions(o) == o.members \cup UNION {o.patch[i].value \cup ({o.patch[i].target} \ {None}) : i \in DOMAIN o.patch}
DataResolves(q, o) ==
    \/ \A x \in BulkId : q.ids[x] = None
    \/ \A x \in Mentions(o) : Resolved(q, x) \notin BulkId

\* resolveBulkIdInData
WithReferences(q, o) ==
    LET Those(xs) == {Resolved(q, x) : x \in xs}
        InPatch(p) == [p EXCEPT !.value = Those(@), !.target = Resolved(q, @)] IN
    [o EXCEPT !.target = Resolved(q, @), !.members = Those(@),
              !.patch = [i \in DOMAIN o.patch |-> InPatch(o.patch[i])]]

\* validateMethodPathConsistency, the types the endpoint serves, and the data
\* every method but DELETE needs.
Valid(o) ==
    /\ o.method = "POST" <=> o.target = None
    /\ o.type \in Kind \cap config.served
    /\ o.method # "DELETE" => o.data

\* The queries of each operation, in the order of the services.
Queries(o) ==
    CASE o.method = "POST" /\ o.type = "user" -> <<"conflict", "insert">>
      [] o.method = "POST" /\ o.type = "group" ->
            <<"conflict", "insert", "resolve", "members", "reply">>
      [] o.method \in {"PUT", "PATCH"} /\ o.type = "user" -> <<"find", "conflict", "update">>
      [] o.method \in {"PUT", "PATCH"} /\ o.type = "group" ->
            <<"find", "listed", "conflict", "resolve", "update", "reply">>
      [] o.method = "DELETE" -> <<"find", "delete">>

\* Mutant: a bulkId is known as soon as its operation has run.
Ended_AnyResult(b, result) ==
    LET q == req[b] IN
    [q EXCEPT !.results = Append(@, result), !.cur = Rest,
              !.ids = IF q.cur.op # None /\ q.cur.op.method = "POST" /\ q.cur.op.bulkId # None
                      THEN [@ EXCEPT ![q.cur.op.bulkId] = <<b, Index(q)>>] ELSE @]

\* The operation ends with its result; a POST that succeeded sets its bulkId.
Ended(b, result) ==
    LET q == req[b] IN
    [q EXCEPT !.results = Append(@, result), !.cur = Rest,
              !.ids = IF result = "ok" /\ q.cur.op.method = "POST" /\ q.cur.op.bulkId # None
                      THEN [@ EXCEPT ![q.cur.op.bulkId] = <<b, Index(q)>>] ELSE @]

\* executeOperation up to its first query, or its catch.
Begin(b) ==
    LET q == req[b]
        o == q.ops[Index(q)] IN
    /\ ~Working(q) /\ ~Over(q)
    /\ req' = [req EXCEPT ![b] =
           IF PathResolves(q, o) /\ DataResolves(q, o) /\ Valid(o)
           THEN [q EXCEPT !.cur.op = WithReferences(q, o), !.cur.left = Queries(o)]
           ELSE Ended(b, "error")]
    /\ UNCHANGED <<rows, config, failures, gone, half>>
-----------------------------------------------------------------------------
(* The services                                                             *)

At(b, query) == Working(req[b]) /\ Head(req[b].cur.left) = query

\* The resource an operation is about.
About(b) ==
    IF req[b].cur.op.method = "POST" THEN <<b, Index(req[b])>> ELSE req[b].cur.op.target

\* How a query may end: answered; not executed; executed, but the answer is
\* an error.
Outcome == {"answered", "failed", "lost"}
Ends(o) ==
    /\ o # "answered" => failures < MaxFailures
    /\ failures' = IF o = "answered" THEN failures ELSE failures + 1

\* The operation goes on behind its query, with what it keeps, or has ended.
GoOn(b, cur) ==
    req' = [req EXCEPT ![b] = IF Len(cur.left) = 1 THEN Ended(b, "ok")
                              ELSE [@ EXCEPT !.cur = [cur EXCEPT !.left = Tail(cur.left)]]]

\* It ends with an error; what a create inserted stays.
Fail(b) ==
    /\ req' = [req EXCEPT ![b] = Ended(b, "error")]
    /\ half' = IF req[b].cur.op.method = "POST" /\ rows'[About(b)] # None
               THEN half \cup {About(b)} ELSE half

\* A query that only reads: when it is answered the operation goes on if it may.
Reads(b, may, cur) ==
    /\ UNCHANGED <<rows, config, gone>>
    /\ \E o \in {"answered", "failed"} :
        /\ Ends(o)
        /\ IF o = "answered" /\ may THEN GoOn(b, cur) /\ UNCHANGED half ELSE Fail(b)

\* enforceIfMatch, where the client sends a version.
Matches(o, row) == o.match \in {None, row.version}

\* A group to be changed is read in two queries; If-Match is asked for after
\* the second.
Find(b) ==
    LET cur == req[b].cur
        row == rows[About(b)]
        twice == cur.op.type = "group" /\ cur.op.method # "DELETE" IN
    /\ At(b, "find")
    /\ Reads(b, row # None /\ row.type = cur.op.type /\ (twice \/ Matches(cur.op, row)),
             [cur EXCEPT !.found = row])

\* What the body of a request says by itself.
Body(o) == [ok |-> TRUE, name |-> o.name, members |-> o.members]

\* The members are read, and a PATCH is applied to the group.
Listed(b) ==
    LET cur == req[b].cur
        listed == IF rows[About(b)] = None THEN {} ELSE rows[About(b)].members
        new == IF cur.op.method = "PUT" THEN Body(cur.op)
               ELSE Patched(cur.op.patch, cur.found.name, listed, config) IN
    /\ At(b, "listed")
    /\ Reads(b, Matches(cur.op, cur.found) /\ new.ok, [cur EXCEPT !.listed = listed, !.new = new])

\* assertUniqueUserNameForEndpoint, assertUniqueDisplayName. No members of a
\* group, no query for them.
Conflict(b) ==
    LET cur == req[b].cur
        new == IF cur.new = None THEN Body(cur.op) ELSE cur.new
        write == IF cur.op.method = "POST" THEN "insert" ELSE "update"
        left == IF cur.op.type = "group" /\ new.members = {} THEN <<"conflict", write, "reply">>
                ELSE cur.left IN
    /\ At(b, "conflict")
    /\ Reads(b, ~NameTaken(cur.op.type, new.name, About(b)), [cur EXCEPT !.new = new, !.left = left])

\* resolveMemberInputs
Resolve(b) ==
    LET cur == req[b].cur IN
    /\ At(b, "resolve")
    /\ Reads(b, TRUE, [cur EXCEPT !.linked = cur.new.members \cap Users])

\* The group is read again for the answer.
Reply(b) == At(b, "reply") /\ Reads(b, rows[About(b)] # None, req[b].cur)

\* Mutant: the error of a write is swallowed.
Writes_Swallowed(b, accepted, newRows) ==
    /\ \E o \in Outcome :
        /\ Ends(o)
        /\ rows' = IF accepted /\ o # "failed" THEN newRows ELSE rows
        /\ GoOn(b, req[b].cur)
    /\ UNCHANGED <<config, half>>

\* A query that writes, unless the database refuses it.
Writes(b, accepted, newRows) ==
    /\ \E o \in Outcome :
        /\ Ends(o)
        /\ rows' = IF accepted /\ o # "failed" THEN newRows ELSE rows
        /\ IF o = "answered" /\ accepted THEN GoOn(b, req[b].cur) /\ UNCHANGED half ELSE Fail(b)
    /\ UNCHANGED config

NewRow(b) ==
    LET cur == req[b].cur IN
    [type |-> cur.op.type, version |-> 1, name |-> cur.new.name, members |-> {}, links |-> {}]

\* userName has a unique index, displayName has not.
IndexRefuses(b) ==
    req[b].cur.op.type = "user" /\ NameTaken("user", req[b].cur.new.name, About(b))

\* create
Insert(b) ==
    /\ At(b, "insert")
    /\ Writes(b, ~IndexRefuses(b), [rows EXCEPT ![About(b)] = NewRow(b)])
    /\ UNCHANGED gone

\* addMembers, refused when the group or a user it links is gone.
AddMembers(b) ==
    LET cur == req[b].cur IN
    /\ At(b, "members")
    /\ Writes(b, rows[About(b)] # None /\ cur.linked \subseteq Users,
              [rows EXCEPT ![About(b)].members = cur.new.members, ![About(b)].links = cur.linked])
    /\ UNCHANGED gone

\* update, updateGroupWithMembers
Update(b) ==
    LET cur == req[b].cur IN
    /\ At(b, "update")
    /\ Writes(b, rows[About(b)] # None /\ ~IndexRefuses(b) /\ cur.linked \subseteq Users,
              [rows EXCEPT ![About(b)].version = @ + 1, ![About(b)].name = cur.new.name,
                           ![About(b)].members = cur.new.members, ![About(b)].links = cur.linked])
    /\ UNCHANGED gone

\* delete; the links to a user are cleared.
Delete(b) ==
    /\ At(b, "delete")
    /\ Writes(b, rows[About(b)] # None,
              [i \in Id |-> CASE i = About(b) \/ rows[i] = None -> None
                              [] OTHER -> [rows[i] EXCEPT !.links = @ \ {About(b)}]])
    /\ gone' = IF rows'[About(b)] = None THEN gone \cup {About(b)} ELSE gone

\* Every request has been answered.
Done == (\A b \in Bulk : Over(req[b])) /\ UNCHANGED vars

Step(b) ==
    \/ Begin(b) \/ Find(b) \/ Listed(b) \/ Conflict(b) \/ Resolve(b) \/ Reply(b)
    \/ Insert(b) \/ AddMembers(b) \/ Update(b) \/ Delete(b)

Next == Done \/ \E b \in Bulk : Step(b)

Spec == Init /\ [][Next]_vars

-----------------------------------------------------------------------------
(* Properties                                                               *)

\* What x refers to in the i-th operation of b, if it is a bulkId: what the
\* latest POST before it made, of those that were given this bulkId and answered
\* 201.
Posts(b, i, x) ==
    {j \in 1..(i - 1) : /\ req[b].ops[j].method = "POST" /\ req[b].ops[j].bulkId = x
                        /\ req[b].results[j] = "ok"}
Meant(b, i, x) ==
    IF x \notin BulkId \/ Posts(b, i, x) = {} THEN x ELSE <<b, Max(Posts(b, i, x))>>

\* "POST operations populate the map; subsequent operations resolve"
\* (PHASE_09_BULK_OPERATIONS.md:61): what an operation changes, and every
\* member it names, is what the client meant by its references, going by the
\* results it is told: never a resource of another request, never one whose
\* creation was reported as failed, never the earlier of two.
ReferencesAreMeant ==
    \A b \in Bulk : Working(req[b]) =>
        LET i == Index(req[b])
            o == req[b].ops[i]
            Those(xs) == {Meant(b, i, x) : x \in xs} IN
        /\ req[b].cur.op.target = Meant(b, i, o.target)
        /\ req[b].cur.op.members = Those(o.members)
        /\ \A j \in DOMAIN o.patch :
              /\ req[b].cur.op.patch[j].value = Those(o.patch[j].value)
              /\ req[b].cur.op.patch[j].target = Meant(b, i, o.patch[j].target)

\* The results tell what the request left behind (bulk-processor.service.ts:128):
\* a resource exists if its POST was answered 201 and nobody has deleted it, and
\* not if the operation failed or was never run. A create that failed after its
\* insert is the exception: the group stays (endpoint-scim-groups.service.ts:176).
ResultsTellTheTable ==
    \A b \in Bulk : \A i \in DOMAIN req[b].ops : req[b].ops[i].method = "POST" =>
        CASE i < Index(req[b]) /\ req[b].results[i] = "ok" ->
                rows[<<b, i>>] # None \/ <<b, i>> \in gone
          [] i = Index(req[b]) /\ Working(req[b]) -> TRUE
          [] OTHER -> rows[<<b, i>>] # None => <<b, i>> \in half

\* "Errors are counted and processing stops when failOnErrors threshold is
\* reached" (bulk-processor.service.ts:10): there are never more errors than
\* that, and once there are as many the last result is the last error.
StopsAtThreshold ==
    \A b \in Bulk : LET q == req[b] IN
        q.limit > 0 =>
            /\ Errors(q) <= q.limit
            /\ Errors(q) = q.limit => ~Working(q) /\ q.results[Len(q.results)] = "error"

\* The members an operation speaks of (all of them, when it sets them or gives
\* the path "members" and no list of members), and those it wants in the group.
Lists(o) == o.form = "list" /\ o.value # {}
Sets(o) ==
    \/ o.path = "members"
    \/ o.path = "" /\ o.form \in {"list", "single", "object"} /\ "members" \in o.has
SpeaksOf(o) ==
    CASE o.op = "add" -> o.value
      [] o.op = "remove" /\ o.path # "externalId" /\ Lists(o) -> o.value
      [] o.op = "remove" /\ o.path = "filter" /\ ~Lists(o) -> {o.target}
      [] o.op = "remove" /\ o.path = "members" /\ ~Lists(o) -> Ref
      [] o.op = "replace" /\ Sets(o) -> Ref
      [] OTHER -> {}
Wants(o) == IF o.op = "remove" \/ o.form = "null" THEN {} ELSE o.value

\* A PATCH does what its operations say, in their order: a member is in the
\* group if the last operation that speaks of it wants it there, or if none
\* does and it was there before (group-patch-engine.ts:60).
MembersAsAsked ==
    \A b \in Bulk :
        LET cur == req[b].cur IN
        cur.new # None /\ cur.op.type = "group" /\ cur.op.method = "PATCH" =>
            \A m \in Ref :
                LET said == {j \in DOMAIN cur.op.patch : m \in SpeaksOf(cur.op.patch[j])} IN
                m \in cur.new.members <=>
                    IF said = {} THEN m \in cur.listed ELSE m \in Wants(cur.op.patch[Max(said)])

\* "Referenced bulkId must appear in a prior POST operation"
\* (bulk-processor.service.ts:382): a reference that no POST has resolved is an
\* error, so no group has one for a member. It does not hold: as long as the
\* request has set no bulkId its data are not looked at (:400).
UnresolvedIsRefused ==
    \A i \in Id : rows[i] # None => rows[i].members \cap BulkId = {}
=============================================================================
