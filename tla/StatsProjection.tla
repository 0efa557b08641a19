---------------------------- MODULE StatsProjection ----------------------------
(***************************************************************************)
(* The counters of the dashboard (stats-projection.service.ts): counted    *)
(* once from the repositories when the server starts, moved by the events  *)
(* of the SCIM services, and counted anew every minute. An event is        *)
(* emitted after the answer to the write it reports, and a count is        *)
(* applied after two queries, so that the other requests run in between.   *)
(*                                                                         *)
(* A resource is its row: absent, active or inactive. Groups are never     *)
(* inactive (endpoint-scim-groups.service.ts:184, :581), so that their     *)
(* active count follows the other and is left out.                         *)
(***************************************************************************)
EXTENDS Integers, FiniteSets

CONSTANTS
    Endpoint,
    Created,      \* [Endpoint -> Nat]: createdAt
    Resource,     \* users, groups and generic resources, with those to come
    Kind,         \* [Resource -> {"user", "group", "resource"}]
    Home,         \* [Resource -> Endpoint]
    FirstRows,    \* the table when the server starts
    Request,
    Task,         \* what requests may ask for
    Seeder,       \* bound: how many reconciliations may overlap
    MaxFaults,    \* bound: how many queries end with an error, or restarts
    None

RowState == {"absent", "active", "inactive"}

\* A request of the admin API, about an endpoint and not about a resource.
OnEndpoint(task) == task.op \in {"drop", "update"}

ASSUME StatsAssumption ==
    /\ Created \in [Endpoint -> Nat]
    /\ \A d, e \in Endpoint : Created[d] = Created[e] => d = e
    /\ Kind \in [Resource -> {"user", "group", "resource"}]
    /\ Home \in [Resource -> Endpoint]
    /\ FirstRows \in [Resource -> RowState]
    /\ \A t \in Task : t.state \in RowState  \* what it leaves
    /\ \A t \in Task : ~OnEndpoint(t) => (t.state = "absent" <=> t.op = "delete")
    /\ \A t \in Task : \/ t.op \in {"create", "delete"} /\ t.on \in Resource
                       \/ t.op = "set" /\ t.on \in Resource /\ Kind[t.on] = "user"
                       \/ OnEndpoint(t) /\ t.on \in Endpoint
    /\ MaxFaults \in Nat

\* A database holds finitely many rows.
ASSUME FiniteAssumption ==
    IsFiniteSet(Endpoint) /\ IsFiniteSet({x \in Resource : FirstRows[x] # "absent"})

Counter == [users : Nat, activeUsers : Nat, groups : Nat, resources : Nat]

ASSUME NoneAssumption == None \notin Counter

VARIABLES
    live,      \* the endpoints in the database
    known,     \* the endpoints in EndpointService's cache
    rows,      \* the table ScimResource
    counters,  \* the map of counters
    startup,   \* "boot", then "seeding" until onModuleInit returns, then "up"
    seed,      \* the runs of seedFromRepositories
    req,       \* the requests
    faults,
    drifted,   \* history: counts that an overlap, a stale comparison, a lost
               \* answer or events out of order may have made wrong since the
               \* last clean count
    uncounted, \* history: endpoints with generic resources no event announced,
               \* or events out of order
    lingering  \* history: removed endpoints the cache was not told of, or that
               \* a late answer has put back

history == <<drifted, uncounted, lingering>>
statsVars == <<live, known, rows, counters, startup, seed, req, faults, history>>

-----------------------------------------------------------------------------

Zero == [users |-> 0, activeUsers |-> 0, groups |-> 0, resources |-> 0]

\* getEndpointStats, and ensureCounters
Stats(e) == IF counters[e] = None THEN Zero ELSE counters[e]

Rows(e, kind) == {x \in Resource : Home[x] = e /\ Kind[x] = kind /\ rows[x] # "absent"}
Count(e, kind) == Cardinality(Rows(e, kind))
CountActive(e) == Cardinality({x \in Rows(e, "user") : rows[x] = "active"})

\* The endpoint and the kind of resource a request is about.
Scope(r) == <<Home[req[r].task.on], Kind[req[r].task.on]>>

\* A write is in the table, and its event is still to come.
Outstanding(e, kind) ==
    \E r \in Request : req[r].at = "emit" /\ ~OnEndpoint(req[r].task) /\ Scope(r) = <<e, kind>>

Ask(task) == [task |-> task, at |-> "new", found |-> "absent"]
Resting == [at |-> "idle", left |-> {}, cur |-> None, users |-> 0, active |-> 0,
            groups |-> 0, mixed |-> {}]

\* The server starts with an empty map and a warm cache.
Boot ==
    /\ counters' = [e \in Endpoint |-> None]
    /\ seed' = [s \in Seeder |-> Resting]
    /\ startup' = "boot"
    /\ known' = live

Drifting == Endpoint \X {"user", "group"}
Uncounted == {e \in Endpoint : Rows(e, "resource") # {}}

StatsInit ==
    /\ live = Endpoint /\ known = Endpoint
    /\ rows = FirstRows
    /\ counters = [e \in Endpoint |-> None]
    /\ startup = "boot"
    /\ seed = [s \in Seeder |-> Resting]
    /\ req \in [Request -> {Ask(t) : t \in Task}]
    /\ faults = 0
    /\ drifted = Drifting
    /\ uncounted = Uncounted
    /\ lingering = {}

Outcome == {"answered", "failed", "lost"}
Ends(o) ==
    /\ o # "answered" => faults < MaxFaults
    /\ faults' = IF o = "answered" THEN faults ELSE faults + 1

-----------------------------------------------------------------------------
(* Requests                                                                 *)

\* Whether a request finds what it is about; a create looks for nothing.
Finds(task) ==
    /\ OnEndpoint(task) => task.on \in live
    /\ task.op \in {"set", "delete"} => rows[task.on] # "absent"

\* A request arrives, and goes on with what it found, or ends.
Find(r) ==
    LET task == req[r].task IN
    /\ startup = "up" /\ req[r].at = "new"
    /\ \E o \in {"answered", "failed"} :
        /\ Ends(o)
        /\ req' = [req EXCEPT
             ![r].at = IF o = "failed" \/ ~Finds(task) THEN "done" ELSE "write",
             ![r].found = IF task.op \in {"set", "delete"} THEN rows[task.on] ELSE "absent"]
    /\ UNCHANGED <<live, known, rows, counters, startup, seed, history>>

\* Whether the database accepts a write: a create needs its endpoint, any other
\* write its row.
Accepted(task) ==
    IF task.op = "create"
    THEN Home[task.on] \in live /\ rows[task.on] = "absent"
    ELSE rows[task.on] # "absent"

\* A write makes the counts taken in the scope since it was read old.
Mix(scope) ==
    seed' = [s \in Seeder |->
        IF seed[s].cur = scope[1] /\ (\/ scope[2] = "user" /\ seed[s].at \in {"groups", "apply"}
                                      \/ scope[2] = "group" /\ seed[s].at = "apply")
        THEN [seed[s] EXCEPT !.mixed = @ \cup {scope[2]}]
        ELSE seed[s]]

\* The write is executed. Only a change of status against the row that was
\* found is reported (endpoint-scim-users.service.ts:277).
Write(r) ==
    LET task == req[r].task
        x == task.on
        stale == task.op # "create" /\ Kind[x] = "user" /\ req[r].found # rows[x]
        reported == task.op = "set" => task.state # req[r].found IN
    /\ req[r].at = "write" /\ ~OnEndpoint(task)
    /\ \E o \in Outcome :
        /\ Ends(o)
        /\ IF o = "failed" \/ ~Accepted(task)
           THEN /\ req' = [req EXCEPT ![r].at = "done"]
                /\ UNCHANGED <<rows, seed, history>>
           ELSE /\ req' = [req EXCEPT ![r].at =
                            IF o = "answered" /\ reported THEN "emit" ELSE "done"]
                /\ rows' = [rows EXCEPT ![x] = task.state]
                /\ Mix(Scope(r))
                /\ drifted' = IF (o = "lost" \/ stale) /\ Kind[x] # "resource"
                              THEN drifted \cup {Scope(r)} ELSE drifted
                /\ uncounted' = IF o = "lost" /\ Kind[x] = "resource"
                                THEN uncounted \cup {Home[x]} ELSE uncounted
    /\ UNCHANGED <<live, known, counters, startup, lingering>>

\* deleteEndpoint, whose rows go with it. The cache is told after the answer,
\* and never if that is lost.
Drop(r) ==
    LET e == req[r].task.on IN
    /\ req[r].at = "write" /\ req[r].task.op = "drop"
    /\ \E o \in Outcome :
        /\ Ends(o)
        /\ IF o = "failed" \/ e \notin live
           THEN req' = [req EXCEPT ![r].at = "done"] /\ UNCHANGED <<live, rows, lingering>>
           ELSE /\ req' = [req EXCEPT ![r].at = IF o = "answered" THEN "emit" ELSE "done"]
                /\ live' = live \ {e}
                /\ rows' = [x \in Resource |-> IF Home[x] = e THEN "absent" ELSE rows[x]]
                /\ lingering' = IF o = "lost" THEN lingering \cup {e} ELSE lingering
    /\ UNCHANGED <<known, counters, startup, seed, drifted, uncounted>>

\* cacheDelete
Forget(r) ==
    LET e == req[r].task.on IN
    /\ req[r].at = "emit" /\ req[r].task.op = "drop"
    /\ known' = known \ {e}
    /\ lingering' = lingering \ {e}
    /\ req' = [req EXCEPT ![r].at = "done"]
    /\ UNCHANGED <<live, rows, counters, startup, seed, faults, drifted, uncounted>>

\* updateEndpoint changes nothing the counters depend on ...
Update(r) ==
    /\ req[r].at = "write" /\ req[r].task.op = "update"
    /\ \E o \in Outcome :
        /\ Ends(o)
        /\ req' = [req EXCEPT ![r].at =
                      IF o = "answered" /\ req[r].task.on \in live THEN "emit" ELSE "done"]
    /\ UNCHANGED <<live, known, rows, counters, startup, seed, history>>

\* ... but ends with a cacheSet, whatever has happened since the answer.
Remember(r) ==
    LET e == req[r].task.on IN
    /\ req[r].at = "emit" /\ req[r].task.op = "update"
    /\ known' = known \cup {e}
    /\ lingering' = IF e \in live THEN lingering ELSE lingering \cup {e}
    /\ req' = [req EXCEPT ![r].at = "done"]
    /\ UNCHANGED <<live, rows, counters, startup, seed, faults, drifted, uncounted>>

Less(n) == IF n = 0 THEN 0 ELSE n - 1

UserCreated(c, state) ==
    [c EXCEPT !.users = @ + 1, !.activeUsers = IF state = "active" THEN @ + 1 ELSE @]

\* USER_DELETED carries the status of the row that was found.
UserDeleted(c, found) ==
    [c EXCEPT !.users = Less(@), !.activeUsers = IF found = "active" THEN Less(@) ELSE @]

UserStatusChanged(c, state) ==
    [c EXCEPT !.activeUsers = IF state = "active" THEN @ + 1 ELSE Less(@)]

\* The handler of a request's event.
Handled(r, c) ==
    LET task == req[r].task
        Moved(n) == IF task.op = "create" THEN n + 1 ELSE Less(n) IN
    CASE Kind[task.on] = "group" -> [c EXCEPT !.groups = Moved(@)]
      [] Kind[task.on] = "resource" -> [c EXCEPT !.resources = Moved(@)]
      [] Kind[task.on] = "user" /\ task.op = "create" -> UserCreated(c, task.state)
      [] Kind[task.on] = "user" /\ task.op = "set" -> UserStatusChanged(c, task.state)
      [] Kind[task.on] = "user" /\ task.op = "delete" -> UserDeleted(c, req[r].found)

\* The event comes before the one it undoes, and meets a counter at zero.
MeetsZero(r, c) ==
    LET task == req[r].task IN
    CASE Kind[task.on] = "group" -> task.op = "delete" /\ c.groups = 0
      [] Kind[task.on] = "resource" -> task.op = "delete" /\ c.resources = 0
      [] Kind[task.on] = "user" ->
           \/ task.op = "delete" /\ c.users = 0
           \/ /\ req[r].found = "active" /\ task.op # "create"
              /\ task.state # "active" /\ c.activeUsers = 0

\* The request gets its answer, emits its event, and the handler runs at once.
Emit(r) ==
    LET e == Home[req[r].task.on]
        met == MeetsZero(r, Stats(e)) IN
    /\ req[r].at = "emit" /\ ~OnEndpoint(req[r].task)
    /\ counters' = [counters EXCEPT ![e] = Handled(r, Stats(e))]
    /\ req' = [req EXCEPT ![r].at = "done"]
    /\ drifted' = IF met /\ Scope(r) \in Drifting THEN drifted \cup {Scope(r)} ELSE drifted
    /\ uncounted' = IF met /\ Scope(r) \notin Drifting THEN uncounted \cup {e} ELSE uncounted
    /\ UNCHANGED <<live, known, rows, startup, seed, faults, lingering>>

-----------------------------------------------------------------------------
(* seedFromRepositories                                                     *)

\* Mutant: the run returns after its first endpoint.
GoOn_First(s, left) ==
    LET begins == seed[s].at = "idle" /\ left # {} IN
    /\ seed' = [seed EXCEPT ![s] =
           IF begins THEN [Resting EXCEPT !.at = "users", !.left = left] ELSE Resting]
    /\ startup' = IF startup = "up" \/ ~begins THEN "up" ELSE "seeding"

\* The run goes on with these endpoints, or returns.
GoOn(s, left) ==
    LET next == IF left = {} THEN Resting ELSE [Resting EXCEPT !.at = "users", !.left = left]
    IN  /\ seed' = [seed EXCEPT ![s] = next]
        /\ startup' = IF startup = "up" \/ left = {} THEN "up" ELSE "seeding"

Pruned(listed) == [e \in Endpoint |-> IF e \in listed THEN counters[e] ELSE None]

\* onModuleInit, or the timer, which does not wait for the run before.
\* listEndpoints answers from the cache, and asks the database if that is empty.
Seed(s) ==
    /\ seed[s].at = "idle" /\ startup \in {"boot", "up"}
    /\ \E o \in {"answered", "failed"} :
        /\ o = "failed" => known = {}
        /\ Ends(o)
        /\ counters' = IF o = "answered" THEN Pruned(known) ELSE counters
        /\ GoOn(s, known)
    /\ UNCHANGED <<live, known, rows, req, history>>

Newest(left) == CHOOSE e \in left : \A d \in left : Created[d] <= Created[e]

\* userRepo.findAll of the next endpoint; after an error it is skipped.
ReadUsers(s) ==
    LET e == Newest(seed[s].left) IN
    /\ seed[s].at = "users"
    /\ \E o \in {"answered", "failed"} :
        /\ Ends(o)
        /\ IF o = "failed"
           THEN GoOn(s, seed[s].left \ {e})
           ELSE /\ seed' = [seed EXCEPT ![s].at = "groups", ![s].cur = e,
                             ![s].users = Count(e, "user"), ![s].active = CountActive(e),
                             ![s].mixed = {k \in {"user"} : Outstanding(e, k)}]
                /\ UNCHANGED startup
    /\ UNCHANGED <<live, known, rows, counters, req, history>>

\* groupRepo.findAllWithMembers
ReadGroups(s) ==
    LET e == seed[s].cur IN
    /\ seed[s].at = "groups"
    /\ \E o \in {"answered", "failed"} :
        /\ Ends(o)
        /\ IF o = "failed"
           THEN GoOn(s, seed[s].left \ {e})
           ELSE /\ seed' = [seed EXCEPT ![s].at = "apply", ![s].groups = Count(e, "group"),
                             ![s].mixed = @ \cup {k \in {"group"} : Outstanding(e, k)}]
                /\ UNCHANGED startup
    /\ UNCHANGED <<live, known, rows, counters, req, history>>

\* Mutant: the number of generic resources starts anew.
Counted_NoResources(s) ==
    [users |-> seed[s].users, activeUsers |-> seed[s].active, groups |-> seed[s].groups,
     resources |-> 0]

\* Generic resources are not counted: their counter is kept as it is.
Counted(s) ==
    [users |-> seed[s].users, activeUsers |-> seed[s].active, groups |-> seed[s].groups,
     resources |-> Stats(seed[s].cur).resources]

Apply(s) ==
    LET e == seed[s].cur IN
    /\ seed[s].at = "apply"
    /\ counters' = [counters EXCEPT ![e] = Counted(s)]
    /\ drifted' = (drifted \ ({e} \X {"user", "group"})) \cup ({e} \X seed[s].mixed)
    /\ GoOn(s, seed[s].left \ {e})
    /\ UNCHANGED <<live, known, rows, req, faults, uncounted, lingering>>

\* The process ends, with what is under way, and starts again.
Restart ==
    /\ startup # "boot" /\ faults < MaxFaults
    /\ faults' = faults + 1
    /\ Boot
    /\ req' = [r \in Request |-> IF req[r].at \in {"write", "emit"}
                                 THEN [req[r] EXCEPT !.at = "done"] ELSE req[r]]
    /\ drifted' = Drifting
    /\ uncounted' = Uncounted
    /\ lingering' = {}
    /\ UNCHANGED <<live, rows>>

StatsNext ==
    \/ \E r \in Request : Find(r) \/ Write(r) \/ Emit(r)
    \/ \E r \in Request : Drop(r) \/ Forget(r) \/ Update(r) \/ Remember(r)
    \/ \E s \in Seeder : Seed(s) \/ ReadUsers(s) \/ ReadGroups(s) \/ Apply(s)
    \/ Restart

\* The timer fires, every query of a run ends, and a request whose write was
\* answered runs on to its event.
StatsFairness ==
    /\ WF_statsVars(\E s \in Seeder : Seed(s))
    /\ \A s \in Seeder : WF_statsVars(ReadUsers(s) \/ ReadGroups(s) \/ Apply(s))
    /\ \A r \in Request : WF_statsVars(Emit(r) \/ Forget(r) \/ Remember(r))

StatsSpec == StatsInit /\ [][StatsNext]_statsVars /\ StatsFairness

-----------------------------------------------------------------------------
(* Properties                                                               *)

Kinds == {"user", "group", "resource"}
At == {"idle", "users", "groups", "apply"}
Run == [at : At, left : SUBSET Endpoint, cur : Endpoint \cup {None}, users : Nat, active : Nat,
        groups : Nat, mixed : SUBSET {"user", "group"}]

\* The shape of the state; no counter goes below zero, whatever events come.
StatsTypeOK ==
    /\ live \subseteq known /\ known \subseteq Endpoint
    /\ rows \in [Resource -> RowState]
    /\ counters \in [Endpoint -> Counter \cup {None}]
    /\ startup \in {"boot", "seeding", "up"}
    /\ seed \in [Seeder -> Run]
    /\ \A s \in Seeder :
        /\ seed[s].at = "users" => seed[s].left # {}
        /\ seed[s].at \in {"groups", "apply"} => seed[s].cur \in seed[s].left
    /\ req \in [Request -> [task : Task, at : {"new", "write", "emit", "done"}, found : RowState]]
    /\ faults \in 0..MaxFaults
    /\ drifted \subseteq Drifting /\ uncounted \subseteq Endpoint /\ lingering \subseteq known \ live

(***************************************************************************)
(* The counters tell the truth between events: when every write of a kind  *)
(* has been announced, they equal the table, and a reconciliation does not *)
(* spoil what events have counted (:231). They are wrong only after a      *)
(* count that a write overlapped (:237), a write decided on an older       *)
(* status (:133), a lost answer, a failed first count, or a deletion that  *)
(* is announced before the creation and meets zero (:127), and only until  *)
(* the next clean count. Generic resources are right as long as each was   *)
(* announced to this process (:228), and in that order.                    *)
(***************************************************************************)
CountsExactUnlessRaced ==
    \A e \in live :
        /\ <<e, "user">> \notin drifted /\ ~Outstanding(e, "user") =>
              Stats(e).users = Count(e, "user") /\ Stats(e).activeUsers = CountActive(e)
        /\ <<e, "group">> \notin drifted /\ ~Outstanding(e, "group") =>
              Stats(e).groups = Count(e, "group")
        /\ e \notin uncounted /\ ~Outstanding(e, "resource") =>
              Stats(e).resources = Count(e, "resource")

(***************************************************************************)
(* reconcile: "to correct any drift from missed events" (:187). Once the   *)
(* writes are over, the counts of users and groups become and remain those *)
(* of the table, and a removed endpoint is no longer counted, although a   *)
(* late event, or a count that was under way, may have brought it back.    *)
(* "Remove stale endpoints" (:215) goes by the cache, so that an endpoint  *)
(* whose removal the cache was not told of (endpoint.service.ts:866-870),  *)
(* or that a later cacheSet put back (:676), is listed and counted, with   *)
(* no users and groups, until the process restarts.                        *)
(***************************************************************************)
Repaired ==
    \A e \in Endpoint :
        IF e \in live \cup lingering
        THEN /\ Stats(e).users = Count(e, "user") /\ Stats(e).activeUsers = CountActive(e)
             /\ Stats(e).groups = Count(e, "group")
        ELSE counters[e] = None

DriftIsRepaired == <>[]Repaired
=============================================================================
