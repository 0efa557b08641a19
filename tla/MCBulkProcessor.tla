--------------------------- MODULE MCBulkProcessor ---------------------------
(***************************************************************************)
(* Model of BulkProcessor for TLC: two bulk requests, of up to three       *)
(* operations each, on one user and one group that exist and on what they  *)
(* create.                                                                 *)
(***************************************************************************)
EXTENDS BulkProcessor

CONSTANTS user, group, x, y, n1, n2, b1, b2

MCFirstRows ==
    [i \in First |->
        IF i = user
        THEN [type |-> "user", version |-> 1, name |-> n1, members |-> {}, links |-> {}]
        ELSE [type |-> "group", version |-> 1, name |-> n1, members |-> {user}, links |-> {user}]]

MCConfig ==
    {[served |-> Kind, multiAdd |-> TRUE, multiRemove |-> TRUE, removeAll |-> TRUE],
     [served |-> Kind, multiAdd |-> FALSE, multiRemove |-> FALSE, removeAll |-> FALSE]}

AnOperation(method, type) ==
    [method |-> method, type |-> type, target |-> None, bulkId |-> None, match |-> None,
     data |-> TRUE, name |-> n1, members |-> {}, patch |-> <<>>]
PostUser(id, name) == [AnOperation("POST", "user") EXCEPT !.bulkId = id, !.name = name]
PostGroup(id, name, members) ==
    [AnOperation("POST", "group") EXCEPT !.bulkId = id, !.name = name, !.members = members]
Put(type, target, name, members) ==
    [AnOperation("PUT", type) EXCEPT !.target = target, !.name = name, !.members = members]
Patch(target, patch) ==
    [AnOperation("PATCH", "group") EXCEPT !.target = target, !.patch = patch]
Del(type, target) == [AnOperation("DELETE", type) EXCEPT !.target = target, !.data = FALSE]

PatchOp(op, path, form, value) ==
    [op |-> op, path |-> path, form |-> form, value |-> value, target |-> None, name |-> n2,
     has |-> IF form = "object" THEN {"displayName", "members"} ELSE {}]
AddList(members) == PatchOp("add", "members", "list", members)
RemoveList(members) == PatchOp("remove", "members", "list", members)
RemoveOne(member) == [PatchOp("remove", "filter", "none", {}) EXCEPT !.target = member]
Clear == PatchOp("remove", "members", "none", {})
Dismiss == PatchOp("remove", "members", "single", {user})
Forget == PatchOp("remove", "externalId", "list", {user})

\* The combinations of operations that the documents and tests show, with the
\* references going forwards and backwards, to what fails and to what is deleted.
Plans ==
    <<<<PostUser(x, n2), PostGroup(y, n2, {x, user})>>,
      <<PostUser(x, n1), PostGroup(y, n2, {x})>>,
      <<PostUser(y, n2), PostGroup(x, n1, {y}), Patch(group, <<AddList({x, y})>>)>>,
      <<PostUser(x, n2), PostUser(x, n1), Patch(group, <<AddList({x}), RemoveOne(user)>>)>>,
      <<PostGroup(x, n2, {user}), Patch(x, <<RemoveList({user}), AddList({user})>>), Del("group", x)>>,
      <<PostUser(x, n2), Patch(group, <<RemoveList({user})>>), Del("user", x)>>,
      <<Patch(group, <<Clear, PatchOp("add", "", "single", {user})>>), Put("group", group, n2, {})>>,
      <<PostUser(x, n2), Put("group", group, n1, {x}), Put("user", x, n1, {})>>,
      <<Del("user", user), PostUser(x, n1), Patch(group, <<PatchOp("replace", "", "object", {x})>>)>>,
      <<Del("group", group), Put("user", user, n2, {}), [Del("user", user) EXCEPT !.match = 1]>>,
      <<Put("user", None, n2, {}), [Del("user", user) EXCEPT !.type = "device"], PostUser(x, n2)>>,
      <<PostUser(None, n2), PostGroup(y, n2, {user}), Patch(y, <<PatchOp("add", "", "single", {group}), Dismiss>>)>>,
      <<PostUser(x, n2), Patch(group, <<Forget, AddList({x}), RemoveOne(user)>>), Del("user", None)>>>>

MCPlan == {Plans[i] : i \in DOMAIN Plans}

\* Any two of them; the requests differ by nothing else, so that one order is
\* enough. What b1 asks for stops at its first error or never, what b2 asks for
\* after the second or never.
MCInit ==
    /\ Init
    /\ \E i, j \in DOMAIN Plans :
          i <= j /\ req[b1].ops = Plans[i] /\ req[b2].ops = Plans[j]
    /\ req[b1].limit \in {0, 1} /\ req[b2].limit \in {0, 2}
MCSpec == MCInit /\ [][Next]_vars

\* The name of the user is taken.
Dangling == <<PostUser(x, n1), PostGroup(y, n2, {x})>>
DanglingSpec == Init /\ (\A b \in Bulk : req[b].ops = Dangling) /\ [][Next]_vars
=============================================================================
