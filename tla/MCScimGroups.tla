---------------------------- MODULE MCScimGroups ----------------------------
(***************************************************************************)
(* Model of ScimGroups for TLC: two groups, two ids still to be generated, *)
(* a user and a member that is not one, and requests that compete for the  *)
(* members of one group, for a name, and for a group being created.        *)
(***************************************************************************)
EXTENDS ScimGroups, Sequences, TLC

CONSTANTS g1, g2, g3, g4, user, guest, eng, ops, new

MCId == {g1, g2, g3, g4}
MCMember == {user, guest}
MCDisplayName == {eng, ops, new}
MCFirstUsers == {user}

MCFirstGroups ==
    (g1 :> [displayName |-> eng, members |-> {guest}]) @@
    (g2 :> [displayName |-> ops, members |-> {}]) @@
    (g3 :> NoGroup) @@ (g4 :> NoGroup)

Permissive == [hardDelete |-> TRUE, requireIfMatch |-> FALSE, etag |-> TRUE]
Strict == [hardDelete |-> FALSE, requireIfMatch |-> TRUE, etag |-> TRUE]

MCConfig == {Permissive, Strict}

OperationSeq ==
    << [kind |-> "create", id |-> g3, displayName |-> new, members |-> {user, guest}],
       [kind |-> "create", id |-> g4, displayName |-> new, members |-> {}],
       [kind |-> "rename", id |-> g1, displayName |-> new, ifMatch |-> NoIfMatch],
       [kind |-> "replace", id |-> g2, displayName |-> new, members |-> {user}, ifMatch |-> 1],
       [kind |-> "add", id |-> g1, member |-> user, ifMatch |-> AnyVersion],
       [kind |-> "remove", id |-> g1, member |-> guest, ifMatch |-> 1],
       [kind |-> "add", id |-> g3, member |-> user, ifMatch |-> NoIfMatch],
       [kind |-> "remove", id |-> g3, member |-> user, ifMatch |-> AnyVersion],
       [kind |-> "delete", id |-> g1, ifMatch |-> 1],
       [kind |-> "delete", id |-> g3, ifMatch |-> NoIfMatch] >>

AllOperations == {OperationSeq[i] : i \in DOMAIN OperationSeq}

(***************************************************************************)
(* Requests differ only by what they ask for: it is enough to start from   *)
(* the assignments of operations to requests that are sorted. Only delete  *)
(* is sent more than once.                                                 *)
(***************************************************************************)
Rank(o) == CHOOSE i \in DOMAIN OperationSeq : OperationSeq[i] = o

Sorted ==
    \A q, r \in Request : q < r =>
        \/ Rank(op[q]) < Rank(op[r])
        \/ op[q] = op[r] /\ op[r].kind = "delete"

MCInit == Init /\ Sorted

MCSpec == MCInit /\ [][Next]_groupVars
=============================================================================
