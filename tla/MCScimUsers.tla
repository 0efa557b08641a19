----------------------------- MODULE MCScimUsers -----------------------------
(***************************************************************************)
(* Model of ScimUsers for TLC: two users, one id still to be generated and *)
(* a third userName that a create, a PATCH and a PUT compete for.          *)
(***************************************************************************)
EXTENDS ScimUsers, Sequences, TLC

CONSTANTS u1, u2, u3, alice, bob, carol, mail, title

MCId == {u1, u2, u3}
MCUserName == {alice, bob, carol}
MCAttr == {mail, title}

First(n) == [version |-> 1,
             content |-> [userName |-> n, active |-> TRUE,
                          data |-> [a \in MCAttr |-> NoRequest]]]

MCFirstUsers == (u1 :> First(alice)) @@ (u2 :> First(bob)) @@ (u3 :> NoUser)

Permissive == [hardDelete |-> TRUE, softDelete |-> TRUE, requireIfMatch |-> FALSE, etag |-> TRUE]
Strict == [hardDelete |-> FALSE, softDelete |-> FALSE, requireIfMatch |-> TRUE, etag |-> TRUE]
Unversioned == [Permissive EXCEPT !.requireIfMatch = TRUE, !.etag = FALSE]

MCConfig == {Permissive, Strict, Unversioned}

Patch(id, path, value, ifMatch) ==
    [kind |-> "patch", id |-> id, path |-> path, value |-> value, ifMatch |-> ifMatch]

OperationSeq ==
    << [kind |-> "create", id |-> u3, userName |-> carol, active |-> TRUE],
       [kind |-> "replace", id |-> u1, userName |-> carol, active |-> FALSE, ifMatch |-> 1],
       Patch(u2, "userName", carol, NoIfMatch),
       Patch(u1, "active", FALSE, AnyVersion),
       Patch(u1, mail, mail, 1),
       Patch(u1, title, title, 1),
       [kind |-> "delete", id |-> u1, ifMatch |-> NoIfMatch],
       [kind |-> "delete", id |-> u1, ifMatch |-> 1],
       [kind |-> "get", id |-> u1] >>

AllOperations == {OperationSeq[i] : i \in DOMAIN OperationSeq}

(***************************************************************************)
(* Requests differ only by what they ask for: it is enough to start from   *)
(* the assignments of operations to requests that are sorted.              *)
(***************************************************************************)
Rank(o) == CHOOSE i \in DOMAIN OperationSeq : OperationSeq[i] = o

Sorted == \A q, r \in Request : q < r => Rank(op[q]) <= Rank(op[r])

MCInit == Init /\ Sorted

MCSpec == MCInit /\ [][Next]_userVars
=============================================================================
