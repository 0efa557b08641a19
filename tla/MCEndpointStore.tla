--------------------------- MODULE MCEndpointStore ---------------------------
(***************************************************************************)
(* Model of EndpointStore for TLC: one endpoint, one id still to be        *)
(* generated, one name both share (so a create must wait for the delete),  *)
(* two flags, and every combination of operations clients can send.        *)
(***************************************************************************)
EXTENDS EndpointStore, Sequences

CONSTANTS e1, e2, name, f1, f2

MCId == {e1, e2}
MCName == {name}
MCFlag == {f1, f2}

MCFirstRows ==
    {[id |-> e1, name |-> name, settings |-> [f \in MCFlag |-> NoRequest],
      methods |-> {FirstMethod}, columns |-> NoRequest]}

OperationSeq ==
    << [kind |-> "settings", ref |-> e1, flag |-> f1],
       [kind |-> "settings", ref |-> e1, flag |-> f2],
       [kind |-> "columns", ref |-> e1],
       [kind |-> "add", ref |-> e1],
       [kind |-> "remove", ref |-> e1, method |-> FirstMethod],
       [kind |-> "remove", ref |-> e1, method |-> 1],
       [kind |-> "get", ref |-> name],
       [kind |-> "create", ref |-> e2, name |-> name],
       [kind |-> "delete", ref |-> e1] >>

AllOperations == {OperationSeq[i] : i \in DOMAIN OperationSeq}

SettingsOnly == {OperationSeq[1], OperationSeq[2]}

(***************************************************************************)
(* Requests differ only by what they ask for, so it is enough to start     *)
(* from the assignments of operations to requests that are sorted by rank. *)
(* Only add is sent more than once: it is what the lock has to serialise.  *)
(***************************************************************************)
Rank(o) == CHOOSE i \in DOMAIN OperationSeq : OperationSeq[i] = o

Sorted ==
    \A q, r \in Request : q < r =>
        \/ Rank(op[q]) < Rank(op[r])
        \/ op[q] = op[r] /\ op[r].kind = "add"

MCInit == Init /\ Sorted

MCSpec == MCInit /\ [][Next]_vars /\ Fairness
=============================================================================
