--------------------------- MODULE MCStatsProjection ---------------------------
(***************************************************************************)
(* Model of StatsProjection for TLC: any two requests on two endpoints,    *)
(* one of them with a user, a group and a generic resource, while counts   *)
(* overlap.                                                                *)
(***************************************************************************)
EXTENDS StatsProjection, Sequences, TLC

CONSTANTS e1, e2, user, new, group, thing, r1, r2

MCCreated == (e1 :> 1) @@ (e2 :> 2)
MCKind == (user :> "user") @@ (new :> "user") @@ (group :> "group") @@ (thing :> "resource")
MCHome == [x \in Resource |-> e1]
MCFirstRows == (user :> "active") @@ (new :> "absent") @@ (group :> "active") @@ (thing :> "absent")

\* Requests differ by nothing but their task, so one order of each combination
\* is enough.
Tasks ==
    <<[op |-> "create", on |-> new, state |-> "inactive"],
      [op |-> "set", on |-> user, state |-> "inactive"],
      [op |-> "delete", on |-> user, state |-> "absent"],
      [op |-> "delete", on |-> group, state |-> "absent"],
      [op |-> "create", on |-> thing, state |-> "active"],
      [op |-> "delete", on |-> thing, state |-> "absent"],
      [op |-> "drop", on |-> e1, state |-> "absent"],
      [op |-> "update", on |-> e1, state |-> "absent"]>>

\* Two requests about different kinds of resource move different counters, and
\* an update matters only beside a removal.
Meet(t, u) ==
    CASE "drop" \in {t.op, u.op} -> TRUE
      [] "update" \in {t.op, u.op} -> FALSE
      [] OTHER -> Kind[t.on] = Kind[u.on]

MCTask == {Tasks[i] : i \in DOMAIN Tasks}

MCInit ==
    /\ \E i, j \in DOMAIN Tasks :
        /\ i <= j /\ Meet(Tasks[i], Tasks[j])
        /\ req = (r1 :> Ask(Tasks[i])) @@ (r2 :> Ask(Tasks[j]))
    /\ StatsInit
MCSpec == MCInit /\ [][StatsNext]_statsVars /\ StatsFairness
=============================================================================
