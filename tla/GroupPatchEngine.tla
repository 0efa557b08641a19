--------------------------- MODULE GroupPatchEngine ---------------------------
(***************************************************************************)
(* What a PATCH makes of a group: domain/patch/group-patch-engine.ts, a    *)
(* pure function from the operations of the request, in their order, and   *)
(* the group that was read. An operation that is refused ends the whole    *)
(* PATCH, whatever the operations before it did.                           *)
(*                                                                         *)
(* A group is its displayName and the set of its members' values, which    *)
(* stand for their case-folded form; the engine drops duplicates. The      *)
(* external id and extensions are left out, though not their paths. An     *)
(* operation has a form, that of its JSON value: a list of members or one  *)
(* of them (in "value"), a string (in "name"), an object that "has" one or *)
(* both, null, or none. The path "filter" is members[value eq target].     *)
(***************************************************************************)
EXTENDS Naturals, Sequences, FiniteSets, SequencesExt

Refused(s) == [s EXCEPT !.ok = FALSE]
WithMembers(s, members) == [s EXCEPT !.members = members]
WithName(s, name) == [s EXCEPT !.name = name]

\* More than one member in an operation needs a flag of the endpoint.
Many(o) == o.form = "list" /\ Cardinality(o.value) > 1

\* handleAdd: members only, with or without the path.
HandleAdd(o, s, config) ==
    IF /\ o.path \in {"", "members"}
       /\ o.form \in {"list", "single"}
       /\ Many(o) => config.multiAdd
    THEN WithMembers(s, s.members \cup o.value)
    ELSE Refused(s)

\* Mutant: the path "members" empties the group whatever is listed.
HandleRemove_PathFirst(o, s, config) ==
    CASE o.path = "members" /\ config.removeAll -> WithMembers(s, {})
      [] o.path = "members" /\ ~config.removeAll /\ o.form = "list" -> WithMembers(s, s.members \ o.value)
      [] o.path = "filter" -> WithMembers(s, s.members \ {o.target})
      [] OTHER -> Refused(s)

\* The case "remove" and handleRemove. A list of members is taken from the
\* group whatever the path; with an empty list, or a value that is not a
\* list, the path alone decides.
HandleRemove(o, s, config) ==
    LET lists == o.form = "list" /\ o.value # {} IN
    CASE o.path = "displayName" -> Refused(s)
      [] o.path = "externalId" -> s
      [] o.path \notin {"displayName", "externalId"} /\ lists ->
            IF Many(o) /\ ~config.multiRemove THEN Refused(s) ELSE WithMembers(s, s.members \ o.value)
      [] o.path = "filter" /\ ~lists -> WithMembers(s, s.members \ {o.target})
      [] o.path = "members" /\ ~lists /\ config.removeAll -> WithMembers(s, {})
      [] OTHER -> Refused(s)

\* handleReplace: without a path a string is the displayName, and of any other
\* value what is called displayName or members counts; null empties the members.
HandleReplace(o, s) ==
    CASE o.path = "" /\ o.form \in {"object", "list", "single"} ->
            [s EXCEPT !.name = IF "displayName" \in o.has THEN o.name ELSE @,
                      !.members = IF "members" \in o.has THEN o.value ELSE @]
      [] o.path \in {"", "displayName"} /\ o.form = "string" -> WithName(s, o.name)
      [] o.path = "externalId" -> s
      [] o.path = "members" /\ o.form = "null" -> WithMembers(s, {})
      [] o.path = "members" /\ o.form = "list" -> WithMembers(s, o.value)
      [] OTHER -> Refused(s)

\* One turn of the loop in GroupPatchEngine.apply.
Applied(o, s, config) ==
    CASE ~s.ok -> s
      [] s.ok /\ o.op = "add" -> HandleAdd(o, s, config)
      [] s.ok /\ o.op = "remove" -> HandleRemove(o, s, config)
      [] s.ok /\ o.op = "replace" -> HandleReplace(o, s)

\* GroupPatchEngine.apply
Patched(ops, name, members, config) ==
    FoldLeft(LAMBDA s, o : Applied(o, s, config),
             [ok |-> TRUE, name |-> name, members |-> members], ops)
=============================================================================
