---------------------------- MODULE ResourceStore ----------------------------
(***************************************************************************)
(* What the SCIM clients of one endpoint may rely on, whatever requests    *)
(* run at the same time: a resource appears once, with version 1; every    *)
(* change of it gives the next version; a name belongs to one resource at  *)
(* a time; a deleted resource does not come back. ScimUsers implements it; *)
(* so does ScimGroups, whose displayName is not unique: the name is the id *)
(***************************************************************************)
EXTENDS Naturals

CONSTANTS
    Id,        \* resource ids, those still to be generated included
    Content,   \* what a representation says
    NameOf(_), \* the unique name in a content
    Absent     \* no such resource

VARIABLES
    version,   \* the version of each resource, 0 before it exists
    content    \* its content, Absent if it does not exist (any more)

storeVars == <<version, content>>

Present == {i \in Id : content[i] # Absent}

NameFree(c, i) == \A j \in Present \ {i} : NameOf(content[j]) # NameOf(c)

StoreInit ==
    /\ content \in [Id -> Content \cup {Absent}]
    /\ version = [i \in Id |-> IF i \in Present THEN 1 ELSE 0]
    /\ \A i \in Present : NameFree(content[i], i)

\* Nothing but resource i changes.
Only(i) == content' = [content EXCEPT ![i] = content'[i]]

CreateResource(i) ==
    /\ version[i] = 0
    /\ version' = [version EXCEPT ![i] = 1]
    /\ Only(i) /\ content'[i] \in Content /\ NameFree(content'[i], i)

ChangeResource(i) ==
    /\ i \in Present
    /\ version' = [version EXCEPT ![i] = @ + 1]
    /\ Only(i) /\ content'[i] \in Content /\ NameFree(content'[i], i)

DeleteResource(i) ==
    /\ i \in Present
    /\ content' = [content EXCEPT ![i] = Absent]
    /\ UNCHANGED version

StoreNext ==
    \E i \in Id : CreateResource(i) \/ ChangeResource(i) \/ DeleteResource(i)

StoreSpec == StoreInit /\ [][StoreNext]_storeVars

=============================================================================
