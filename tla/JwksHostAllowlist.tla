-------------------------- MODULE JwksHostAllowlist --------------------------
(***************************************************************************)
(* The hosts from which signing keys may be fetched:                       *)
(* jwks-host-allowlist.service.ts over the table JwksHostAllowlistEntry.   *)
(* The effective list is the union of a compiled seed, a list from the     *)
(* environment and the rows of the table. Membership is asked of a copy in *)
(* memory; an administrator's call writes its rows one by one, reads the   *)
(* whole table and replaces the copy by what it read.                      *)
(***************************************************************************)
EXTENDS Integers, Sequences, FiniteSets

CONSTANTS
    Host,      \* hosts, normalised
    Seed,      \* WELL_KNOWN_JWKS_HOST_SEED
    Env,       \* JWKS_HOST_ALLOWLIST
    Row,       \* ids of rows
    Unused,    \* an id nobody has been given yet
    Removed,   \* an id whose row has been deleted
    Admin,     \* calls of the administration API
    Call,      \* what they may ask for: sequences of writes
    FirstTables,  \* what the table may hold when the process starts
    MaxDbFailures \* bound: how many queries fail after the start

ASSUME HostAssumption == Seed \subseteq Host /\ Env \subseteq Host
                         /\ Unused \notin Host /\ Removed \notin Host
ASSUME CallAssumption ==
    Call \subseteq Seq([kind : {"add", "remove"}, host : Host]
                       \cup [kind : {"update"}, row : Row, host : Host])
ASSUME FirstTablesAssumption ==
    FirstTables \subseteq [Row -> Host \cup {Unused, Removed}]

VARIABLES
    table,     \* the host of each row
    persisted, \* the copy in memory of the persisted layer
    booted,    \* onModuleInit has ended
    adm,       \* the calls (with nothing to write: not made): where they are, what
               \* is left to write, what they read
    dbFailures,
    crossed,   \* history: two reloads overlapped, so either may be the last
    missed     \* history: a call failed, or the first load did, and no reload
               \* has read the table since

listVars == <<table, persisted, booted, adm, dbFailures, crossed, missed>>

HostsOf(t) == {t[r] : r \in Row} \ {Unused, Removed}

\* effective, as rebuild() makes it
Effective == Seed \cup Env \cup persisted

\* isAllowed
IsAllowed(h) == h \in Effective

ListInit ==
    /\ table \in FirstTables
    /\ persisted = {} /\ booted = FALSE
    /\ adm \in [Admin -> [pc : {"idle"}, todo : Call \cup {<<>>}, rows : {{}}]]
    /\ dbFailures = 0 /\ crossed = FALSE /\ missed = FALSE

-----------------------------------------------------------------------------

\* The table after some of the missing seed hosts have been added: each add
\* of ensureSeeded may fail by itself, and if its findAll fails none is made.
Seeded(t) ==
    {u \in [Row -> Host \cup {Unused, Removed}] :
        /\ \A r \in Row : u[r] # t[r] => t[r] = Unused /\ u[r] \in Seed \ HostsOf(t)
        /\ \A r, s \in Row : u[r] = u[s] /\ r # s => u[r] \in {Unused, Removed}}

\* onModuleInit, before the first request: seed the table and load it; when
\* that fails the process starts with seed and environment alone.
Boot ==
    /\ ~booted /\ booted' = TRUE
    /\ table' \in Seeded(table)
    /\ \/ persisted' = HostsOf(table') /\ missed' = missed
       \/ persisted' = {} /\ missed' = TRUE
    /\ UNCHANGED <<adm, dbFailures, crossed>>

\* add is an upsert on the unique host.
AddedRow(t, h) ==
    IF h \in HostsOf(t) THEN {t}
    ELSE {[t EXCEPT ![r] = h] : r \in {s \in Row : t[s] = Unused}}

\* The tables one write can leave. removeByHost deletes what there is;
\* update changes nothing if the row is gone or the host taken.
Written(w, t) ==
    CASE w.kind = "add" -> AddedRow(t, w.host)
      [] w.kind = "remove" -> {[r \in Row |-> IF t[r] = w.host THEN Removed ELSE t[r]]}
      [] w.kind = "update" ->
            {IF t[w.row] \in Host /\ w.host \notin HostsOf(t)
             THEN [t EXCEPT ![w.row] = w.host] ELSE t}

\* addHost, removeHost, updateHost or patchHosts is called.
AdminCalls(a) ==
    /\ booted /\ adm[a].pc = "idle" /\ adm[a].todo # <<>>
    /\ adm' = [adm EXCEPT ![a].pc = "write"]
    /\ UNCHANGED <<table, persisted, booted, dbFailures, crossed, missed>>

\* The next of its writes.
AdminWrites(a) ==
    /\ adm[a].pc = "write" /\ adm[a].todo # <<>>
    /\ table' \in Written(Head(adm[a].todo), table)
    /\ adm' = [adm EXCEPT ![a].todo = Tail(@)]
    /\ UNCHANGED <<persisted, booted, dbFailures, crossed, missed>>

\* Mutant: a reload that starts while another waits for its rows is not
\* needed, as that one will bring them.
ReloadReads_Coalesced(a) ==
    /\ adm[a].pc = "write" /\ adm[a].todo = <<>>
    /\ adm' = IF \E b \in Admin : adm[b].pc = "apply"
              THEN [adm EXCEPT ![a].pc = "done"]
              ELSE [adm EXCEPT ![a].pc = "apply", ![a].rows = HostsOf(table)]
    /\ missed' = FALSE
    /\ UNCHANGED <<table, persisted, booted, dbFailures, crossed>>

\* reloadPersisted: findAll is answered ...
ReloadReads(a) ==
    /\ adm[a].pc = "write" /\ adm[a].todo = <<>>
    /\ adm' = [adm EXCEPT ![a].pc = "apply", ![a].rows = HostsOf(table)]
    /\ crossed' = (crossed \/ \E b \in Admin : adm[b].pc = "apply")
    /\ missed' = FALSE
    /\ UNCHANGED <<table, persisted, booted, dbFailures>>

\* ... and the answer replaces the copy.
ReloadApplies(a) ==
    /\ adm[a].pc = "apply"
    /\ persisted' = adm[a].rows
    /\ adm' = [adm EXCEPT ![a].pc = "done", ![a].rows = {}]
    /\ UNCHANGED <<table, booted, dbFailures, crossed, missed>>

\* A query fails and the call with it: its other writes and the reload are
\* not made. (update catches its own errors and goes on to the reload.)
AdminFails(a) ==
    /\ adm[a].pc = "write" /\ dbFailures < MaxDbFailures
    /\ dbFailures' = dbFailures + 1
    /\ IF adm[a].todo # <<>> /\ Head(adm[a].todo).kind = "update"
       THEN /\ adm' = [adm EXCEPT ![a].todo = Tail(@)]
            /\ missed' = missed
       ELSE /\ adm' = [adm EXCEPT ![a].pc = "done", ![a].todo = <<>>]
            /\ missed' = TRUE
    /\ UNCHANGED <<table, persisted, booted, crossed>>

AdminStep(a) ==
    AdminWrites(a) \/ ReloadReads(a) \/ ReloadApplies(a) \/ AdminFails(a)

ListNext == Boot \/ \E a \in Admin : AdminCalls(a) \/ AdminStep(a)

-----------------------------------------------------------------------------

ListTypeOK ==
    /\ table \in [Row -> Host \cup {Unused, Removed}]
    /\ persisted \subseteq Host /\ booted \in BOOLEAN
    /\ adm \in [Admin -> [pc : {"idle", "write", "apply", "done"},
                         todo : Seq([kind : {"add", "remove"}, host : Host]
                                    \cup [kind : {"update"}, row : Row, host : Host]),
                         rows : SUBSET Host]]
    /\ dbFailures \in Nat /\ crossed \in BOOLEAN /\ missed \in BOOLEAN

\* "A newly-added host is honored immediately", a removed one no longer: when
\* no call is in progress, the copy that isAllowed consults holds the rows of
\* the table. Not after two reloads overlapped (the older answer may be
\* applied last, jwks-host-allowlist.service.ts:258-264), nor after a call
\* that wrote and then failed, until the next reload.
AllowlistFollowsTable ==
    booted /\ ~crossed /\ ~missed /\ (\A a \in Admin : adm[a].pc \in {"idle", "done"})
        => persisted = HostsOf(table)

ListSpec == ListInit /\ [][ListNext]_listVars
=============================================================================
