-------------------------- MODULE EndpointCredentials --------------------------
(***************************************************************************)
(* The credentials of one endpoint: admin-credential.controller.ts over    *)
(* the table EndpointCredential, the server's setting of whether secrets   *)
(* are kept (admin-security-settings.controller.ts), and the two places    *)
(* where a secret is presented (endpoint-credential.authenticator.ts,      *)
(* client-secret-token-provider.ts).                                       *)
(*                                                                         *)
(* A request makes the queries of its plan, of which "step" is the next,   *)
(* or 0 when there is none; one action is one query with the code behind   *)
(* it, which touches only the request's own variables. A credential has    *)
(* the name of the request that made it, and stands for its secret too.    *)
(* The methods are enabled on the endpoint, no credential expires,         *)
(* administrators leave the client id to the server, and a trust is named  *)
(* after the request that wrote it.                                        *)
(***************************************************************************)
EXTENDS Naturals, Sequences

CONSTANTS
    Request,
    First,       \* the credentials that exist at the start
    FirstRows,   \* what their rows may be
    DefaultId,   \* client-id-<endpointId>
    None,
    MaxFailures  \* bound: how many queries are answered with an error

Cred == First \cup Request
Type == {"bearer", "oauth_client", "wif"}
Visibility == {"always", "once"}
ClientId == {DefaultId} \cup Cred

\* EndpointCredential; "trust" and "client" are what its metadata holds.
Row == [type : Type, active : BOOLEAN, client : ClientId \cup {None},
        trust : Cred \cup {None}, label : Cred \cup {None}, kept : BOOLEAN]

\* The shape of a row: clients have a client id, trusts a trust and nothing
\* to keep.
WellFormed(row) ==
    /\ row.type = "oauth_client" <=> row.client # None
    /\ row.type = "wif" <=> row.trust # None
    /\ row.type = "wif" => ~row.kept

ASSUME CredentialAssumption ==
    /\ First \cap Request = {} /\ DefaultId \notin Request
    /\ None \notin Cred \cup {DefaultId} \cup Row
    /\ FirstRows \subseteq [First -> Row \cup {None}]
    /\ \A first \in FirstRows : \A c \in First :
          first[c] # None => WellFormed(first[c]) /\ first[c].client \notin Request
    /\ MaxFailures \in Nat

\* The queries of each operation, in the order of the code.
Plan ==
    [bearer |-> <<"visibility", "insert">>,
     oauth_client |-> <<"clients", "visibility", "insert">>,
     wif |-> <<"insert">>,
     rotate |-> <<"find", "visibility", "insert", "deactivate">>,
     revoke |-> <<"find", "deactivate">>,
     activate |-> <<"find", "reactivate">>,
     edit |-> <<"find", "label">>,
     put |-> <<"find", "metadata", "label">>,
     verify |-> <<"find", "metadata">>,
     reveal |-> <<"find", "visibility">>,
     once |-> <<"setting", "purge">>,
     always |-> <<"setting">>,
     authenticate |-> <<"active">>,
     mint |-> <<"active">>]

VARIABLES
    rows,      \* the table: the row of each credential
    server,    \* ServerSetting credentialSecretVisibility
    setting,   \* the endpoint's own CredentialSecretVisibility
    req,       \* the requests
    failures,
    issued,    \* history: the credentials whose secret somebody was given
    retired,   \* history: those deactivated and not reactivated since
    rotated,   \* history: those from which another was rotated
    branched,  \* history: client ids given twice, or whose credential was
               \* rotated twice, reactivated after it, not deactivated by it,
               \* or rotated on before the rotation that made it had ended
    late,      \* history: a purge failed, or a secret to be kept was in hand
               \* while it ran
    edited,    \* history: the last trust written by an administrator
    lapsed     \* history: those where a verification wrote back an older one

history == <<issued, retired, rotated, branched, late, edited, lapsed>>
vars == <<rows, server, setting, req, failures, history>>

Ask(op, on) ==
    [op |-> op, on |-> on, status |-> "new", step |-> 1, found |-> None,
     vis |-> "always", client |-> None, keep |-> FALSE,
     stale |-> FALSE, dead |-> FALSE, excuse |-> "none"]

\* Two credentials of one client id in the table t.
SameId(t, c, d) ==
    /\ c # d /\ t[c] # None /\ t[d] # None
    /\ t[c].client # None /\ t[c].client = t[d].client

\* Where secrets are shown once, none has been kept. Of a client id with two
\* active credentials nobody knows how it came to them; a revoked one whose
\* client id another has was rotated out.
Init ==
    /\ \E first \in FirstRows :
        /\ rows = [c \in Cred |-> IF c \in First THEN first[c] ELSE None]
        /\ retired = {c \in First : first[c] # None /\ ~first[c].active}
        /\ edited = [c \in Cred |-> IF c \in First /\ first[c] # None
                                    THEN first[c].trust ELSE None]
        /\ issued = {c \in First : first[c] # None /\ first[c].type # "wif"}
        /\ rotated = {c \in First : (\E d \in First : SameId(first, c, d)) /\ ~first[c].active}
        /\ branched = {k \in ClientId : \E c, d \in First :
                          /\ SameId(first, c, d) /\ first[c].client = k
                          /\ first[c].active /\ first[d].active}
    /\ server \in Visibility /\ setting \in Visibility
    /\ server = "once" => \A c \in First : rows[c] # None => ~rows[c].kept
    /\ req \in [Request -> {Ask(op, c) : op \in DOMAIN Plan, c \in Cred}]
    /\ failures = 0
    /\ late = FALSE /\ lapsed = {}

-----------------------------------------------------------------------------

\* The request's next query is q.
At(r, q) == req[r].status = "open" /\ req[r].step # 0 /\ Plan[req[r].op][req[r].step] = q

\* How a query may end: answered; not executed; executed, but the answer is
\* an error.
Outcome == {"answered", "failed", "lost"}
Ends(o) ==
    /\ o # "answered" => failures < MaxFailures
    /\ failures' = IF o = "answered" THEN failures ELSE failures + 1

\* The request goes on behind its query, or ends there.
Advance(q) ==
    IF q.step = Len(Plan[q.op])
    THEN [q EXCEPT !.step = 0, !.status = "ok"]
    ELSE [q EXCEPT !.step = @ + 1]
GoOn(r) == req' = [req EXCEPT ![r] = Advance(@)]
Stop(r, status) == req' = [req EXCEPT ![r].status = status, ![r].step = 0]

\* A request arrives and reads the endpoint, whose settings it uses to its
\* end. A secret can be presented by whoever was given it.
Arrive(r) ==
    /\ req[r].status = "new"
    /\ req[r].op \in {"authenticate", "mint"} => req[r].on \in issued
    /\ req[r].op = "mint" => rows[req[r].on].type = "oauth_client"
    /\ req' = [req EXCEPT ![r].status = "open", ![r].vis = setting,
                          ![r].dead = req[r].on \in retired]
    /\ UNCHANGED <<rows, server, setting, failures, history>>

\* Only a secret is rotated, only a trust is replaced or noted as verified.
Suits(op, type) ==
    /\ op = "rotate" => type # "wif"
    /\ op \in {"put", "verify"} => type = "wif"

\* findById, which is null after an error too: 404, or nothing is noted.
Find(r) ==
    LET c == req[r].on IN
    /\ At(r, "find")
    /\ \E o \in Outcome :
        /\ Ends(o)
        /\ IF o = "answered" /\ rows[c] # None /\ Suits(req[r].op, rows[c].type)
           THEN req' = [req EXCEPT ![r] = Advance([@ EXCEPT !.found = rows[c]])]
           ELSE Stop(r, IF req[r].op = "verify" THEN "ok" ELSE "refused")
    /\ UNCHANGED <<rows, server, setting, history>>

\* Mutant: only the clients that may be used are looked at.
ListClients_ActiveOnly(r) ==
    /\ At(r, "clients")
    /\ LET other == \E c \in Cred : rows[c] # None /\ rows[c].type = "oauth_client"
                                    /\ rows[c].active IN
       req' = [req EXCEPT ![r] = Advance([@ EXCEPT !.client = IF other THEN r ELSE DefaultId])]
    /\ UNCHANGED <<rows, server, setting, failures, history>>

\* findByEndpoint: the first client gets the readable id, any other a new one.
ListClients(r) ==
    LET other == \E c \in Cred : rows[c] # None /\ rows[c].type = "oauth_client" IN
    /\ At(r, "clients")
    /\ \E o \in Outcome :
        /\ Ends(o)
        /\ IF o = "answered"
           THEN req' = [req EXCEPT ![r] =
                   Advance([@ EXCEPT !.client = IF other THEN r ELSE DefaultId])]
           ELSE Stop(r, "error")
    /\ UNCHANGED <<rows, server, setting, history>>

\* getEffectiveCredentialSecretVisibility: the server's setting is the ceiling.
Effective(r) == IF server = "once" THEN "once" ELSE req[r].vis

\* maybeRetainSecret, which keeps nothing after an error.
Retain(r) ==
    /\ At(r, "visibility") /\ req[r].op # "reveal"
    /\ \E o \in Outcome :
        /\ Ends(o)
        /\ req' = [req EXCEPT ![r] =
               Advance([@ EXCEPT !.keep = o = "answered" /\ Effective(r) = "always"])]
    /\ UNCHANGED <<rows, server, setting, history>>

\* revealCredential shows what was kept when the credential was found.
Reveal(r) ==
    /\ At(r, "visibility") /\ req[r].op = "reveal"
    /\ \E o \in Outcome :
        /\ Ends(o)
        /\ Stop(r, CASE o # "answered" -> "error"
                     [] o = "answered" /\ Effective(r) = "always" /\ req[r].found.kept -> "shown"
                     [] OTHER -> "hidden")
    /\ UNCHANGED <<rows, server, setting, history>>

\* What create or rotate inserts; a rotation keeps type, label and client id.
NewRow(r) ==
    LET q == req[r] IN
    IF q.op = "rotate"
    THEN [q.found EXCEPT !.active = TRUE, !.kept = q.keep]
    ELSE [type |-> q.op, active |-> TRUE, client |-> q.client,
          trust |-> IF q.op = "wif" THEN r ELSE None, label |-> r, kept |-> q.keep]

\* Another create has chosen the same client id and not inserted it yet.
SharesId(r) ==
    req[r].client # None
    /\ \E s \in Request \ {r} : req[s].status = "open" /\ req[s].client = req[r].client

\* c is what a rotation inserted that has not ended yet.
Unfinished(c) == c \in Request /\ req[c].op = "rotate" /\ req[c].status = "open"

\* create. Nobody knows the secret of a credential whose insert was lost; that
\* of a rotation is given out at its end.
Insert(r) ==
    LET q == req[r]
        twice == IF q.op = "rotate" THEN q.on \in rotated \/ Unfinished(q.on) ELSE SharesId(r) IN
    /\ At(r, "insert")
    /\ \E o \in Outcome :
        /\ Ends(o)
        /\ IF o = "answered" THEN GoOn(r) ELSE Stop(r, "error")
        /\ rows' = IF o = "failed" THEN rows ELSE [rows EXCEPT ![r] = NewRow(r)]
        /\ issued' = IF o = "answered" /\ q.op \in {"bearer", "oauth_client"}
                     THEN issued \cup {r} ELSE issued
        /\ rotated' = IF o # "failed" /\ q.op = "rotate" THEN rotated \cup {q.on} ELSE rotated
        /\ branched' = IF o # "failed" /\ (twice \/ (q.op = "rotate" /\ o = "lost"))
                       THEN branched \cup {NewRow(r).client} ELSE branched
        /\ edited' = IF o # "failed" THEN [edited EXCEPT ![r] = NewRow(r).trust] ELSE edited
    /\ UNCHANGED <<server, setting, retired, late, lapsed>>

\* deactivate, which swallows its errors: a revocation and a rotation go on,
\* and are answered as if it had worked.
Deactivate(r) ==
    LET q == req[r] IN
    /\ At(r, "deactivate")
    /\ \E o \in Outcome :
        /\ Ends(o)
        /\ rows' = IF o = "failed" THEN rows ELSE [rows EXCEPT ![q.on].active = FALSE]
        /\ retired' = IF o = "failed" THEN retired ELSE retired \cup {q.on}
        /\ branched' = IF o = "failed" /\ q.op = "rotate"
                       THEN branched \cup {q.found.client} ELSE branched
    /\ issued' = IF q.op = "rotate" THEN issued \cup {r} ELSE issued
    /\ GoOn(r)
    /\ UNCHANGED <<server, setting, rotated, late, edited, lapsed>>

\* reactivate: 404 after an error.
Reactivate(r) ==
    LET c == req[r].on IN
    /\ At(r, "reactivate")
    /\ \E o \in Outcome :
        /\ Ends(o)
        /\ rows' = IF o = "failed" THEN rows ELSE [rows EXCEPT ![c].active = TRUE]
        /\ retired' = IF o = "failed" THEN retired ELSE retired \ {c}
        /\ branched' = IF o # "failed" /\ c \in rotated
                       THEN branched \cup {rows[c].client} ELSE branched
        /\ req' = [s \in Request |->
             CASE s = r -> IF o = "answered" THEN Advance(req[r])
                           ELSE [req[r] EXCEPT !.status = "refused", !.step = 0]
               [] s # r /\ o # "failed" /\ req[s].on = c -> [req[s] EXCEPT !.dead = FALSE]
               [] OTHER -> req[s]]
    /\ UNCHANGED <<server, setting, issued, rotated, late, edited, lapsed>>

\* Mutant: the whole row is written back as it was found.
WriteLabel_WholeRow(r) ==
    /\ At(r, "label")
    /\ rows' = [rows EXCEPT ![req[r].on] = [req[r].found EXCEPT !.label = r]]
    /\ GoOn(r)
    /\ UNCHANGED <<server, setting, failures, history>>

\* updateLabel, of an edit (404 after an error) or at the end of a replacement
\* (which ignores one).
WriteLabel(r) ==
    /\ At(r, "label")
    /\ \E o \in Outcome :
        /\ Ends(o)
        /\ rows' = IF o = "failed" THEN rows ELSE [rows EXCEPT ![req[r].on].label = r]
        /\ IF o = "answered" \/ req[r].op = "put" THEN GoOn(r) ELSE Stop(r, "refused")
    /\ UNCHANGED <<server, setting, history>>

\* Mutant: a replaced trust is merged with the one that was found, which wins.
NewTrust_FoundWins(r) == req[r].found.trust

\* A replacement brings its own trust, a verification adds its time to what
\* it found.
NewTrust(r) == IF req[r].op = "put" THEN r ELSE req[r].found.trust

\* updateMetadata; a replacement may go on to the label, a verification
\* ignores an error.
WriteMetadata(r) ==
    LET c == req[r].on
        put == req[r].op = "put" IN
    /\ At(r, "metadata")
    /\ \E o \in Outcome, relabel \in BOOLEAN :
        /\ Ends(o)
        /\ rows' = IF o = "failed" THEN rows ELSE [rows EXCEPT ![c].trust = NewTrust(r)]
        /\ edited' = IF o # "failed" /\ put THEN [edited EXCEPT ![c] = r] ELSE edited
        /\ lapsed' = CASE o # "failed" /\ put -> lapsed \ {c}
                       [] o # "failed" /\ ~put /\ req[r].stale -> lapsed \cup {c}
                       [] OTHER -> lapsed
        /\ req' = [s \in Request |->
             CASE s = r /\ put /\ o = "answered" /\ relabel -> Advance(req[r])
               [] s = r /\ put /\ o # "answered" ->
                    [req[r] EXCEPT !.status = "refused", !.step = 0]
               [] s # r /\ put /\ o # "failed" /\ req[s].on = c /\ At(s, "metadata") ->
                    [req[s] EXCEPT !.stale = TRUE]
               [] s = r /\ (~put \/ (o = "answered" /\ ~relabel)) ->
                    [req[r] EXCEPT !.status = "ok", !.step = 0]
               [] OTHER -> req[s]]
    /\ UNCHANGED <<server, setting, issued, retired, rotated, branched, late>>

\* setServerVisibility
SetServer(r) ==
    /\ At(r, "setting")
    /\ \E o \in Outcome :
        /\ Ends(o)
        /\ server' = IF o = "failed" THEN server ELSE req[r].op
        /\ late' = (late \/ (o = "lost" /\ req[r].op = "once"))
        /\ IF o = "answered" THEN GoOn(r) ELSE Stop(r, "error")
    /\ UNCHANGED <<rows, setting, issued, retired, rotated, branched, edited, lapsed>>

\* Mutant: what is revoked is left alone.
Purged_ActiveOnly ==
    [c \in Cred |-> IF rows[c] = None \/ ~rows[c].active THEN rows[c]
                    ELSE [rows[c] EXCEPT !.kept = FALSE]]

Purged ==
    [c \in Cred |-> IF rows[c] = None THEN None ELSE [rows[c] EXCEPT !.kept = FALSE]]

\* clearAllSecretEnvelopes
Purge(r) ==
    /\ At(r, "purge")
    /\ \E o \in Outcome :
        /\ Ends(o)
        /\ rows' = IF o = "failed" THEN rows ELSE Purged
        /\ late' = IF o = "failed" THEN TRUE
                   ELSE \E s \in Request : At(s, "insert") /\ req[s].keep
        /\ IF o = "answered" THEN GoOn(r) ELSE Stop(r, "error")
    /\ UNCHANGED <<server, setting, issued, retired, rotated, branched, edited, lapsed>>

-----------------------------------------------------------------------------

\* The credential is revoked, or a revocation or rotation of it has begun.
Leaving(c) ==
    c \in retired \/ \E s \in Request : /\ req[s].op \in {"revoke", "rotate"}
                                       /\ req[s].on = c /\ req[s].status = "open"

\* findActiveByEndpoint, in any order. The authenticator compares a secret with
\* every credential, the token endpoint with the first of that client id. An
\* error reaches the caller of the token endpoint; the authenticator swallows
\* it, and the guard answers 401 as it does to a wrong secret.
LookUp(r) ==
    LET c == req[r].on
        usable == {d \in Cred : rows[d] # None /\ rows[d].active}
        same == {d \in usable : rows[d].type = "oauth_client" /\ rows[d].client = rows[c].client}
        matches == IF req[r].op = "mint"
                   THEN {d = c : d \in same} \cup (IF same = {} THEN {FALSE} ELSE {})
                   ELSE {c \in usable} IN
    /\ At(r, "active")
    /\ \E o \in Outcome, match \in matches :
        /\ Ends(o)
        /\ req' = [req EXCEPT
             ![r].step = 0,
             ![r].status = CASE o = "answered" /\ match -> "accepted"
                             [] o # "answered" /\ req[r].op = "mint" -> "error"
                             [] OTHER -> "rejected",
             ![r].excuse = CASE Leaving(c) -> "revoked"
                             [] ~Leaving(c) /\ o # "answered" -> "failed"
                             [] ~Leaving(c) /\ o = "answered" /\ req[r].op = "mint"
                                  /\ rows[c].client \in branched -> "branched"
                             [] OTHER -> "none"]
    /\ UNCHANGED <<rows, server, setting, history>>

\* Everybody who came has been answered.
Done == (\A r \in Request : req[r].status # "open") /\ UNCHANGED vars

Next ==
    \/ Done
    \/ \E r \in Request :
        \/ Arrive(r) \/ Find(r) \/ ListClients(r) \/ Retain(r) \/ Reveal(r) \/ Insert(r)
        \/ Deactivate(r) \/ Reactivate(r) \/ WriteLabel(r) \/ WriteMetadata(r)
        \/ SetServer(r) \/ Purge(r) \/ LookUp(r)

Spec == Init /\ [][Next]_vars

-----------------------------------------------------------------------------
(* Properties                                                               *)

Status == {"new", "open", "ok", "refused", "error", "shown", "hidden", "accepted", "rejected"}
Excuse == {"none", "revoked", "failed", "branched"}

\* The shape of the state.
Asked ==
    [op : DOMAIN Plan, on : Cred, status : Status, step : 0..4, found : Row \cup {None},
     vis : Visibility, client : ClientId \cup {None}, keep : BOOLEAN,
     stale : BOOLEAN, dead : BOOLEAN, excuse : Excuse]

TypeOK ==
    /\ rows \in [Cred -> Row \cup {None}]
    /\ \A c \in Cred : rows[c] # None => WellFormed(rows[c])
    /\ server \in Visibility /\ setting \in Visibility
    /\ req \in [Request -> Asked]
    /\ \A r \in Request : /\ req[r].step <= Len(Plan[req[r].op])
                          /\ req[r].found # None => WellFormed(req[r].found)
    /\ issued \cup retired \cup rotated \cup lapsed \subseteq {c \in Cred : rows[c] # None}
    /\ branched \subseteq ClientId \cup {None}
    /\ late \in BOOLEAN
    /\ edited \in [Cred -> Cred \cup {None}]
    /\ failures \in 0..MaxFailures

\* "Marked inactive and will no longer match during auth"
\* (admin-credential.controller.ts:626): a secret presented after its
\* credential was revoked, or rotated out, is not accepted, unless somebody
\* reactivated it. Labels, trusts and purges that are written meanwhile do not
\* bring it back. Not if the database refused the deactivation: the request is
\* answered 204 all the same (:642, :949).
RevokedIsRefused ==
    \A r \in Request : req[r].status = "accepted" => ~req[r].dead

\* A secret that was given out is accepted as long as nobody revokes its
\* credential, with two exceptions. A request whose own lookup failed is
\* answered 401 invalid_token, as if the secret were wrong
\* (endpoint-credential.authenticator.ts:131-137, shared-secret.guard.ts:
\* 197-210). And the token endpoint, which tries one credential per client id
\* (client-secret-token-provider.ts:56), may try another once that id has
\* branched: by two creates at a time, two rotations of one credential, a
\* reactivation of a rotated one, a rotation that failed to deactivate, or one
\* that had yet to when what it inserted was rotated on.
IssuedSecretAccepted ==
    \A r \in Request : req[r].status = "rejected" => req[r].excuse # "none"

\* "Flipping the server to once purges retained envelopes"
\* (AUTHENTICATION_CONFIGURATION_REFERENCE.md:143): when the server shows
\* secrets once and no such request is in progress, no secret is kept, unless
\* the purge failed, or a secret was encrypted before it and inserted after.
OnceKeepsNoSecret ==
    server = "once" /\ ~late /\ (\A r \in Request : ~At(r, "purge"))
        => \A c \in Cred : rows[c] # None => ~rows[c].kept

\* A replaced trust stands (:742, :265): what a credential trusts is what an
\* administrator last wrote, unless a verification that had read it before
\* wrote the metadata back.
TrustStands ==
    \A c \in Cred \ lapsed : rows[c] # None => rows[c].trust = edited[c]
=============================================================================
