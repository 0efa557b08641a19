------------------------ MODULE MCEndpointCredentials ------------------------
(***************************************************************************)
(* Model of EndpointCredentials for TLC: any three requests about a        *)
(* client that exists, a trust that exists, or what the others create.     *)
(***************************************************************************)
EXTENDS EndpointCredentials, TLC

CONSTANTS client, trust, r1, r2, r3

ClientRow(active, kept) ==
    [type |-> "oauth_client", active |-> active, client |-> DefaultId, trust |-> None,
     label |-> client, kept |-> kept]
TrustRow ==
    [type |-> "wif", active |-> TRUE, client |-> None, trust |-> trust, label |-> trust,
     kept |-> FALSE]

\* No client yet, an active one, a revoked one, or one of which nothing is kept.
MCFirstRows ==
    {(client :> c) @@ (trust :> TrustRow) :
        c \in {None, ClientRow(TRUE, TRUE), ClientRow(FALSE, TRUE), ClientRow(TRUE, FALSE)}}

\* The operations with what they are about: the client, the trust, or what r1
\* or r2 creates. Requests differ by nothing else, so one order of each combination
\* is enough.
Tasks ==
    <<<<"bearer", client>>, <<"oauth_client", client>>, <<"wif", client>>,
      <<"rotate", client>>, <<"once", client>>, <<"always", client>>,
      <<"edit", client>>, <<"revoke", client>>, <<"activate", client>>,
      <<"reveal", client>>, <<"rotate", r1>>, <<"revoke", r1>>,
      <<"put", trust>>, <<"verify", trust>>,
      <<"authenticate", client>>, <<"authenticate", r1>>,
      <<"mint", client>>, <<"mint", r1>>, <<"mint", r2>>>>

MCInit ==
    /\ \E i, j, k \in DOMAIN Tasks :
        /\ i <= j /\ j <= k
        /\ req = (r1 :> Ask(Tasks[i][1], Tasks[i][2])) @@ (r2 :> Ask(Tasks[j][1], Tasks[j][2]))
                 @@ (r3 :> Ask(Tasks[k][1], Tasks[k][2]))
    /\ Init
    /\ server = "once" => setting = "always"
MCSpec == MCInit /\ [][Next]_vars
=============================================================================
