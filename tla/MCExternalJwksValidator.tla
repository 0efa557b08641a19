----------------------- MODULE MCExternalJwksValidator -----------------------
(***************************************************************************)
(* Model of ExternalJwksValidator and JwksHostAllowlist for TLC: one trust *)
(* whose host is in the seed, one host that administrators add and remove  *)
(* and to which the trust may redirect, one more they may add; a server    *)
(* policy and a stricter one of an endpoint; two generations of keys, and  *)
(* tokens signed with the first.                                           *)
(***************************************************************************)
EXTENDS ExternalJwksValidator

CONSTANTS idp, other, third, n1, n2, v1, v2, a1, a2

MCServer == [timeout |-> 1, retries |-> 1, backoff |-> 1, maxAge |-> 1, deadline |-> 2,
             maxEntries |-> 1, refresh |-> 1, unknownKid |-> 1, stale |-> 2]
MCEndpoint == [MCServer EXCEPT !.retries = 0, !.deadline = 1, !.maxAge = 0, !.stale = 0]
MCPolicy == {MCServer, MCEndpoint}

WithKid == [kid |-> 1, signer |-> 1]
WithoutKid == [kid |-> NoKid, signer |-> 1]
MCToken == {WithKid, WithoutKid}
MCKeySet == {{1}, {2}}

CallSeq ==
    << <<[kind |-> "remove", host |-> other]>>,
       <<[kind |-> "add", host |-> other]>>,
       <<[kind |-> "add", host |-> third], [kind |-> "remove", host |-> other]>>,
       <<[kind |-> "update", row |-> 2, host |-> third]>> >>
MCCall == {CallSeq[i] : i \in DOMAIN CallSeq}

\* The seed has been written by an earlier start.
MCFirstTables ==
    {[r \in Row |-> CASE r = 1 -> idp [] r = 2 -> other [] OTHER -> Unused]}

(***************************************************************************)
(* Three instances in one: two verifications; one beside a call that       *)
(* removes the host to which its URI may redirect; two calls that overlap, *)
(* in a process without trusts. The trusts that the start of the process   *)
(* finds are those of the verifications.                                   *)
(***************************************************************************)
MCInit ==
    /\ Init
    /\ \/ /\ adm[a1].todo = <<>> /\ adm[a2].todo = <<>>
          /\ req[v1] = Asked(idp, MCServer, WithKid)
          /\ req[v2] = Asked(idp, MCEndpoint, WithoutKid)
       \/ /\ adm[a1].todo = CallSeq[1] /\ adm[a2].todo = <<>>
          /\ req[v1] \in {Asked(idp, MCServer, t) : t \in Token} /\ req[v2] = Over("idle")
       \/ /\ \E i \in 1..3 : adm[a1].todo = CallSeq[i] /\ adm[a2].todo = CallSeq[i + 1]
          /\ \A v \in Verifier : req[v] = Over("idle")
    /\ prewarm.trusts = {req[v].uri : v \in Verifier} \ {None}

MCSpec == MCInit /\ [][Next]_vars /\ Fairness
=============================================================================
