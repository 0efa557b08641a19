------------------------ MODULE ExternalJwksValidator ------------------------
(***************************************************************************)
(* The keys with which tokens of identity providers are verified:          *)
(* external-jwks-validator.service.ts, with jwks-prewarm.service.ts and    *)
(* the policies of egress-policy.ts. Key sets are fetched over HTTP and    *)
(* cached per URI; concurrent needs of one URI share one fetch; a fetch    *)
(* retries within a deadline, follows redirects to listed hosts, and when  *)
(* it fails may serve cached keys up to a ceiling of age.                  *)
(*                                                                         *)
(* A URI is its host. Time is an integer clock; a timer runs when it is    *)
(* due, and the steps between two awaits take no time. What an identity    *)
(* provider answers is any key set, at any time, or nothing.               *)
(***************************************************************************)
EXTENDS JwksHostAllowlist

CONSTANTS
    Uri,          \* the jwksUris of the trusts, each a host
    Verifier,     \* verifications, one each
    Slot,         \* names for the fetches of one URI
    Policy,       \* egress policies: the server's and those of endpoints
    Server,       \* the server's
    Token,        \* what can be presented: the kid in the header, the signer
    KeySet,       \* what can be published: sets of key ids
    NoKid,        \* a header without kid
    None,         \* no entry, no fetch, no time
    MaxRedirects, \* MAX_JWKS_REDIRECTS
    MaxTime,      \* bound: no request or idle time after it
    MaxSweeps     \* bound: how often the refresh timer fires

PolicyFields ==
    {"timeout", "retries", "backoff", "maxAge", "deadline", "maxEntries",
     "refresh", "unknownKid", "stale"}

ASSUME PolicyAssumption ==
    /\ Server \in Policy
    /\ \A p \in Policy : /\ DOMAIN p = PolicyFields
                         /\ \A x \in PolicyFields : p[x] \in Nat
                         /\ p.timeout > 0 /\ p.deadline > 0 /\ p.maxEntries > 0
ASSUME UriAssumption == Uri \subseteq Host /\ Slot # {} /\ None \notin Host \cup Nat \cup Slot
ASSUME TimeAssumption == MaxRedirects \in Nat /\ MaxTime \in Nat /\ MaxSweeps \in Nat

VARIABLES
    now,
    cache,      \* cache: the entry of each URI (maxAge: history, the lifetime
                \* its fetcher's policy allows)
    fetch,      \* the calls of fetchJwksWithRetry under way
    inflight,   \* inflight: the fetch others may join
    resolved,   \* resolvedUri: where a URI redirected to
    lastKid,    \* lastUnknownKidFetchAt
    req,        \* the verifications (since, excuse, limit: history)
    prewarm,    \* JwksPrewarmService: "no", "running", "done"; the URIs of
                \* the active trusts in the table of credentials
    sweeps

jwksVars == <<now, cache, fetch, inflight, resolved, lastKid, req, prewarm, sweeps>>
vars == <<listVars, jwksVars>>

NoKeys == [kids |-> {}, at |-> 0]

\* A verification that has ended (or, idle with no URI, is not asked for).
Over(pc) == [pc |-> pc, uri |-> None, pol |-> Server, token |-> None, keys |-> NoKeys,
             limit |-> 0, tried |-> FALSE, since |-> 0, excuse |-> FALSE]

Asked(u, p, t) == [Over("idle") EXCEPT !.uri = u, !.pol = p, !.token = t]

Init ==
    /\ ListInit
    /\ now = 0
    /\ cache = [u \in Uri |-> None]
    /\ fetch = [u \in Uri |-> [n \in Slot |-> None]]
    /\ inflight = [u \in Uri |-> None]
    /\ resolved = [u \in Uri |-> None]
    /\ lastKid = [u \in Uri |-> None]
    /\ req \in [Verifier -> {Asked(u, p, t) : u \in Uri, p \in Policy, t \in Token}
                            \cup {Over("idle")}]
    /\ prewarm \in [state : {"no"}, trusts : SUBSET Uri] /\ sweeps = 0

Running(u) == {n \in Slot : fetch[u][n] # None}

\* Requests are accepted when every onModuleInit has ended.
Listening == booted /\ prewarm.state = "done"

Least(a, b) == IF a <= b THEN a ELSE b

-----------------------------------------------------------------------------
(* Fetching                                                                 *)

\* Where the first request of an attempt goes, and whether it may: a
\* remembered target is asserted again, the URI itself was by verify.
Target(u) == IF resolved[u] = None THEN u ELSE resolved[u]
MayRequest(u) == resolved[u] = None \/ IsAllowed(resolved[u])

\* An attempt whose first request has just been sent. Every request of it
\* gets the whole span.
Attempt(u, p, attempt, deadline) ==
    LET span == Least(p.timeout, deadline - now) IN
    [stage |-> "hop", pol |-> p, attempt |-> attempt, deadline |-> deadline,
     span |-> span, until |-> now + span, hop |-> 0, at |-> Target(u)]

FreeSlot(u) == CHOOSE n \in Slot : fetch[u][n] = None

\* Mutant: whoever needs keys fetches them.
Start_NoSingleFlight(us, p) ==
    LET new == {u \in us : MayRequest(u)} IN
    /\ fetch' = [u \in Uri |-> IF u \in new
                               THEN [fetch[u] EXCEPT ![FreeSlot(u)] =
                                        Attempt(u, p, 0, now + p.deadline)]
                               ELSE fetch[u]]
    /\ inflight' = [u \in Uri |-> IF u \in new THEN FreeSlot(u) ELSE inflight[u]]

\* fetchJwks for these URIs, by callers with this policy: joins the fetch of
\* a URI that has one, else starts it, unless that fails at once.
Start(us, p) ==
    LET new == {u \in us : inflight[u] = None /\ MayRequest(u)} IN
    /\ fetch' = [u \in Uri |-> IF u \in new
                               THEN [fetch[u] EXCEPT ![FreeSlot(u)] =
                                        Attempt(u, p, 0, now + p.deadline)]
                               ELSE fetch[u]]
    /\ inflight' = [u \in Uri |-> IF u \in new THEN FreeSlot(u) ELSE inflight[u]]

\* Mutant: those who awaited a fetch that fails are not told.
Settle_LeavesWaiters(u, n, ok, keys, stale) ==
    /\ fetch' = [fetch EXCEPT ![u][n] = None]
    /\ inflight' = [inflight EXCEPT ![u] = None]
    /\ req' = [v \in Verifier |->
                 IF req[v].pc = "wait" /\ req[v].uri = u /\ ok
                 THEN [req[v] EXCEPT !.pc = "verify", !.keys = keys, !.excuse = stale]
                 ELSE req[v]]

\* A fetch ends: others may start one, and those who awaited it go on.
Settle(u, n, ok, keys, stale) ==
    /\ fetch' = [fetch EXCEPT ![u][n] = None]
    /\ inflight' = [inflight EXCEPT ![u] = None]
    /\ req' = [v \in Verifier |->
                 IF req[v].pc = "wait" /\ req[v].uri = u
                 THEN IF ok THEN [req[v] EXCEPT !.pc = "verify", !.keys = keys, !.excuse = stale]
                            ELSE Over("failed")
                 ELSE req[v]]

\* Mutant: cached keys are served whatever their age.
GiveUp_NoCeiling(u, n) ==
    IF cache[u] # None
    THEN Settle(u, n, TRUE, [kids |-> cache[u].kids, at |-> cache[u].at], TRUE)
    ELSE Settle(u, n, FALSE, NoKeys, FALSE)

\* No attempt is left, or no time: fail to the cached keys if they are not
\* past the ceiling, else fail.
GiveUp(u, n) ==
    IF cache[u] # None /\ now - cache[u].at <= fetch[u][n].pol.stale
    THEN Settle(u, n, TRUE, [kids |-> cache[u].kids, at |-> cache[u].at], TRUE)
    ELSE Settle(u, n, FALSE, NoKeys, FALSE)

\* An attempt fails: give up, or sleep before the next one, never past the
\* deadline.
AttemptFails(u, n) ==
    LET f == fetch[u][n] IN
    IF now >= f.deadline \/ f.attempt >= f.pol.retries
    THEN GiveUp(u, n)
    ELSE /\ \E jitter \in 0..(f.pol.backoff - 1) \cup {0} :
              fetch' = [fetch EXCEPT ![u][n].stage = "sleep",
                                     ![u][n].attempt = @ + 1,
                                     ![u][n].until =
                          now + Least(f.pol.backoff * 2^f.attempt + jitter, f.deadline - now)]
         /\ UNCHANGED <<inflight, req>>

\* The sleep is over: the next attempt, if there is time for it and its
\* first request may be made.
Wakes(u, n) ==
    LET f == fetch[u][n] IN
    /\ f # None /\ f.stage = "sleep" /\ now >= f.until
    /\ CASE f.deadline <= now -> GiveUp(u, n)
         [] f.deadline > now /\ ~MayRequest(u) -> Settle(u, n, FALSE, NoKeys, FALSE)
         [] OTHER -> /\ fetch' = [fetch EXCEPT ![u][n] = Attempt(u, f.pol, f.attempt, f.deadline)]
                     /\ UNCHANGED <<inflight, req>>
    /\ UNCHANGED <<listVars, now, cache, resolved, lastKid, prewarm, sweeps>>

\* The URIs that stay in the cache when one is added: at the cap, the entry
\* fetched first goes.
Evicted(u, p) ==
    LET held == {w \in Uri : cache[w] # None} IN
    IF u \in held \/ Cardinality(held) < p.maxEntries THEN {None}
    ELSE {w \in held : \A x \in held : cache[w].at <= cache[x].at}

\* cacheKeys, with the lifetime the answer's Cache-Control asks for (None:
\* it does not); of entries equally old the one cached first goes.
CacheKeys(u, p, kids, asked) ==
    LET age == IF asked = None THEN p.maxAge ELSE Least(p.maxAge, asked) IN
    \E gone \in Evicted(u, p) :
        cache' = [w \in Uri |-> CASE w = u -> [kids |-> kids, at |-> now, expires |-> now + age,
                                               maxAge |-> p.maxAge]
                                  [] w # u /\ w = gone -> None
                                  [] OTHER -> cache[w]]

\* The request is answered with a body: its target is remembered, and the
\* keys are cached and handed out, unless the body is over a cap, or is no
\* JSON, which fails the attempt only.
Answered(u, n) ==
    LET f == fetch[u][n] IN
    /\ f # None /\ f.stage = "hop"
    /\ resolved' = IF f.at # u THEN [resolved EXCEPT ![u] = f.at] ELSE resolved
    /\ \/ \E kids \in KeySet, asked \in {None, 0} :
            /\ CacheKeys(u, f.pol, kids, asked)
            /\ Settle(u, n, TRUE, [kids |-> kids, at |-> now], FALSE)
       \/ Settle(u, n, FALSE, NoKeys, FALSE) /\ UNCHANGED cache
       \/ AttemptFails(u, n) /\ UNCHANGED cache
    /\ UNCHANGED <<listVars, now, lastKid, prewarm, sweeps>>

\* The request is answered with a redirect: followed to a listed host, with
\* a new timeout; an unlisted one ends the fetch.
Redirected(u, n) ==
    LET f == fetch[u][n] IN
    /\ f # None /\ f.stage = "hop" /\ f.hop < MaxRedirects
    /\ \E h \in Host :
        IF IsAllowed(h)
        THEN /\ fetch' = [fetch EXCEPT ![u][n].hop = @ + 1, ![u][n].at = h,
                                       ![u][n].until = now + f.span]
             /\ UNCHANGED <<inflight, req>>
        ELSE Settle(u, n, FALSE, NoKeys, FALSE)
    /\ UNCHANGED <<listVars, now, cache, resolved, lastKid, prewarm, sweeps>>

\* It is refused, answered with an error or with one redirect too many.
RequestFails(u, n) ==
    /\ fetch[u][n] # None /\ fetch[u][n].stage = "hop"
    /\ AttemptFails(u, n)
    /\ UNCHANGED <<listVars, now, cache, resolved, lastKid, prewarm, sweeps>>

\* It is not answered: the AbortSignal ends it.
RequestTimesOut(u, n) ==
    /\ fetch[u][n] # None /\ fetch[u][n].stage = "hop" /\ now >= fetch[u][n].until
    /\ AttemptFails(u, n)
    /\ UNCHANGED <<listVars, now, cache, resolved, lastKid, prewarm, sweeps>>

\* JwksPrewarmService.onModuleInit: fetch for the trusts that are found (none
\* if the lookup fails), and wait for all of them.
PrewarmStarts ==
    /\ prewarm.state = "no" /\ prewarm' = [prewarm EXCEPT !.state = "running"]
    /\ \E us \in {prewarm.trusts, {}} : Start(us, Server)
    /\ UNCHANGED <<listVars, now, cache, resolved, lastKid, req, sweeps>>

PrewarmEnds ==
    /\ prewarm.state = "running" /\ \A u \in Uri : inflight[u] = None
    /\ prewarm' = [prewarm EXCEPT !.state = "done"]
    /\ UNCHANGED <<listVars, now, cache, fetch, inflight, resolved, lastKid, req, sweeps>>

\* refreshCachedJwksNow, from the timer: fetch again what is old enough, if
\* there is any.
Sweep ==
    LET due == {u \in Uri : cache[u] # None /\ now - cache[u].at >= Server.refresh} IN
    /\ due # {} /\ sweeps < MaxSweeps /\ sweeps' = sweeps + 1
    /\ Start(due, Server)
    /\ UNCHANGED <<listVars, now, cache, resolved, lastKid, req, prewarm>>

-----------------------------------------------------------------------------
(* Verifying                                                                *)

\* verify is called: the host is asked of the list, the policy merged.
VerifyCalled(v) ==
    /\ Listening /\ req[v].pc = "idle" /\ req[v].uri # None /\ now < MaxTime
    /\ req' = [req EXCEPT ![v] = IF IsAllowed(@.uri)
                                  THEN [@ EXCEPT !.pc = "look", !.since = now]
                                  ELSE Over("refused")]
    /\ UNCHANGED <<listVars, now, cache, fetch, inflight, resolved, lastKid, prewarm, sweeps>>

\* How old the keys that a fetch returns may be: as the policy says with
\* which it was started, whoever joins it.
Ceiling(u, p) == IF inflight[u] = None THEN p.stale ELSE fetch[u][inflight[u]].pol.stale

\* await fetchJwks: wait for the fetch, or fail with one that fails at once.
AwaitKeys(v) ==
    LET u == req[v].uri IN
    /\ Start({u}, req[v].pol)
    /\ req' = [req EXCEPT ![v] = IF inflight[u] # None \/ MayRequest(u)
                                  THEN [@ EXCEPT !.tried = TRUE, !.pc = "wait",
                                                 !.limit = Ceiling(u, req[v].pol)]
                                  ELSE Over("failed")]

Fresh(u) == cache[u] # None /\ now <= cache[u].expires

\* mayRefetchForUnknownKid
MayRefetch(u, p) == lastKid[u] = None \/ now - lastKid[u] >= p.unknownKid

\* The cached keys, if fresh; if they lack the kid a fetch, at most one per
\* interval, the others go on with the cached keys and do not try again.
Looks(v) ==
    LET u == req[v].uri
        kid == req[v].token.kid
        unknown == kid # NoKid /\ kid \notin cache[u].kids
        cached == [req EXCEPT ![v].pc = "verify",
                              ![v].keys = [kids |-> cache[u].kids, at |-> cache[u].at],
                              ![v].limit = cache[u].maxAge] IN
    /\ req[v].pc = "look"
    /\ CASE ~Fresh(u) -> AwaitKeys(v) /\ UNCHANGED lastKid
         [] Fresh(u) /\ ~unknown ->
                req' = cached /\ UNCHANGED <<fetch, inflight, lastKid>>
         [] Fresh(u) /\ unknown /\ MayRefetch(u, req[v].pol) ->
                AwaitKeys(v) /\ lastKid' = [lastKid EXCEPT ![u] = now]
         [] OTHER -> /\ req' = [cached EXCEPT ![v].tried = TRUE, ![v].excuse = TRUE]
                     /\ UNCHANGED <<fetch, inflight, lastKid>>
    /\ UNCHANGED <<listVars, now, cache, resolved, prewarm, sweeps>>

\* jwtVerify with a local key set: the key the header names, or the only one.
Verifies(t, kids) ==
    t.signer \in kids /\ IF t.kid = NoKid THEN kids = {t.signer} ELSE t.kid = t.signer

\* Mutant: keys from the cache are enough to reject a token.
Verified_NoRefetch(v) ==
    /\ req[v].pc = "verify"
    /\ req' = [req EXCEPT ![v] = IF Verifies(@.token, @.keys.kids)
                                  THEN Over("accepted") ELSE Over("rejected")]
    /\ UNCHANGED <<listVars, now, cache, fetch, inflight, resolved, lastKid, prewarm, sweeps>>

\* verifyWithKeys; a failure with cached keys may be a rotated key, and is
\* tried once more with fetched ones.
Verified(v) ==
    /\ req[v].pc = "verify"
    /\ CASE Verifies(req[v].token, req[v].keys.kids) ->
              req' = [req EXCEPT ![v] = Over("accepted")] /\ UNCHANGED <<fetch, inflight>>
         [] ~Verifies(req[v].token, req[v].keys.kids) /\ req[v].tried ->
              req' = [req EXCEPT ![v] = Over("rejected")] /\ UNCHANGED <<fetch, inflight>>
         [] OTHER -> AwaitKeys(v)
    /\ UNCHANGED <<listVars, now, cache, resolved, lastKid, prewarm, sweeps>>

-----------------------------------------------------------------------------

Urgent ==
    \/ \E v \in Verifier : req[v].pc \in {"look", "verify"}
    \/ \E u \in Uri : \E n \in Running(u) : fetch[u][n].until <= now

\* Time passes only while everything waits, and after MaxTime only for a
\* fetch that is under way.
Tick ==
    /\ prewarm.state # "no" /\ ~Urgent
    /\ now < MaxTime \/ \E u \in Uri : Running(u) # {}
    /\ now' = now + 1
    /\ UNCHANGED <<listVars, cache, fetch, inflight, resolved, lastKid, req, prewarm, sweeps>>

\* Nothing is left to do.
Idle ==
    /\ now >= MaxTime /\ Listening /\ ~Urgent /\ \A u \in Uri : Running(u) = {}
    /\ UNCHANGED vars

ListStep ==
    /\ \/ Boot
       \/ Listening /\ \E a \in Admin : AdminCalls(a)
       \/ \E a \in Admin : AdminStep(a)
    /\ UNCHANGED jwksVars

FetchStep(u, n) ==
    \/ Answered(u, n) \/ Redirected(u, n) \/ RequestFails(u, n)
    \/ RequestTimesOut(u, n) \/ Wakes(u, n)

Next ==
    \/ ListStep \/ PrewarmStarts \/ PrewarmEnds \/ Sweep \/ Tick \/ Idle
    \/ \E u \in Uri, n \in Slot : FetchStep(u, n)
    \/ \E v \in Verifier : VerifyCalled(v) \/ Looks(v) \/ Verified(v)

\* Timers fire, time passes and the process goes on with what is due. That a
\* provider answers, a client calls or an administrator's query returns is
\* not assumed.
Fairness ==
    /\ WF_vars(Tick) /\ WF_vars(Boot /\ UNCHANGED jwksVars)
    /\ WF_vars(PrewarmStarts) /\ WF_vars(PrewarmEnds)
    /\ \A u \in Uri, n \in Slot : WF_vars(Wakes(u, n)) /\ WF_vars(RequestTimesOut(u, n))
    /\ \A v \in Verifier : WF_vars(Looks(v)) /\ WF_vars(Verified(v))

Spec == Init /\ [][Next]_vars /\ Fairness

-----------------------------------------------------------------------------
(* Properties                                                               *)

Ended == {"accepted", "rejected", "failed", "refused"}
Keys == [kids : KeySet \cup {{}}, at : Nat]

FetchState ==
    [stage : {"hop", "sleep"}, pol : Policy, attempt : Nat, deadline : Nat,
     span : Nat, until : Nat, hop : 0..MaxRedirects, at : Host]

TypeOK ==
    /\ ListTypeOK
    /\ now \in Nat
    /\ cache \in [Uri -> [kids : KeySet, at : Nat, expires : Nat, maxAge : Nat] \cup {None}]
    /\ fetch \in [Uri -> [Slot -> FetchState \cup {None}]]
    /\ inflight \in [Uri -> Slot \cup {None}]
    /\ resolved \in [Uri -> Host \cup {None}]
    /\ lastKid \in [Uri -> Nat \cup {None}]
    /\ req \in [Verifier -> [pc : {"idle", "look", "wait", "verify"} \cup Ended,
                            uri : Uri \cup {None}, pol : Policy, token : Token \cup {None},
                            keys : Keys, limit : Nat, tried : BOOLEAN, since : Nat,
                            excuse : BOOLEAN]]
    /\ prewarm \in [state : {"no", "running", "done"}, trusts : SUBSET Uri] /\ sweeps \in Nat

\* "G3 single-flight: coalesce concurrent fetches for the same jwksUri": a URI
\* never has two fetches under way, whoever started them: verifications
\* that found nothing fresh, an unknown kid or a bad signature, the refresh
\* timer and the start of the process (external-jwks-validator.service.ts:382).
SingleFlight == \A u \in Uri : \A n \in Running(u) : inflight[u] = n

\* The hard ceiling of egress-policy.ts:70 is that of the verification's own
\* policy when it fetches itself: keys it gets because its fetch failed are
\* no older than its staleIfErrorMs. "0 ...: any failed refetch fails closed"
\* (egress-policy.ts:118-119, W1_4_JWKS_CACHE_CADENCE.md:82) is not kept for
\* a verification that joins the fetch of another policy, whose ceiling
\* counts then (external-jwks-validator.service.ts:385-390, :442), nor does
\* its own maxAge bound keys from the cache: they live as long as the policy
\* allows that fetched them. One of these three always holds.
KeysUnderCeiling ==
    \A v \in Verifier : req[v].pc = "verify" => now - req[v].keys.at <= req[v].limit

\* A token is rejected only on a fresh look at the provider's keys: the keys
\* it failed with arrived after the verification began, unless they were
\* served because a fetch failed or the rate limit kept it from fetching
\* (external-jwks-validator.service.ts:311-322).
RejectedOnFreshKeys ==
    [][\A v \in Verifier :
        req[v].pc # "rejected" /\ req'[v].pc = "rejected"
            => req[v].keys.at >= req[v].since \/ req[v].excuse]_vars

\* "One wall-clock budget for the WHOLE fetch - every attempt, every backoff
\* sleep and every redirect hop combined" (EXTERNAL_JWKS_VALIDATOR.md:84).
\* It does not hold: every hop of the last attempt gets that attempt's whole
\* span (external-jwks-validator.service.ts:611-615).
FetchWithinDeadline ==
    \A u \in Uri : \A n \in Running(u) : now <= fetch[u][n].deadline

\* Every verification ends, whatever the provider does: requests that hang
\* are aborted, retries and redirects are bounded, and nobody waits for a
\* fetch that has ended.
EveryVerificationEnds ==
    \A v \in Verifier : req[v].pc # "idle" ~> req[v].pc \in Ended
=============================================================================
