--------------------- MODULE ExternalJwksValidator_proofs ---------------------
(***************************************************************************)
(* Proofs about ExternalJwksValidator and JwksHostAllowlist, for every set *)
(* of URIs, hosts, policies, verifications and administrators' calls.      *)
(*                                                                         *)
(* The list in memory follows the table because the answer a reload waits  *)
(* for is the table as it is, until somebody writes again, who will reload *)
(* too. One fetch per URI is under way because the map has it until it     *)
(* ends. Keys in use are young enough because an entry of the cache lives  *)
(* as long as its fetcher's policy allows, because those who wait for keys *)
(* wait for the fetch in the map, which keeps its policy, and because time *)
(* does not pass between the choice of keys and their use. A token is      *)
(* rejected on fresh keys because a verification that has fetched has keys *)
(* younger than itself, or an excuse.                                      *)
(***************************************************************************)
EXTENDS ExternalJwksValidator, FiniteSetTheorems, TLAPS

-----------------------------------------------------------------------------
(* The allow list                                                           *)

\* At most one reload waits for its rows, unless two have overlapped.
OneReload ==
    ~crossed => \A a, b \in Admin : adm[a].pc = "apply" /\ adm[b].pc = "apply" => a = b

\* Nobody calls before the process has started.
QuietBeforeBoot == ~booted => \A a \in Admin : adm[a].pc = "idle"

\* When nobody is about to write, the rows that were last read are those of
\* the table, in the hands of a reload or in the copy.
RowsFollow ==
    booted /\ ~crossed /\ ~missed /\ (\A a \in Admin : adm[a].pc # "write") =>
        /\ \A a \in Admin : adm[a].pc = "apply" => adm[a].rows = HostsOf(table)
        /\ (\A a \in Admin : adm[a].pc # "apply") => persisted = HostsOf(table)

ListInv == ListTypeOK /\ OneReload /\ QuietBeforeBoot /\ RowsFollow

Write == [kind : {"add", "remove"}, host : Host] \cup [kind : {"update"}, row : Row, host : Host]

Table == [Row -> Host \cup {Unused, Removed}]

LEMMA HostsAreHosts == \A t \in Table : HostsOf(t) \subseteq Host
BY DEF HostsOf, Table

LEMMA WritesKeepTable ==
    ASSUME NEW t \in Table, NEW w \in Write
    PROVE  Written(w, t) \subseteq Table
BY DEF Written, AddedRow, Write, Table

LEMMA TailOfSeq ==
    ASSUME NEW S, NEW s \in Seq(S), s # <<>>
    PROVE  Head(s) \in S /\ Tail(s) \in Seq(S)
OBVIOUS

LEMMA ListInitHolds == ListInit => ListInv
<1> SUFFICES ASSUME ListInit PROVE ListInv OBVIOUS
<1>1. <<>> \in Seq(Write) OBVIOUS
<1>2. Call \subseteq Seq(Write) BY Zenon, CallAssumption DEF Write
<1>3. \A a \in Admin : adm[a] \in [pc : {"idle", "write", "apply", "done"}, todo : Seq(Write),
                                   rows : SUBSET Host]
  BY <1>1, <1>2 DEF ListInit
<1>4. ListTypeOK
  BY <1>3, FirstTablesAssumption DEF ListInit, ListTypeOK, Write
<1> QED
  BY <1>4 DEF ListInit, ListInv, OneReload, QuietBeforeBoot, RowsFollow

LEMMA BootKeeps == ListInv /\ Boot => ListInv'
<1> SUFFICES ASSUME ListInv, Boot PROVE ListInv' OBVIOUS
<1> USE DEF ListInv, Boot
<1>0. table' \in Table BY DEF Seeded, Table
<1>1. ListTypeOK' BY <1>0, HostsAreHosts DEF ListTypeOK, Table
<1>2. OneReload' BY DEF OneReload
<1>3. QuietBeforeBoot' BY DEF QuietBeforeBoot
<1>4. RowsFollow'
  BY DEF RowsFollow, QuietBeforeBoot, HostsOf
<1> QED BY <1>1, <1>2, <1>3, <1>4

LEMMA AdminCallsKeeps == \A a \in Admin : ListInv /\ AdminCalls(a) => ListInv'
<1> SUFFICES ASSUME NEW a \in Admin, ListInv, AdminCalls(a) PROVE ListInv' OBVIOUS
<1> USE DEF ListInv, AdminCalls
<1>1. ListTypeOK' BY DEF ListTypeOK
<1>2. /\ adm'[a].pc = "write"
      /\ \A b \in Admin : b # a => adm'[b] = adm[b]
  BY DEF ListTypeOK
<1>3. OneReload' BY <1>2 DEF OneReload
<1>4. QuietBeforeBoot' BY DEF QuietBeforeBoot
<1>5. RowsFollow' BY <1>2 DEF RowsFollow
<1> QED BY <1>1, <1>3, <1>4, <1>5

LEMMA AdminWritesKeeps == \A a \in Admin : ListInv /\ AdminWrites(a) => ListInv'
<1> SUFFICES ASSUME NEW a \in Admin, ListInv, AdminWrites(a) PROVE ListInv' OBVIOUS
<1> USE DEF ListInv, AdminWrites
<1>0. Head(adm[a].todo) \in Write /\ Tail(adm[a].todo) \in Seq(Write) /\ table \in Table
  BY TailOfSeq DEF ListTypeOK, Write, Table
<1>a. table' \in Table BY <1>0, WritesKeepTable
<1>1. ListTypeOK' BY <1>0, <1>a DEF ListTypeOK, Write, Table
<1>2. \A b \in Admin : adm'[b].pc = adm[b].pc /\ adm'[b].rows = adm[b].rows
  BY DEF ListTypeOK
<1>3. OneReload' BY <1>2 DEF OneReload
<1>4. QuietBeforeBoot' BY <1>2 DEF QuietBeforeBoot
<1>5. RowsFollow' BY <1>2 DEF RowsFollow
<1> QED BY <1>1, <1>3, <1>4, <1>5

LEMMA ReloadReadsKeeps == \A a \in Admin : ListInv /\ ReloadReads(a) => ListInv'
<1> SUFFICES ASSUME NEW a \in Admin, ListInv, ReloadReads(a) PROVE ListInv' OBVIOUS
<1> USE DEF ListInv, ReloadReads
<1>1. ListTypeOK' BY HostsAreHosts DEF ListTypeOK, Table
<1>2. /\ adm'[a].pc = "apply" /\ adm'[a].rows = HostsOf(table)
      /\ \A b \in Admin : b # a => adm'[b] = adm[b]
  BY DEF ListTypeOK
<1>3. OneReload' BY <1>2 DEF OneReload
<1>4. QuietBeforeBoot' BY <1>2 DEF QuietBeforeBoot
<1>a. HostsOf(table)' = HostsOf(table) BY DEF HostsOf
<1>5. RowsFollow'
  BY <1>2, <1>a DEF RowsFollow
<1> QED BY <1>1, <1>3, <1>4, <1>5

LEMMA ReloadAppliesKeeps == \A a \in Admin : ListInv /\ ReloadApplies(a) => ListInv'
<1> SUFFICES ASSUME NEW a \in Admin, ListInv, ReloadApplies(a) PROVE ListInv' OBVIOUS
<1> USE DEF ListInv, ReloadApplies
<1>1. ListTypeOK' BY DEF ListTypeOK
<1>2. /\ adm'[a].pc = "done"
      /\ \A b \in Admin : b # a => adm'[b] = adm[b]
  BY DEF ListTypeOK
<1>3. OneReload' BY <1>2 DEF OneReload
<1>4. QuietBeforeBoot' BY <1>2 DEF QuietBeforeBoot
<1>5. RowsFollow'
  BY <1>2 DEF RowsFollow, OneReload, HostsOf
<1> QED BY <1>1, <1>3, <1>4, <1>5

LEMMA AdminFailsKeeps == \A a \in Admin : ListInv /\ AdminFails(a) => ListInv'
<1> SUFFICES ASSUME NEW a \in Admin, ListInv, AdminFails(a) PROVE ListInv' OBVIOUS
<1> USE DEF ListInv, AdminFails
<1> DEFINE Calls == [pc : {"idle", "write", "apply", "done"}, todo : Seq(Write),
                       rows : SUBSET Host]
<1>a. adm \in [Admin -> Calls] BY DEF ListTypeOK, Write
<1>b. <<>> \in Seq(Write) OBVIOUS
<1>c. adm[a].todo # <<>> => Tail(adm[a].todo) \in Seq(Write) BY <1>a, TailOfSeq
<1>d. adm' \in [Admin -> Calls] BY <1>a, <1>b, <1>c
<1>e. dbFailures' \in Nat BY SMT DEF ListTypeOK
<1>f. missed' \in BOOLEAN BY Zenon DEF ListTypeOK
<1>g. UNCHANGED <<table, persisted, booted, crossed>> OBVIOUS
<1>1. ListTypeOK' BY Zenon, <1>d, <1>e, <1>f, <1>g DEF ListTypeOK, Write
<1>2. /\ adm'[a].pc \in {"write", "done"} /\ (adm'[a].pc = "done" => missed')
      /\ \A b \in Admin : b # a => adm'[b] = adm[b]
  BY DEF ListTypeOK
<1>3. OneReload' BY <1>2 DEF OneReload
<1>4. QuietBeforeBoot' BY <1>2 DEF QuietBeforeBoot
<1>5. RowsFollow' BY <1>2 DEF RowsFollow
<1> QED BY <1>1, <1>3, <1>4, <1>5

LEMMA ListNextKeeps == ListInv /\ [ListNext]_listVars => ListInv'
<1> SUFFICES ASSUME ListInv, [ListNext]_listVars PROVE ListInv' OBVIOUS
<1>1. CASE ListNext
  BY <1>1, BootKeeps, AdminCallsKeeps, AdminWritesKeeps, ReloadReadsKeeps,
     ReloadAppliesKeeps, AdminFailsKeeps DEF ListNext, AdminStep
<1>2. CASE UNCHANGED listVars
  <2>1. ListTypeOK' BY <1>2 DEF listVars, ListInv, ListTypeOK
  <2>2. HostsOf(table)' = HostsOf(table) BY <1>2 DEF listVars, HostsOf
  <2> QED BY <1>2, <2>1, <2>2 DEF listVars, ListInv, OneReload, QuietBeforeBoot, RowsFollow
<1> QED BY <1>1, <1>2

LEMMA StepIsListStep == [Next]_vars => [ListNext]_listVars
<1> SUFFICES ASSUME [Next]_vars PROVE [ListNext]_listVars OBVIOUS
<1>1. CASE ListStep BY <1>1 DEF ListStep, ListNext
<1>2. CASE PrewarmStarts \/ PrewarmEnds \/ Sweep \/ Tick \/ Idle
  BY <1>2 DEF PrewarmStarts, PrewarmEnds, Sweep, Tick, Idle, vars
<1>3. CASE \E u \in Uri, n \in Slot : FetchStep(u, n)
  <2> SUFFICES ASSUME NEW u \in Uri, NEW n \in Slot, FetchStep(u, n) PROVE UNCHANGED listVars
    BY <1>3
  <2>1. CASE Answered(u, n) BY <2>1 DEF Answered
  <2>2. CASE Redirected(u, n) BY <2>2 DEF Redirected
  <2>3. CASE RequestFails(u, n) BY <2>3 DEF RequestFails
  <2>4. CASE RequestTimesOut(u, n) BY <2>4 DEF RequestTimesOut
  <2>5. CASE Wakes(u, n) BY <2>5 DEF Wakes
  <2> QED BY <2>1, <2>2, <2>3, <2>4, <2>5 DEF FetchStep
<1>4. CASE \E v \in Verifier : VerifyCalled(v) \/ Looks(v) \/ Verified(v)
  BY <1>4 DEF VerifyCalled, Looks, Verified
<1>5. CASE UNCHANGED vars BY <1>5 DEF vars
<1> QED BY <1>1, <1>2, <1>3, <1>4, <1>5 DEF Next

\* The copy of the allow list in memory holds the rows of the table whenever
\* no call is in progress, unless reloads overlapped or a call failed
\* (jwks-host-allowlist.service.ts).
THEOREM AllowlistFollows == Spec => []AllowlistFollowsTable
<1>1. Init => ListInv BY ListInitHolds DEF Init
<1>2. ListInv /\ [Next]_vars => ListInv' BY ListNextKeeps, StepIsListStep
<1>3. ListInv => AllowlistFollowsTable
  BY DEF ListInv, RowsFollow, AllowlistFollowsTable
<1> QED BY <1>1, <1>2, <1>3, PTL DEF Spec

-----------------------------------------------------------------------------
(* Fetches                                                                  *)

\* A fetch under way is in the map of fetches, and what the map has is a
\* fetch with some policy.
Flight(u, n) ==
    /\ inflight[u] = n
    /\ "pol" \in DOMAIN fetch[u][n] /\ fetch[u][n].pol \in Policy

FetchInv ==
    /\ fetch = [u \in Uri |-> [n \in Slot |-> fetch[u][n]]]
    /\ inflight = [u \in Uri |-> inflight[u]]
    /\ \A u \in Uri, n \in Slot : fetch[u][n] # None => Flight(u, n)
    /\ \A u \in Uri : inflight[u] # None => inflight[u] \in Slot /\ Flight(u, inflight[u])

LEMMA FetchUnchanged ==
    ASSUME FetchInv, UNCHANGED <<fetch, inflight>>
    PROVE  FetchInv'
<1>1. \A u \in Uri, n \in Slot : Flight(u, n) => Flight(u, n)' BY DEF Flight
<1>2. \A u \in Uri : inflight'[u] # None =>
         inflight'[u] \in Slot /\ Flight(u, inflight[u])'
  BY DEF FetchInv, Flight
<1> QED BY <1>1, <1>2 DEF FetchInv

LEMMA StartKeepsFetches ==
    ASSUME FetchInv, NEW us, NEW p \in Policy, Start(us, p)
    PROVE  FetchInv'
<1> DEFINE new == {u \in us : inflight[u] = None /\ MayRequest(u)}
<1>1. \A u \in Uri, n \in Slot : u \notin new =>
        fetch'[u][n] = fetch[u][n] /\ inflight'[u] = inflight[u]
  BY DEF Start
<1>2. \A u \in Uri, n \in Slot : u \in new => fetch[u][n] = None
  BY UriAssumption DEF FetchInv, Flight
<1>3. \A u \in Uri, n \in Slot : u \in new /\ fetch'[u][n] # None =>
        inflight'[u] = n /\ fetch'[u][n] = Attempt(u, p, 0, now + p.deadline)
  BY <1>2 DEF Start, FetchInv
<1>4. \A u : LET f == Attempt(u, p, 0, now + p.deadline) IN "pol" \in DOMAIN f /\ f.pol \in Policy
  BY DEF Attempt
<1>5. \A u \in Uri, n \in Slot : fetch'[u][n] # None => Flight(u, n)'
  BY <1>1, <1>3, <1>4 DEF FetchInv, Flight
<1>6. /\ fetch' = [u \in Uri |-> [n \in Slot |-> fetch'[u][n]]]
      /\ inflight' = [u \in Uri |-> inflight'[u]]
  BY DEF Start, FetchInv
<1>7. ASSUME NEW u \in Uri, inflight'[u] # None
      PROVE  inflight'[u] \in Slot /\ Flight(u, inflight[u])'
  <2>1. CASE u \notin new
    <3>1. inflight'[u] = inflight[u] BY <1>1, <2>1, UriAssumption
    <3>2. inflight[u] \in Slot /\ Flight(u, inflight[u]) BY <1>7, <3>1 DEF FetchInv
    <3> QED BY <1>1, <2>1, <3>1, <3>2 DEF Flight
  <2>2. CASE u \in new
    <3>1. FreeSlot(u) \in Slot BY <1>2, <2>2, UriAssumption DEF FreeSlot
    <3>2. inflight'[u] = FreeSlot(u) BY <2>2 DEF Start
    <3>3. fetch'[u][FreeSlot(u)] = Attempt(u, p, 0, now + p.deadline)
      BY <2>2, <3>1 DEF Start, FetchInv
    <3> QED BY <1>4, <3>1, <3>2, <3>3 DEF Flight
  <2> QED BY <2>1, <2>2
<1> QED BY <1>5, <1>6, <1>7 DEF FetchInv

LEMMA SettleKeepsFetches ==
    ASSUME FetchInv, NEW u \in Uri, NEW n \in Slot, fetch[u][n] # None,
           NEW ok, NEW keys, NEW stale, Settle(u, n, ok, keys, stale)
    PROVE  FetchInv'
<1>1. \A w \in Uri, m \in Slot :
        fetch'[w][m] = IF w = u /\ m = n THEN None ELSE fetch[w][m]
  BY DEF Settle, FetchInv
<1>2. \A w \in Uri : inflight'[w] = IF w = u THEN None ELSE inflight[w]
  BY DEF Settle, FetchInv
<1>3. inflight[u] = n BY DEF FetchInv, Flight
<1>4. \A m \in Slot : fetch'[u][m] = None BY <1>1, <1>3, UriAssumption DEF FetchInv, Flight
<1>5. \A w \in Uri, m \in Slot : w # u /\ Flight(w, m) => Flight(w, m)'
  BY <1>1, <1>2 DEF Flight
<1>6. \A w \in Uri, m \in Slot : fetch'[w][m] # None => Flight(w, m)'
  BY <1>1, <1>4, <1>5 DEF FetchInv
<1>7. \A w \in Uri : inflight'[w] # None => inflight'[w] \in Slot /\ Flight(w, inflight[w])'
  <2> SUFFICES ASSUME NEW w \in Uri, inflight'[w] # None
               PROVE  inflight'[w] \in Slot /\ Flight(w, inflight[w])'
    OBVIOUS
  <2>1. w # u /\ inflight'[w] = inflight[w] BY <1>2
  <2>2. inflight[w] \in Slot /\ Flight(w, inflight[w]) BY <2>1 DEF FetchInv
  <2>3. fetch'[w][inflight[w]] = fetch[w][inflight[w]] BY <1>1, <2>1, <2>2
  <2> QED BY <2>1, <2>2, <2>3 DEF Flight
<1>8. /\ fetch' = [w \in Uri |-> [m \in Slot |-> fetch'[w][m]]]
      /\ inflight' = [w \in Uri |-> inflight'[w]]
  BY DEF Settle, FetchInv
<1> QED BY <1>6, <1>7, <1>8 DEF FetchInv

\* A fetch goes on, with the policy it has.
GoesOn(u, n, f) ==
    /\ "pol" \in DOMAIN f /\ f.pol = fetch[u][n].pol
    /\ fetch' = [fetch EXCEPT ![u][n] = f] /\ UNCHANGED <<inflight, req>>

LEMMA GoingOnKeepsFetches ==
    ASSUME FetchInv, NEW u \in Uri, NEW n \in Slot, fetch[u][n] # None, NEW f, GoesOn(u, n, f)
    PROVE  FetchInv'
<1>1. \A w \in Uri, m \in Slot :
        fetch'[w][m] = IF w = u /\ m = n THEN f ELSE fetch[w][m]
  BY DEF FetchInv, GoesOn
<1>2. \A w \in Uri, m \in Slot : fetch'[w][m] # None => Flight(w, m)'
  BY <1>1 DEF FetchInv, Flight, GoesOn
<1>3. /\ fetch' = [w \in Uri |-> [m \in Slot |-> fetch'[w][m]]]
      /\ inflight' = [w \in Uri |-> inflight'[w]]
  BY DEF FetchInv, GoesOn
<1>4. \A w \in Uri : inflight'[w] # None => inflight'[w] \in Slot /\ Flight(w, inflight[w])'
  BY <1>1 DEF FetchInv, Flight, GoesOn
<1> QED BY <1>2, <1>3, <1>4 DEF FetchInv

\* A step of a fetch ends it, or it goes on.
Ends(u, n) == \E ok, keys, stale : Settle(u, n, ok, keys, stale)

LEMMA AttemptFailsKinds ==
    ASSUME FetchInv, NEW u \in Uri, NEW n \in Slot, fetch[u][n] # None, AttemptFails(u, n)
    PROVE  Ends(u, n) \/ \E f : GoesOn(u, n, f)
<1> DEFINE f == fetch[u][n]
<1>1. CASE GiveUp(u, n) BY <1>1 DEF GiveUp, Ends
<1>2. CASE ~GiveUp(u, n)
  <2>1. PICK jitter \in 0..(f.pol.backoff - 1) \cup {0} :
          fetch' = [fetch EXCEPT ![u][n].stage = "sleep", ![u][n].attempt = @ + 1,
                     ![u][n].until =
                        now + Least(f.pol.backoff * 2^f.attempt + jitter, f.deadline - now)]
    BY <1>2 DEF AttemptFails
  <2> DEFINE g == [f EXCEPT !.stage = "sleep", !.attempt = @ + 1,
                     !.until = now + Least(f.pol.backoff * 2^f.attempt + jitter, f.deadline - now)]
  <2>2. fetch' = [fetch EXCEPT ![u][n] = g]
    BY <2>1 DEF FetchInv
  <2>3. "pol" \in DOMAIN g /\ g.pol = f.pol
    BY DEF FetchInv, Flight
  <2>4. UNCHANGED <<inflight, req>> BY <1>2 DEF AttemptFails
  <2>5. GoesOn(u, n, g) BY <2>2, <2>3, <2>4 DEF GoesOn
  <2> QED BY <2>5
<1> QED BY <1>1, <1>2

LEMMA FetchStepKinds ==
    ASSUME FetchInv, NEW u \in Uri, NEW n \in Slot, FetchStep(u, n)
    PROVE  fetch[u][n] # None /\ (Ends(u, n) \/ \E f : GoesOn(u, n, f))
<1> DEFINE f == fetch[u][n]
<1>0. f # None
  BY DEF FetchStep, Answered, Redirected, RequestFails, RequestTimesOut, Wakes
<1>1. CASE Answered(u, n)
  BY <1>0, <1>1, AttemptFailsKinds DEF Answered, Ends
<1>2. CASE Redirected(u, n)
  <2>1. PICK h \in Host :
          IF IsAllowed(h)
          THEN /\ fetch' = [fetch EXCEPT ![u][n].hop = @ + 1, ![u][n].at = h,
                                         ![u][n].until = now + f.span]
               /\ UNCHANGED <<inflight, req>>
          ELSE Settle(u, n, FALSE, NoKeys, FALSE)
    BY <1>2 DEF Redirected
  <2>2. CASE ~IsAllowed(h) BY <1>0, <2>1, <2>2 DEF Ends
  <2>3. CASE IsAllowed(h)
    <3> DEFINE g == [f EXCEPT !.hop = @ + 1, !.at = h, !.until = now + f.span]
    <3>1. fetch' = [fetch EXCEPT ![u][n] = g] BY <2>1, <2>3 DEF FetchInv
    <3>2. "pol" \in DOMAIN g /\ g.pol = f.pol BY <1>0 DEF FetchInv, Flight
    <3>3. UNCHANGED <<inflight, req>> BY <2>1, <2>3
    <3>4. GoesOn(u, n, g) BY <3>1, <3>2, <3>3 DEF GoesOn
    <3> QED BY <1>0, <3>4
  <2> QED BY <2>2, <2>3
<1>3. CASE RequestFails(u, n)
  BY <1>0, <1>3, AttemptFailsKinds DEF RequestFails
<1>4. CASE RequestTimesOut(u, n)
  BY <1>0, <1>4, AttemptFailsKinds DEF RequestTimesOut
<1>5. CASE Wakes(u, n)
  <2>1. CASE GiveUp(u, n) BY <1>0, <2>1 DEF GiveUp, Ends
  <2>2. CASE Settle(u, n, FALSE, NoKeys, FALSE) BY <1>0, <2>2 DEF Ends
  <2>3. CASE /\ fetch' = [fetch EXCEPT ![u][n] = Attempt(u, f.pol, f.attempt, f.deadline)]
             /\ UNCHANGED <<inflight, req>>
    <3> DEFINE g == Attempt(u, f.pol, f.attempt, f.deadline)
    <3>1. "pol" \in DOMAIN g /\ g.pol = f.pol BY DEF Attempt
    <3>2. GoesOn(u, n, g) BY <2>3, <3>1 DEF GoesOn
    <3> QED BY <1>0, <3>2
  <2> QED BY <1>5, <2>1, <2>2, <2>3 DEF Wakes
<1> QED BY <1>1, <1>2, <1>3, <1>4, <1>5 DEF FetchStep

LEMMA FetchStepKeepsFetches ==
    ASSUME FetchInv, NEW u \in Uri, NEW n \in Slot, FetchStep(u, n)
    PROVE  FetchInv'
BY FetchStepKinds, SettleKeepsFetches, GoingOnKeepsFetches DEF Ends

-----------------------------------------------------------------------------
(* Keys                                                                     *)

Entry == [kids : KeySet, at : Nat, expires : Nat, maxAge : Nat]

\* No entry of the cache outlives what its fetcher's policy allows.
CacheInv ==
    /\ now \in Nat
    /\ cache = [u \in Uri |-> cache[u]]
    /\ \A u \in Uri : cache[u] # None =>
          /\ cache[u] \in Entry /\ cache[u].at <= now
          /\ cache[u].expires <= cache[u].at + cache[u].maxAge

ReqState ==
    [pc : {"idle", "look", "wait", "verify"} \cup Ended, uri : Uri \cup {None}, pol : Policy,
     token : Token \cup {None}, keys : Keys, limit : Nat, tried : BOOLEAN, since : Nat,
     excuse : BOOLEAN]

\* Keys that a ceiling lets be used now.
Usable(keys, limit) == keys \in Keys /\ keys.at <= now /\ now - keys.at <= limit

ReqInv ==
    /\ req \in [Verifier -> ReqState]
    /\ \A v \in Verifier : req[v].pc \in {"look", "wait", "verify"} => req[v].uri \in Uri
    /\ \A v \in Verifier : req[v].pc = "verify" => Usable(req[v].keys, req[v].limit)

\* Who waits, waits for the fetch in the map, and knows its ceiling.
WaitInv ==
    \A v \in Verifier : req[v].pc = "wait" =>
        LET u == req[v].uri IN
        inflight[u] \in Slot /\ fetch[u][inflight[u]].pol.stale = req[v].limit

JwksInv == FetchInv /\ CacheInv /\ ReqInv /\ WaitInv

LEMMA PolicyNumbers ==
    /\ Server \in Policy
    /\ \A p \in Policy : /\ p.maxAge \in Nat /\ p.stale \in Nat /\ p.deadline \in Nat
                          /\ p.unknownKid \in Nat /\ p.refresh \in Nat
BY PolicyAssumption DEF PolicyFields

LEMMA OverIsState == \A pc \in {"idle"} \cup Ended : Over(pc) \in ReqState /\ Over(pc).pc = pc
BY PolicyAssumption DEF Over, ReqState, Ended, Keys, NoKeys

LEMMA FreshKeysUsable ==
    \A kids \in KeySet, limit \in Nat : now \in Nat => Usable([kids |-> kids, at |-> now], limit)
BY DEF Usable, Keys

LEMMA GivenKeysTyped ==
    \A r \in ReqState, keys \in Keys, stale \in BOOLEAN :
        [r EXCEPT !.pc = "verify", !.keys = keys, !.excuse = stale] \in ReqState
BY DEF ReqState

\* Those who waited get keys that the ceiling of their fetch allows.
LEMMA SettleKeepsRequests ==
    ASSUME FetchInv, ReqInv, WaitInv, NEW u \in Uri, NEW n \in Slot, fetch[u][n] # None,
           NEW ok \in BOOLEAN, NEW keys \in Keys, NEW stale \in BOOLEAN,
           ok => Usable(keys, fetch[u][n].pol.stale), Settle(u, n, ok, keys, stale), UNCHANGED now
    PROVE  ReqInv'
<1>1. \A v \in Verifier :
        req'[v] = IF req[v].pc = "wait" /\ req[v].uri = u
                  THEN IF ok THEN [req[v] EXCEPT !.pc = "verify", !.keys = keys, !.excuse = stale]
                             ELSE Over("failed")
                  ELSE req[v]
  BY DEF Settle
<1>2. Over("failed") \in ReqState /\ Over("failed").pc = "failed" BY OverIsState DEF Ended
<1>3. req' \in [Verifier -> ReqState]
  <2>1. req' = [v \in Verifier |-> req'[v]] BY DEF Settle
  <2>2. \A v \in Verifier :
           [req[v] EXCEPT !.pc = "verify", !.keys = keys, !.excuse = stale] \in ReqState
    BY GivenKeysTyped DEF ReqInv
  <2>3. \A v \in Verifier : req'[v] \in ReqState BY <1>1, <1>2, <2>2 DEF ReqInv
  <2> QED BY <2>1, <2>3
<1>4. ASSUME NEW v \in Verifier
      PROVE  /\ req'[v].pc \in {"look", "wait", "verify"} => req'[v].uri \in Uri
             /\ req'[v].pc = "verify" => Usable(req'[v].keys, req'[v].limit)
  <2>1. req[v] \in ReqState BY DEF ReqInv
  <2>2. CASE ~(req[v].pc = "wait" /\ req[v].uri = u) BY <1>1, <2>2 DEF ReqInv
  <2>3. CASE req[v].pc = "wait" /\ req[v].uri = u /\ ok
    <3>1. req'[v] = [req[v] EXCEPT !.pc = "verify", !.keys = keys, !.excuse = stale]
      BY <1>1, <2>3
    <3>2. req'[v].keys = keys /\ req'[v].uri = u /\ req'[v].limit = req[v].limit
      BY <2>1, <2>3, <3>1 DEF ReqState
    <3>3. req[v].limit = fetch[u][n].pol.stale BY <2>3 DEF FetchInv, Flight, WaitInv
    <3> QED BY <2>3, <3>2, <3>3
  <2>4. CASE req[v].pc = "wait" /\ req[v].uri = u /\ ~ok
    BY <1>1, <1>2, <2>4
  <2> QED BY <2>2, <2>3, <2>4
<1>5. \A v \in Verifier : req'[v].pc = "verify" => Usable(req'[v].keys, req'[v].limit) BY <1>4
<1>6. \A v \in Verifier : req'[v].pc = "verify" => Usable(req[v].keys, req[v].limit)'
  BY <1>5 DEF Usable
<1>7. \A v \in Verifier : req'[v].pc \in {"look", "wait", "verify"} => req'[v].uri \in Uri
  BY <1>4
<1> QED BY <1>3, <1>6, <1>7 DEF ReqInv

LEMMA GiveUpKeepsRequests ==
    ASSUME JwksInv, NEW u \in Uri, NEW n \in Slot, fetch[u][n] # None, GiveUp(u, n), UNCHANGED now
    PROVE  ReqInv'
<1> DEFINE old == [kids |-> cache[u].kids, at |-> cache[u].at]
<1>1. NoKeys \in Keys BY DEF NoKeys, Keys
<1>2. CASE cache[u] # None /\ now - cache[u].at <= fetch[u][n].pol.stale
  <2>1. old \in Keys /\ cache[u].at <= now BY <1>2 DEF JwksInv, CacheInv, Entry, Keys
  <2>2. Usable(old, fetch[u][n].pol.stale) BY <1>2, <2>1 DEF Usable
  <2> QED BY <1>2, <2>1, <2>2, SettleKeepsRequests DEF GiveUp, JwksInv
<1>3. CASE ~(cache[u] # None /\ now - cache[u].at <= fetch[u][n].pol.stale)
  BY <1>1, <1>3, SettleKeepsRequests DEF GiveUp, JwksInv
<1> QED BY <1>2, <1>3

LEMMA AttemptFailsKeepsRequests ==
    ASSUME JwksInv, NEW u \in Uri, NEW n \in Slot, fetch[u][n] # None, AttemptFails(u, n),
           UNCHANGED now
    PROVE  ReqInv'
<1>1. CASE GiveUp(u, n) BY <1>1, GiveUpKeepsRequests
<1>2. CASE UNCHANGED req BY <1>2 DEF JwksInv, ReqInv, Usable
<1> QED BY <1>1, <1>2 DEF AttemptFails

\* A fetch that ends has nobody waiting for it; one that goes on keeps its
\* ceiling.
LEMMA FetchStepKeepsWaits ==
    ASSUME JwksInv, NEW u \in Uri, NEW n \in Slot, FetchStep(u, n)
    PROVE  WaitInv'
<1>1. FetchInv /\ WaitInv /\ req \in [Verifier -> ReqState] BY DEF JwksInv, ReqInv
<1>3. ASSUME NEW ok, NEW keys, NEW stale, Settle(u, n, ok, keys, stale) PROVE WaitInv'
  <2> SUFFICES ASSUME NEW v \in Verifier, req'[v].pc = "wait"
               PROVE  /\ inflight'[req'[v].uri] \in Slot
                      /\ fetch'[req'[v].uri][inflight'[req'[v].uri]].pol.stale = req'[v].limit
    BY DEF WaitInv
  <2>1. req'[v] = req[v] /\ ~(req[v].pc = "wait" /\ req[v].uri = u)
    <3>1. [req[v] EXCEPT !.pc = "verify", !.keys = keys, !.excuse = stale].pc = "verify"
      BY <1>1 DEF ReqState
    <3>2. Over("failed").pc = "failed" BY DEF Over
    <3> QED BY <1>3, <3>1, <3>2 DEF Settle
  <2>2. req[v].uri # u /\ req[v].uri \in Uri BY <2>1 DEF JwksInv, ReqInv
  <2>3. fetch'[req[v].uri] = fetch[req[v].uri] /\ inflight'[req[v].uri] = inflight[req[v].uri]
    BY <1>1, <1>3, <2>2 DEF Settle, FetchInv
  <2> QED BY <1>1, <2>1, <2>3 DEF WaitInv
<1>4. ASSUME NEW f, GoesOn(u, n, f) PROVE WaitInv'
  <2>1. UNCHANGED <<inflight, req>> BY <1>4 DEF GoesOn
  <2>2. \A w \in Uri, m \in Slot : fetch'[w][m].pol = fetch[w][m].pol
    BY <1>1, <1>4 DEF GoesOn, FetchInv
  <2>3. \A v \in Verifier : req[v].pc = "wait" => req[v].uri \in Uri BY DEF JwksInv, ReqInv
  <2> QED BY <1>1, <2>1, <2>2, <2>3 DEF WaitInv
<1> QED BY <1>1, <1>3, <1>4, FetchStepKinds DEF Ends

\* A fetch that is started is nobody's yet.
LEMMA StartKeepsWaits ==
    ASSUME JwksInv, NEW us, NEW p \in Policy, Start(us, p), NEW w \in Verifier, req[w].pc = "wait"
    PROVE  LET u == req[w].uri IN
           /\ u \in Uri /\ inflight'[u] \in Slot
           /\ fetch'[u][inflight'[u]].pol.stale = req[w].limit
<1> DEFINE u == req[w].uri
<1>1. u \in Uri /\ inflight[u] \in Slot /\ fetch[u][inflight[u]].pol.stale = req[w].limit
  BY DEF JwksInv, ReqInv, WaitInv
<1>2. inflight[u] # None BY <1>1, UriAssumption
<1>3. fetch'[u] = fetch[u] /\ inflight'[u] = inflight[u] BY <1>1, <1>2 DEF Start
<1> QED BY <1>1, <1>3

LEMMA CachingKeepsCache ==
    ASSUME CacheInv, NEW u \in Uri, NEW p \in Policy, NEW kids \in KeySet,
           NEW asked \in {None, 0}, CacheKeys(u, p, kids, asked), UNCHANGED now
    PROVE  CacheInv'
<1> DEFINE age == IF asked = None THEN p.maxAge ELSE Least(p.maxAge, asked)
           new == [kids |-> kids, at |-> now, expires |-> now + age, maxAge |-> p.maxAge]
<1>1. p.maxAge \in Nat BY PolicyNumbers
<1>2. age \in Nat /\ age <= p.maxAge BY <1>1 DEF Least
<1>3. /\ new \in Entry /\ new.at <= now
      /\ new.expires <= new.at + new.maxAge
  BY <1>1, <1>2 DEF Entry, CacheInv
<1>4. \A w \in Uri : cache'[w] \in {new, None, cache[w]}
  BY DEF CacheKeys
<1>5. cache' = [w \in Uri |-> cache'[w]] BY DEF CacheKeys
<1> HIDE DEF new, age
<1> QED BY <1>3, <1>4, <1>5 DEF CacheInv

LEMMA FetchStepKeeps ==
    ASSUME JwksInv, NEW u \in Uri, NEW n \in Slot, FetchStep(u, n)
    PROVE  JwksInv'
<1>1. FetchInv' /\ WaitInv' BY FetchStepKeepsFetches, FetchStepKeepsWaits DEF JwksInv
<1>2. UNCHANGED now
  BY DEF FetchStep, Answered, Redirected, RequestFails, RequestTimesOut, Wakes
<1>3. NoKeys \in Keys BY DEF NoKeys, Keys
<1>0. fetch[u][n] # None BY FetchStepKinds DEF JwksInv
<1>4. CASE Answered(u, n)
  <2>1. fetch[u][n] # None /\ fetch[u][n].pol \in Policy /\ fetch[u][n].pol.stale \in Nat
    BY <1>4, PolicyNumbers DEF Answered, JwksInv, FetchInv, Flight
  <2>2. ASSUME NEW kids \in KeySet, NEW asked \in {None, 0},
               CacheKeys(u, fetch[u][n].pol, kids, asked),
               Settle(u, n, TRUE, [kids |-> kids, at |-> now], FALSE)
        PROVE  CacheInv' /\ ReqInv'
    <3>1. CacheInv' BY <1>2, <2>1, <2>2, CachingKeepsCache DEF JwksInv
    <3>2. Usable([kids |-> kids, at |-> now], fetch[u][n].pol.stale)
      BY <2>1, FreshKeysUsable DEF JwksInv, CacheInv
    <3>3. [kids |-> kids, at |-> now] \in Keys BY <3>2 DEF Usable
    <3>4. ReqInv' BY <1>2, <2>1, <2>2, <3>2, <3>3, SettleKeepsRequests DEF JwksInv
    <3> QED BY <3>1, <3>4
  <2>3. ASSUME Settle(u, n, FALSE, NoKeys, FALSE), UNCHANGED cache
        PROVE  CacheInv' /\ ReqInv'
    BY <1>0, <1>2, <1>3, <2>3, SettleKeepsRequests DEF JwksInv, CacheInv
  <2>4. ASSUME AttemptFails(u, n), UNCHANGED cache
        PROVE  CacheInv' /\ ReqInv'
    BY <1>2, <2>1, <2>4, AttemptFailsKeepsRequests DEF JwksInv, CacheInv
  <2> QED BY <1>1, <1>4, <2>2, <2>3, <2>4 DEF Answered, JwksInv
<1>5. CASE Redirected(u, n)
  <2>1. UNCHANGED req => ReqInv' BY <1>2 DEF JwksInv, ReqInv, Usable
  <2>2. Settle(u, n, FALSE, NoKeys, FALSE) => ReqInv'
    BY <1>0, <1>2, <1>3, SettleKeepsRequests DEF JwksInv
  <2>3. ReqInv' BY <1>5, <2>1, <2>2 DEF Redirected
  <2>4. CacheInv' BY <1>5 DEF Redirected, JwksInv, CacheInv
  <2> QED BY <1>1, <2>3, <2>4 DEF JwksInv
<1>6. CASE RequestFails(u, n) \/ RequestTimesOut(u, n)
  <2>1. fetch[u][n] # None /\ AttemptFails(u, n) BY <1>6 DEF RequestFails, RequestTimesOut
  <2>2. ReqInv' BY <1>2, <2>1, AttemptFailsKeepsRequests
  <2>3. CacheInv' BY <1>6 DEF RequestFails, RequestTimesOut, JwksInv, CacheInv
  <2> QED BY <1>1, <2>2, <2>3 DEF JwksInv
<1>7. CASE Wakes(u, n)
  <2>1. fetch[u][n] # None BY <1>7 DEF Wakes
  <2>2. UNCHANGED req => ReqInv' BY <1>2 DEF JwksInv, ReqInv, Usable
  <2>3. Settle(u, n, FALSE, NoKeys, FALSE) => ReqInv'
    BY <1>0, <1>2, <1>3, SettleKeepsRequests DEF JwksInv
  <2>4. GiveUp(u, n) => ReqInv' BY <1>2, <2>1, GiveUpKeepsRequests
  <2>5. ReqInv' BY <1>7, <2>2, <2>3, <2>4 DEF Wakes
  <2>6. CacheInv' BY <1>7 DEF Wakes, JwksInv, CacheInv
  <2> QED BY <1>1, <2>5, <2>6 DEF JwksInv
<1> QED BY <1>4, <1>5, <1>6, <1>7 DEF FetchStep

LEMMA InitHolds == Init => JwksInv
<1> SUFFICES ASSUME Init PROVE JwksInv OBVIOUS
<1>1. FetchInv BY DEF Init, FetchInv
<1>2. CacheInv BY DEF Init, CacheInv
<1>3. /\ \A v \in Verifier : req[v].pc = "idle"
      /\ req \in [Verifier -> ReqState]
  <2>1. Over("idle") \in ReqState /\ Over("idle").pc = "idle" BY OverIsState
  <2>2. \A u \in Uri, p \in Policy, t \in Token :
           Asked(u, p, t) \in ReqState /\ Asked(u, p, t).pc = "idle"
    BY <2>1 DEF Asked, ReqState
  <2> QED BY <2>1, <2>2 DEF Init
<1>4. ReqInv /\ WaitInv BY <1>3 DEF ReqInv, WaitInv
<1> QED BY <1>1, <1>2, <1>4 DEF JwksInv

LEMMA StartsKeepRest ==
    ASSUME JwksInv, NEW us, NEW p \in Policy, Start(us, p),
           UNCHANGED <<now, cache, req>>
    PROVE  JwksInv'
<1>1. FetchInv' BY StartKeepsFetches DEF JwksInv
<1>2. WaitInv' BY StartKeepsWaits DEF WaitInv
<1> QED BY <1>1, <1>2 DEF JwksInv, CacheInv, ReqInv, Usable

\* A call that only changes the verification v.
LEMMA OneRequestKeeps ==
    ASSUME JwksInv, NEW v \in Verifier, NEW r \in ReqState, req' = [req EXCEPT ![v] = r],
           r.pc \in {"look", "wait", "verify"} => r.uri \in Uri,
           r.pc = "verify" => Usable(r.keys, r.limit), UNCHANGED <<now, cache>>, FetchInv',
           WaitInv'
    PROVE  JwksInv'
<1>1. req' \in [Verifier -> ReqState] BY DEF JwksInv, ReqInv
<1>2. \A w \in Verifier : req'[w] = IF w = v THEN r ELSE req[w] BY DEF JwksInv, ReqInv
<1>3. \A w \in Verifier : req'[w].pc \in {"look", "wait", "verify"} => req'[w].uri \in Uri
  BY <1>2 DEF JwksInv, ReqInv
<1>4. \A w \in Verifier : req'[w].pc = "verify" => Usable(req'[w].keys, req'[w].limit)
  BY <1>2 DEF JwksInv, ReqInv
<1>5. \A w \in Verifier : req'[w].pc = "verify" => Usable(req[w].keys, req[w].limit)'
  BY <1>4 DEF Usable
<1>6. ReqInv' BY <1>1, <1>3, <1>5 DEF ReqInv
<1>7. CacheInv' BY DEF JwksInv, CacheInv
<1> QED BY <1>6, <1>7 DEF JwksInv

\* Only v changes, and does not begin to wait.
LEMMA OthersWait ==
    ASSUME JwksInv, NEW v \in Verifier, NEW r, req' = [req EXCEPT ![v] = r], r.pc # "wait",
           UNCHANGED <<fetch, inflight>> \/ \E us : \E p \in Policy : Start(us, p)
    PROVE  WaitInv'
<1>1. \A w \in Verifier : req'[w] = IF w = v THEN r ELSE req[w] BY DEF JwksInv, ReqInv
<1>2. ASSUME NEW w \in Verifier, req[w].pc = "wait"
      PROVE  /\ inflight'[req[w].uri] \in Slot
             /\ fetch'[req[w].uri][inflight'[req[w].uri]].pol.stale = req[w].limit
  <2>1. CASE UNCHANGED <<fetch, inflight>> BY <1>2, <2>1 DEF JwksInv, WaitInv
  <2>2. CASE \E us : \E p \in Policy : Start(us, p) BY <1>2, <2>2, StartKeepsWaits
  <2> QED BY <2>1, <2>2
<1> QED BY <1>1, <1>2 DEF WaitInv

\* Who asks for keys waits for the fetch in the map: one with a policy of its
\* own, or one that had been started.
LEMMA CeilingKnown ==
    ASSUME JwksInv, NEW u \in Uri, NEW p \in Policy, Start({u}, p), inflight[u] # None \/ MayRequest(u)
    PROVE  /\ Ceiling(u, p) \in Nat /\ inflight'[u] \in Slot
           /\ fetch'[u][inflight'[u]].pol.stale = Ceiling(u, p)
<1>1. FetchInv BY DEF JwksInv
<1>2. CASE inflight[u] # None
  <2>1. inflight[u] \in Slot /\ fetch[u][inflight[u]].pol \in Policy BY <1>1, <1>2 DEF FetchInv, Flight
  <2>2. fetch'[u] = fetch[u] /\ inflight'[u] = inflight[u] BY <1>2 DEF Start
  <2> QED BY <1>2, <2>1, <2>2, PolicyNumbers DEF Ceiling
<1>3. CASE inflight[u] = None /\ MayRequest(u)
  <2>1. \A n \in Slot : fetch[u][n] = None BY <1>1, <1>3, UriAssumption DEF FetchInv, Flight
  <2>2. FreeSlot(u) \in Slot BY <2>1, UriAssumption DEF FreeSlot
  <2>3. inflight'[u] = FreeSlot(u) BY <1>3 DEF Start
  <2>4. fetch'[u][FreeSlot(u)] = Attempt(u, p, 0, now + p.deadline)
    BY <1>1, <1>3, <2>2 DEF Start, FetchInv
  <2>5. fetch'[u][FreeSlot(u)].pol = p BY <2>4 DEF Attempt
  <2> QED BY <1>3, <2>2, <2>3, <2>5, PolicyNumbers DEF Ceiling
<1> QED BY <1>2, <1>3

LEMMA AwaitKeysKeeps ==
    ASSUME JwksInv, NEW v \in Verifier, req[v].pc \in {"look", "verify"}, AwaitKeys(v),
           UNCHANGED <<now, cache>>
    PROVE  JwksInv'
<1> DEFINE u == req[v].uri
<1>1. req[v] \in ReqState /\ u \in Uri /\ req[v].pol \in Policy /\ req \in [Verifier -> ReqState]
  BY DEF JwksInv, ReqInv, ReqState
<1>2. Start({u}, req[v].pol) BY DEF AwaitKeys
<1>3. FetchInv' BY <1>1, <1>2, StartKeepsFetches DEF JwksInv
<1>4. CASE inflight[u] # None \/ MayRequest(u)
  <2>1. PICK limit \in Nat :
           /\ limit = Ceiling(u, req[v].pol) /\ inflight'[u] \in Slot
           /\ fetch'[u][inflight'[u]].pol.stale = limit
    BY <1>1, <1>2, <1>4, CeilingKnown
  <2> DEFINE waits == [req[v] EXCEPT !.tried = TRUE, !.pc = "wait", !.limit = limit]
  <2>2. req' = [req EXCEPT ![v] = waits] BY <1>1, <1>4, <2>1 DEF AwaitKeys
  <2>3. waits \in ReqState /\ waits.pc = "wait" /\ waits.uri = u /\ waits.limit = limit
    BY <1>1 DEF ReqState
  <2>4. \A w \in Verifier : req'[w] = IF w = v THEN waits ELSE req[w] BY <1>1, <2>2
  <2> HIDE DEF waits
  <2>5. WaitInv' BY <1>1, <1>2, <2>1, <2>3, <2>4, StartKeepsWaits DEF WaitInv
  <2> QED BY <1>1, <1>3, <2>2, <2>3, <2>5, OneRequestKeeps
<1>5. CASE ~(inflight[u] # None \/ MayRequest(u))
  <2>1. Over("failed") \in ReqState /\ Over("failed").pc = "failed" BY OverIsState DEF Ended
  <2>2. req' = [req EXCEPT ![v] = Over("failed")] BY <1>1, <1>5 DEF AwaitKeys
  <2>3. WaitInv' BY <1>1, <1>2, <2>1, <2>2, OthersWait
  <2> QED BY <1>3, <2>1, <2>2, <2>3, OneRequestKeeps
<1> QED BY <1>4, <1>5

LEMMA VerifyCalledKeeps ==
    ASSUME JwksInv, NEW v \in Verifier, VerifyCalled(v)
    PROVE  JwksInv'
<1>1. req[v] \in ReqState /\ req[v].uri \in Uri /\ now \in Nat
  BY DEF VerifyCalled, JwksInv, ReqInv, CacheInv, ReqState
<1>2. FetchInv' BY FetchUnchanged DEF VerifyCalled, JwksInv
<1> DEFINE looks == [req[v] EXCEPT !.pc = "look", !.since = now]
<1>3. looks \in ReqState /\ looks.pc = "look" /\ looks.uri \in Uri BY <1>1 DEF ReqState
<1>4. Over("refused") \in ReqState /\ Over("refused").pc = "refused" BY OverIsState DEF Ended
<1>5. UNCHANGED <<now, cache>> BY DEF VerifyCalled
<1> HIDE DEF looks
<1>6. CASE req' = [req EXCEPT ![v] = looks]
  BY <1>2, <1>3, <1>5, <1>6, OthersWait, OneRequestKeeps DEF VerifyCalled
<1>7. CASE req' = [req EXCEPT ![v] = Over("refused")]
  BY <1>2, <1>4, <1>5, <1>7, OthersWait, OneRequestKeeps DEF VerifyCalled
<1> USE DEF looks
<1> QED BY <1>6, <1>7 DEF VerifyCalled, JwksInv, ReqInv

\* Fresh keys of the cache may be used.
LEMMA FreshIsUsable ==
    ASSUME JwksInv, NEW u \in Uri, Fresh(u)
    PROVE  /\ cache[u].maxAge \in Nat
           /\ Usable([kids |-> cache[u].kids, at |-> cache[u].at], cache[u].maxAge)
<1>1. /\ cache[u] \in Entry /\ cache[u].at <= now /\ now \in Nat /\ now <= cache[u].expires
      /\ cache[u].expires <= cache[u].at + cache[u].maxAge
  BY DEF Fresh, JwksInv, CacheInv
<1>2. /\ cache[u].at \in Nat /\ cache[u].expires \in Nat /\ cache[u].kids \in KeySet
      /\ cache[u].maxAge \in Nat
  BY <1>1 DEF Entry
<1>3. now - cache[u].at <= cache[u].maxAge BY <1>1, <1>2
<1> QED BY <1>1, <1>2, <1>3 DEF Usable, Keys

LEMMA LooksKeeps ==
    ASSUME JwksInv, NEW v \in Verifier, Looks(v)
    PROVE  JwksInv'
<1> DEFINE u == req[v].uri
           keys == [kids |-> cache[u].kids, at |-> cache[u].at]
           limit == cache[u].maxAge
           cached == [req[v] EXCEPT !.pc = "verify", !.keys = keys, !.limit = limit]
           late == [req[v] EXCEPT !.pc = "verify", !.keys = keys, !.limit = limit,
                                  !.tried = TRUE, !.excuse = TRUE]
<1>1. req[v] \in ReqState /\ u \in Uri /\ req[v].pc = "look" /\ req \in [Verifier -> ReqState]
  BY DEF Looks, JwksInv, ReqInv
<1>2. UNCHANGED <<now, cache>> BY DEF Looks
<1>3. UNCHANGED <<fetch, inflight>> => FetchInv' BY FetchUnchanged DEF JwksInv
<1>4. CASE AwaitKeys(v) BY <1>1, <1>2, <1>4, AwaitKeysKeeps
<1>5. Fresh(u) => limit \in Nat /\ Usable(keys, limit) BY <1>1, FreshIsUsable
<1>6. Fresh(u) => /\ cached \in ReqState /\ cached.pc = "verify" /\ cached.uri = u
                  /\ cached.keys = keys /\ cached.limit = limit
                  /\ late \in ReqState /\ late.pc = "verify" /\ late.uri = u /\ late.keys = keys
                  /\ late.limit = limit
  BY <1>1, <1>5 DEF ReqState, Usable
<1>9. \/ AwaitKeys(v)
      \/ Fresh(u) /\ req' = [req EXCEPT ![v] = cached] /\ UNCHANGED <<fetch, inflight>>
      \/ Fresh(u) /\ req' = [req EXCEPT ![v] = late] /\ UNCHANGED <<fetch, inflight>>
  <2>1. [req EXCEPT ![v].pc = "verify", ![v].keys = keys, ![v].limit = limit]
          = [req EXCEPT ![v] = cached]
    BY <1>1
  <2>2. [[req EXCEPT ![v].pc = "verify", ![v].keys = keys, ![v].limit = limit]
           EXCEPT ![v].tried = TRUE, ![v].excuse = TRUE]
          = [req EXCEPT ![v] = late]
    BY <1>1 DEF ReqState
  <2> HIDE DEF cached, late, keys, limit
  <2> QED BY <2>1, <2>2 DEF Looks, keys, limit
<1> HIDE DEF cached, late, keys, limit
<1>7. CASE Fresh(u) /\ req' = [req EXCEPT ![v] = cached] /\ UNCHANGED <<fetch, inflight>>
  <2>1. WaitInv' BY <1>6, <1>7, OthersWait
  <2> QED BY <1>1, <1>2, <1>3, <1>5, <1>6, <1>7, <2>1, OneRequestKeeps
<1>8. CASE Fresh(u) /\ req' = [req EXCEPT ![v] = late] /\ UNCHANGED <<fetch, inflight>>
  <2>1. WaitInv' BY <1>6, <1>8, OthersWait
  <2> QED BY <1>1, <1>2, <1>3, <1>5, <1>6, <1>8, <2>1, OneRequestKeeps
<1> QED BY <1>4, <1>7, <1>8, <1>9

LEMMA VerifiedKeeps ==
    ASSUME JwksInv, NEW v \in Verifier, Verified(v)
    PROVE  JwksInv'
<1>1. UNCHANGED <<now, cache>> /\ req[v].pc = "verify" BY DEF Verified
<1>2. UNCHANGED <<fetch, inflight>> => FetchInv' BY FetchUnchanged DEF JwksInv
<1>3. CASE AwaitKeys(v) BY <1>1, <1>3, AwaitKeysKeeps
<1>4. ASSUME NEW pc \in {"accepted", "rejected"}, req' = [req EXCEPT ![v] = Over(pc)],
             UNCHANGED <<fetch, inflight>>
      PROVE  JwksInv'
  <2>1. Over(pc) \in ReqState /\ Over(pc).pc = pc BY OverIsState DEF Ended
  <2>2. WaitInv' BY <1>4, <2>1, OthersWait
  <2> QED BY <1>1, <1>2, <1>4, <2>1, <2>2, OneRequestKeeps
<1> QED BY <1>3, <1>4 DEF Verified

\* Time does not pass while a verification has keys in its hands.
LEMMA TickKeeps ==
    ASSUME JwksInv, Tick
    PROVE  JwksInv'
<1>1. \A v \in Verifier : req[v].pc # "verify" BY DEF Tick, Urgent
<1>2. ReqInv' BY <1>1 DEF Tick, JwksInv, ReqInv
<1>3. CacheInv'
  <2>1. now \in Nat /\ now' = now + 1 /\ UNCHANGED cache BY DEF Tick, JwksInv, CacheInv
  <2>2. \A u \in Uri : cache[u] # None => cache[u].at <= now'
    BY <2>1 DEF JwksInv, CacheInv, Entry
  <2> QED BY <2>1, <2>2 DEF JwksInv, CacheInv
<1>4. FetchInv' BY FetchUnchanged DEF Tick, JwksInv
<1>5. WaitInv' BY DEF Tick, JwksInv, WaitInv
<1> QED BY <1>2, <1>3, <1>4, <1>5 DEF JwksInv

LEMMA NextKeeps == JwksInv /\ [Next]_vars => JwksInv'
<1> SUFFICES ASSUME JwksInv, [Next]_vars PROVE JwksInv' OBVIOUS
<1>1. ASSUME UNCHANGED <<now, cache, fetch, inflight, req>> PROVE JwksInv'
  <2>1. FetchInv' BY <1>1, FetchUnchanged DEF JwksInv
  <2>2. WaitInv' BY <1>1 DEF JwksInv, WaitInv
  <2>3. CacheInv' /\ ReqInv' BY <1>1 DEF JwksInv, CacheInv, ReqInv, Usable
  <2> QED BY <2>1, <2>2, <2>3 DEF JwksInv
<1>2. CASE ListStep BY <1>1, <1>2 DEF ListStep, jwksVars
<1>3. CASE PrewarmStarts
  <2>1. PICK us \in {prewarm.trusts, {}} : Start(us, Server) BY <1>3 DEF PrewarmStarts
  <2> QED BY <1>3, <2>1, PolicyNumbers, StartsKeepRest DEF PrewarmStarts
<1>4. CASE PrewarmEnds BY <1>1, <1>4 DEF PrewarmEnds
<1>5. CASE Sweep
  <2> DEFINE due == {u \in Uri : cache[u] # None /\ now - cache[u].at >= Server.refresh}
  <2>1. Start(due, Server) BY <1>5 DEF Sweep
  <2> HIDE DEF due
  <2> QED BY <1>5, <2>1, PolicyNumbers, StartsKeepRest DEF Sweep
<1>6. CASE Tick BY <1>6, TickKeeps
<1>7. CASE UNCHANGED vars BY <1>1, <1>7 DEF vars, jwksVars
<1>8. CASE \E u \in Uri, n \in Slot : FetchStep(u, n) BY <1>8, FetchStepKeeps
<1>9. CASE \E v \in Verifier : VerifyCalled(v) \/ Looks(v) \/ Verified(v)
  BY <1>9, VerifyCalledKeeps, LooksKeeps, VerifiedKeeps
<1> QED BY <1>2, <1>3, <1>4, <1>5, <1>6, <1>7, <1>8, <1>9 DEF Next, Idle

\* The invariant of fetches, cache and verifications on which the next two
\* results rest.
THEOREM JwksInvariant == Spec => []JwksInv
BY InitHolds, NextKeeps, PTL DEF Spec

\* A URI never has two fetches under way, whoever started them
\* (external-jwks-validator.service.ts:382).
THEOREM OneFetch == Spec => []SingleFlight
<1>1. JwksInv => SingleFlight BY DEF JwksInv, FetchInv, Flight, SingleFlight, Running
<1> QED BY <1>1, JwksInvariant, PTL

\* No verification uses keys older than the ceiling that counts for it: its own
\* staleIfErrorMs for keys its own fetch could not replace, that of the fetch
\* it joined, or the lifetime given to the entry it found in the cache
\* (external-jwks-validator.service.ts:442, egress-policy.ts:70).
THEOREM KeysStayUnderCeiling == Spec => []KeysUnderCeiling
<1>1. JwksInv => KeysUnderCeiling BY DEF JwksInv, ReqInv, Usable, KeysUnderCeiling
<1> QED BY <1>1, JwksInvariant, PTL

-----------------------------------------------------------------------------
(* The shape of the state                                                   *)

\* The fetches under way and what the process remembers of a URI.
ShapeInv ==
    /\ fetch \in [Uri -> [Slot -> FetchState \cup {None}]]
    /\ inflight \in [Uri -> Slot \cup {None}]
    /\ resolved \in [Uri -> Host \cup {None}]
    /\ lastKid \in [Uri -> Nat \cup {None}]
    /\ prewarm \in [state : {"no", "running", "done"}, trusts : SUBSET Uri] /\ sweeps \in Nat

\* A power of two is a number of subsets, hence a number.
LEMMA PowersAreNumbers == \A n \in Nat : 2^n \in Nat
<1> SUFFICES ASSUME NEW n \in Nat PROVE 2^n \in Nat OBVIOUS
<1>1. IsFiniteSet(1..n) /\ Cardinality(1..n) = n BY FS_Interval
<1>2. IsFiniteSet(SUBSET (1..n)) /\ Cardinality(SUBSET (1..n)) = 2^n BY <1>1, FS_SUBSET
<1> QED BY <1>2, FS_CardinalityType

LEMMA AttemptTyped ==
    ASSUME ShapeInv, now \in Nat, NEW u \in Uri, NEW p \in Policy, NEW attempt \in Nat,
           NEW deadline \in Nat, deadline >= now
    PROVE  Attempt(u, p, attempt, deadline) \in FetchState
<1>1. p.timeout \in Nat BY PolicyAssumption DEF PolicyFields
<1>2. PICK span \in Nat : span = Least(p.timeout, deadline - now) BY <1>1 DEF Least
<1>3. PICK at \in Host : at = Target(u) BY UriAssumption DEF Target, ShapeInv
<1>4. now + span \in Nat BY <1>2
<1>5. 0 \in 0..MaxRedirects BY TimeAssumption
<1>6. Attempt(u, p, attempt, deadline) =
        [stage |-> "hop", pol |-> p, attempt |-> attempt, deadline |-> deadline,
         span |-> span, until |-> now + span, hop |-> 0, at |-> at]
  BY <1>2, <1>3 DEF Attempt
<1> QED BY <1>4, <1>5, <1>6 DEF FetchState

LEMMA StartTyped ==
    ASSUME ShapeInv, FetchInv, now \in Nat, NEW us, NEW p \in Policy, Start(us, p)
    PROVE  /\ fetch' \in [Uri -> [Slot -> FetchState \cup {None}]]
           /\ inflight' \in [Uri -> Slot \cup {None}]
<1> DEFINE new == {u \in us : inflight[u] = None /\ MayRequest(u)}
<1>1. p.deadline \in Nat BY PolicyNumbers
<1>2. now + p.deadline \in Nat /\ now + p.deadline >= now BY <1>1
<1>3. \A u \in Uri : Attempt(u, p, 0, now + p.deadline) \in FetchState BY <1>2, AttemptTyped
<1>4. \A u \in Uri : u \in new => FreeSlot(u) \in Slot
  <2>1. SUFFICES ASSUME NEW u \in Uri, inflight[u] = None PROVE FreeSlot(u) \in Slot OBVIOUS
  <2>2. PICK n \in Slot : TRUE BY UriAssumption
  <2>3. fetch[u][n] = None BY <2>1, UriAssumption DEF FetchInv, Flight
  <2> QED BY <2>3 DEF FreeSlot
<1>5. /\ fetch' = [u \in Uri |-> IF u \in new
                                 THEN [fetch[u] EXCEPT ![FreeSlot(u)] = Attempt(u, p, 0, now + p.deadline)]
                                 ELSE fetch[u]]
      /\ inflight' = [u \in Uri |-> IF u \in new THEN FreeSlot(u) ELSE inflight[u]]
  BY DEF Start
<1> HIDE DEF new
<1>6. ASSUME NEW u \in Uri PROVE fetch'[u] \in [Slot -> FetchState \cup {None}]
  <2>1. fetch[u] \in [Slot -> FetchState \cup {None}] BY DEF ShapeInv
  <2>2. PICK a \in FetchState : a = Attempt(u, p, 0, now + p.deadline) BY <1>3
  <2>3. fetch'[u] = [fetch[u] EXCEPT ![FreeSlot(u)] = a] \/ fetch'[u] = fetch[u] BY <1>5, <2>2
  <2> QED BY <2>1, <2>3
<1>7. fetch' \in [Uri -> [Slot -> FetchState \cup {None}]] BY <1>5, <1>6
<1>8. inflight' \in [Uri -> Slot \cup {None}] BY <1>4, <1>5 DEF ShapeInv
<1> QED BY <1>7, <1>8

LEMMA SettleTyped ==
    ASSUME ShapeInv, NEW u \in Uri, NEW n \in Slot, NEW ok, NEW keys, NEW stale,
           Settle(u, n, ok, keys, stale)
    PROVE  /\ fetch' \in [Uri -> [Slot -> FetchState \cup {None}]]
           /\ inflight' \in [Uri -> Slot \cup {None}]
BY DEF Settle, ShapeInv

\* A fetch that goes on.
LEMMA GoingOnTyped ==
    ASSUME ShapeInv, NEW u \in Uri, NEW n \in Slot, NEW f \in FetchState,
           fetch' = [fetch EXCEPT ![u][n] = f], UNCHANGED inflight
    PROVE  /\ fetch' \in [Uri -> [Slot -> FetchState \cup {None}]]
           /\ inflight' \in [Uri -> Slot \cup {None}]
BY DEF ShapeInv

LEMMA SleepTyped ==
    ASSUME NEW f \in FetchState, NEW attempt \in Nat, NEW until \in Nat
    PROVE  [f EXCEPT !.stage = "sleep", !.attempt = attempt, !.until = until] \in FetchState
BY DEF FetchState

LEMMA RedirectTyped ==
    ASSUME NEW f \in FetchState, NEW hop \in 0..MaxRedirects, NEW at \in Host, NEW until \in Nat
    PROVE  [f EXCEPT !.hop = hop, !.at = at, !.until = until] \in FetchState
BY DEF FetchState

LEMMA GiveUpTyped ==
    ASSUME ShapeInv, NEW u \in Uri, NEW n \in Slot, GiveUp(u, n)
    PROVE  /\ fetch' \in [Uri -> [Slot -> FetchState \cup {None}]]
           /\ inflight' \in [Uri -> Slot \cup {None}]
BY SettleTyped DEF GiveUp

LEMMA AttemptFailsTyped ==
    ASSUME ShapeInv, now \in Nat, NEW u \in Uri, NEW n \in Slot, fetch[u][n] # None, AttemptFails(u, n)
    PROVE  /\ fetch' \in [Uri -> [Slot -> FetchState \cup {None}]]
           /\ inflight' \in [Uri -> Slot \cup {None}]
<1>1. CASE GiveUp(u, n) BY <1>1, GiveUpTyped
<1>2. CASE ~GiveUp(u, n)
  <2>1. PICK f \in FetchState : f = fetch[u][n] BY DEF ShapeInv
  <2>2. f.deadline > now BY <1>2, <2>1 DEF AttemptFails, FetchState
  <2>3. PICK jitter \in 0..(f.pol.backoff - 1) \cup {0} :
          fetch' = [fetch EXCEPT ![u][n].stage = "sleep", ![u][n].attempt = @ + 1,
                     ![u][n].until =
                        now + Least(f.pol.backoff * 2^f.attempt + jitter, f.deadline - now)]
    BY <1>2, <2>1 DEF AttemptFails
  <2>4. PICK until \in Nat : until = now + Least(f.pol.backoff * 2^f.attempt + jitter, f.deadline - now)
    <3>1. f.pol.backoff \in Nat /\ f.deadline \in Nat /\ f.attempt \in Nat
      BY PolicyAssumption DEF PolicyFields, FetchState
    <3>2. PICK power \in Nat : power = 2^f.attempt BY <3>1, PowersAreNumbers
    <3>3. PICK sleep \in Nat : sleep = f.pol.backoff * power + jitter BY <3>1, <3>2
    <3>4. PICK rest \in Nat : rest = f.deadline - now BY <2>2, <3>1
    <3>5. now + Least(sleep, rest) \in Nat BY DEF Least
    <3> QED BY <3>2, <3>3, <3>4, <3>5
  <2> DEFINE g == [f EXCEPT !.stage = "sleep", !.attempt = @ + 1, !.until = until]
  <2>5. fetch' = [fetch EXCEPT ![u][n] = g] BY <2>1, <2>3, <2>4 DEF ShapeInv
  <2>6. g \in FetchState
    <3>1. f.attempt + 1 \in Nat BY DEF FetchState
    <3> QED BY <3>1, SleepTyped
  <2>7. UNCHANGED inflight BY <1>2 DEF AttemptFails
  <2> QED BY <2>5, <2>6, <2>7, GoingOnTyped
<1> QED BY <1>1, <1>2

LEMMA FetchStepTyped ==
    ASSUME ShapeInv, JwksInv, NEW u \in Uri, NEW n \in Slot, FetchStep(u, n)
    PROVE  ShapeInv'
<1>1. now \in Nat /\ UNCHANGED <<lastKid, prewarm, sweeps>>
  BY DEF JwksInv, CacheInv, FetchStep, Answered, Redirected, RequestFails, RequestTimesOut, Wakes
<1>2. fetch[u][n] # None
  BY DEF FetchStep, Answered, Redirected, RequestFails, RequestTimesOut, Wakes
<1>3. PICK f \in FetchState : f = fetch[u][n] BY <1>2 DEF ShapeInv
<1>4. resolved' \in [Uri -> Host \cup {None}]
  BY <1>3 DEF ShapeInv, FetchState, FetchStep, Answered, Redirected, RequestFails, RequestTimesOut, Wakes
<1> DEFINE Typed == /\ fetch' \in [Uri -> [Slot -> FetchState \cup {None}]]
                    /\ inflight' \in [Uri -> Slot \cup {None}]
<1>5. CASE Answered(u, n)
  <2>1. \/ AttemptFails(u, n)
        \/ \E ok, keys, stale : Settle(u, n, ok, keys, stale)
    BY <1>5 DEF Answered
  <2>2. Typed BY <1>1, <1>2, <2>1, AttemptFailsTyped, SettleTyped
  <2> QED BY <1>1, <1>4, <2>2 DEF ShapeInv
<1>6. CASE Redirected(u, n)
  <2>1. f.hop < MaxRedirects BY <1>3, <1>6 DEF Redirected
  <2>2. PICK h \in Host :
          IF IsAllowed(h)
          THEN /\ fetch' = [fetch EXCEPT ![u][n].hop = @ + 1, ![u][n].at = h,
                                         ![u][n].until = now + f.span]
               /\ UNCHANGED <<inflight, req>>
          ELSE Settle(u, n, FALSE, NoKeys, FALSE)
    BY <1>3, <1>6 DEF Redirected
  <2>3. CASE ~IsAllowed(h) BY <1>1, <1>4, <2>2, <2>3, SettleTyped DEF ShapeInv
  <2>4. CASE IsAllowed(h)
    <3> DEFINE g == [f EXCEPT !.hop = @ + 1, !.at = h, !.until = now + f.span]
    <3>1. fetch' = [fetch EXCEPT ![u][n] = g]
      <4>1. fetch' = [fetch EXCEPT ![u][n].hop = @ + 1, ![u][n].at = h, ![u][n].until = now + f.span]
        BY <2>2, <2>4
      <4> QED BY <1>3, <4>1 DEF ShapeInv
    <3>4. UNCHANGED inflight BY <2>2, <2>4
    <3>2. now + f.span \in Nat /\ f.hop + 1 \in 0..MaxRedirects
      BY <1>1, <2>1, TimeAssumption DEF FetchState
    <3>3. g \in FetchState BY <3>2, RedirectTyped
    <3>5. Typed BY <3>1, <3>3, <3>4, GoingOnTyped
    <3> QED BY <1>1, <1>4, <3>5 DEF ShapeInv
  <2> QED BY <2>3, <2>4
<1>7. CASE RequestFails(u, n) \/ RequestTimesOut(u, n)
  <2>1. AttemptFails(u, n) BY <1>7 DEF RequestFails, RequestTimesOut
  <2>2. Typed BY <1>1, <1>2, <2>1, AttemptFailsTyped
  <2> QED BY <1>1, <1>4, <2>2 DEF ShapeInv
<1>8. CASE Wakes(u, n)
  <2>1. \/ GiveUp(u, n)
        \/ Settle(u, n, FALSE, NoKeys, FALSE)
        \/ /\ f.deadline > now
           /\ fetch' = [fetch EXCEPT ![u][n] = Attempt(u, f.pol, f.attempt, f.deadline)]
           /\ UNCHANGED inflight
    <3>1. f.deadline \in Nat BY DEF FetchState
    <3>2. CASE f.deadline <= now BY <1>1, <1>3, <1>8, <3>1, <3>2 DEF Wakes
    <3>3. CASE f.deadline > now /\ ~MayRequest(u) BY <1>1, <1>3, <1>8, <3>1, <3>3 DEF Wakes
    <3>4. CASE f.deadline > now /\ MayRequest(u)
      <4>1. ~(f.deadline <= now) /\ ~(f.deadline > now /\ ~MayRequest(u)) BY <1>1, <3>1, <3>4
      <4>2. /\ fetch' = [fetch EXCEPT ![u][n] = Attempt(u, f.pol, f.attempt, f.deadline)]
            /\ UNCHANGED inflight
        BY <1>3, <1>8, <4>1, Zenon DEF Wakes
      <4> QED BY <3>4, <4>2
    <3>5. f.deadline <= now \/ f.deadline > now BY <1>1, <3>1
    <3> QED BY <3>2, <3>3, <3>4, <3>5, Zenon
  <2>2. f.deadline > now => Attempt(u, f.pol, f.attempt, f.deadline) \in FetchState
    <3>1. f.pol \in Policy /\ f.attempt \in Nat /\ f.deadline \in Nat BY DEF FetchState
    <3> QED BY <1>1, <3>1, AttemptTyped
  <2>3. Typed BY <2>1, <2>2, GiveUpTyped, SettleTyped, GoingOnTyped
  <2> QED BY <1>1, <1>4, <2>3 DEF ShapeInv
<1> QED BY <1>5, <1>6, <1>7, <1>8 DEF FetchStep

LEMMA NextKeepsShape == ShapeInv /\ JwksInv /\ [Next]_vars => ShapeInv'
<1> SUFFICES ASSUME ShapeInv, JwksInv, [Next]_vars PROVE ShapeInv' OBVIOUS
<1>1. UNCHANGED <<fetch, inflight, resolved, lastKid, prewarm, sweeps>> => ShapeInv' BY DEF ShapeInv
<1>2. now \in Nat /\ FetchInv BY DEF JwksInv, CacheInv
<1>3. CASE ListStep BY <1>1, <1>3 DEF ListStep, jwksVars
<1>4. CASE PrewarmStarts
  <2>1. PICK us \in {prewarm.trusts, {}} : Start(us, Server) BY <1>4 DEF PrewarmStarts
  <2> QED BY <1>2, <1>4, <2>1, PolicyNumbers, StartTyped DEF PrewarmStarts, ShapeInv
<1>5. CASE PrewarmEnds BY <1>5 DEF PrewarmEnds, ShapeInv
<1>6. CASE Sweep
  <2> DEFINE due == {u \in Uri : cache[u] # None /\ now - cache[u].at >= Server.refresh}
  <2>1. Start(due, Server) BY <1>6 DEF Sweep
  <2> HIDE DEF due
  <2> QED BY <1>2, <1>6, <2>1, PolicyNumbers, StartTyped DEF Sweep, ShapeInv
<1>7. CASE Tick BY <1>1, <1>7 DEF Tick
<1>8. CASE UNCHANGED vars BY <1>1, <1>8 DEF vars, jwksVars
<1>9. CASE \E u \in Uri, n \in Slot : FetchStep(u, n) BY <1>9, FetchStepTyped
<1>10. CASE \E v \in Verifier : VerifyCalled(v) \/ Looks(v) \/ Verified(v)
  <2>1. PICK v \in Verifier : VerifyCalled(v) \/ Looks(v) \/ Verified(v) BY <1>10
  <2>2. UNCHANGED <<resolved, prewarm, sweeps>> BY <2>1 DEF VerifyCalled, Looks, Verified
  <2>3. lastKid' = lastKid \/ \E u \in Uri : lastKid' = [lastKid EXCEPT ![u] = now]
    <3>1. req[v].pc \in {"look", "wait", "verify"} => req[v].uri \in Uri BY DEF JwksInv, ReqInv
    <3> QED BY <2>1, <3>1 DEF VerifyCalled, Looks, Verified
  <2>4. lastKid' \in [Uri -> Nat \cup {None}] BY <1>2, <2>3 DEF ShapeInv
  <2>5. UNCHANGED <<fetch, inflight>> \/ AwaitKeys(v) BY <2>1 DEF VerifyCalled, Looks, Verified
  <2>6. req[v].pol \in Policy BY DEF JwksInv, ReqInv, ReqState
  <2>7. AwaitKeys(v) => /\ fetch' \in [Uri -> [Slot -> FetchState \cup {None}]]
                        /\ inflight' \in [Uri -> Slot \cup {None}]
    BY <1>2, <2>6, StartTyped DEF AwaitKeys
  <2> QED BY <2>2, <2>4, <2>5, <2>7 DEF ShapeInv
<1> QED BY <1>3, <1>4, <1>5, <1>6, <1>7, <1>8, <1>9, <1>10 DEF Next, Idle

\* The state keeps its shape: a fetch sleeps until some time, a URI that redirected
\* is remembered with a host, at most one slot is joined.
THEOREM JwksTypeCorrect == Spec => []TypeOK
<1>1. Init => ListInv /\ ShapeInv BY ListInitHolds DEF Init, ShapeInv
<1>2. ListInv /\ [Next]_vars => ListInv' BY ListNextKeeps, StepIsListStep
<1>3. ShapeInv /\ JwksInv /\ [Next]_vars => ShapeInv' BY NextKeepsShape
<1>4. ListInv /\ JwksInv /\ ShapeInv => TypeOK
  <2> SUFFICES ASSUME ListInv, JwksInv, ShapeInv PROVE TypeOK OBVIOUS
  <2>1. cache \in [Uri -> [kids : KeySet, at : Nat, expires : Nat, maxAge : Nat] \cup {None}]
    BY DEF JwksInv, CacheInv, Entry
  <2> QED BY <2>1 DEF ListInv, JwksInv, CacheInv, ReqInv, ReqState, ShapeInv, TypeOK
<1> QED BY <1>1, <1>2, <1>3, <1>4, JwksInvariant, PTL DEF Spec

-----------------------------------------------------------------------------
(* Rejections                                                               *)

\* A verification starts now or before, and fetches once at most; the keys of
\* one that has fetched are from after its start, or there is an excuse.
TriedOnce ==
    \A v \in Verifier :
        /\ req[v].pc \in {"look", "wait", "verify"} => req[v].since <= now
        /\ req[v].pc \in {"idle", "look"} => ~req[v].tried
        /\ req[v].pc = "verify" /\ req[v].tried =>
              req[v].keys.at >= req[v].since \/ req[v].excuse

\* The same of a single verification.
TriedWell(r, time) ==
    /\ r.pc \in {"look", "wait", "verify"} => r.since <= time
    /\ r.pc \in {"idle", "look"} => ~r.tried
    /\ r.pc = "verify" /\ r.tried => r.keys.at >= r.since \/ r.excuse

LEMMA OverTriedWell ==
    \A pc \in {"idle"} \cup Ended : \A time \in Nat : TriedWell(Over(pc), time)
BY DEF TriedWell, Over, Ended

LEMMA TriedOnceIs == TriedOnce <=> \A v \in Verifier : TriedWell(req[v], now)
BY DEF TriedOnce, TriedWell

\* Only v changes, and is still well.
LEMMA OneKeepsTried ==
    ASSUME ReqInv, TriedOnce, NEW v \in Verifier, NEW r, req' = [req EXCEPT ![v] = r],
           TriedWell(r, now), UNCHANGED now
    PROVE  TriedOnce'
<1>1. \A w \in Verifier : req'[w] = IF w = v THEN r ELSE req[w] BY DEF ReqInv
<1>2. \A w \in Verifier : TriedWell(req'[w], now') BY <1>1, TriedOnceIs
<1> QED BY <1>2 DEF TriedOnce, TriedWell

\* Those who waited get keys fetched now, or keys with an excuse.
LEMMA SettleKeepsTried ==
    ASSUME ReqInv, TriedOnce, NEW u \in Uri, NEW n \in Slot, NEW ok \in BOOLEAN,
           NEW keys \in Keys, NEW stale \in BOOLEAN, now \in Nat, ok => stale \/ keys.at = now,
           Settle(u, n, ok, keys, stale), UNCHANGED now
    PROVE  TriedOnce'
<1>1. \A v \in Verifier : req'[v] =
         IF req[v].pc = "wait" /\ req[v].uri = u
         THEN IF ok THEN [req[v] EXCEPT !.pc = "verify", !.keys = keys, !.excuse = stale]
                    ELSE Over("failed")
         ELSE req[v]
  BY DEF Settle
<1>2. ASSUME NEW v \in Verifier PROVE TriedWell(req'[v], now)
  <2>1. req[v] \in ReqState /\ TriedWell(req[v], now) BY TriedOnceIs DEF ReqInv
  <2>2. CASE ~(req[v].pc = "wait" /\ req[v].uri = u) BY <1>1, <2>1, <2>2
  <2>3. CASE req[v].pc = "wait" /\ req[v].uri = u /\ ok
    <3> DEFINE r == [req[v] EXCEPT !.pc = "verify", !.keys = keys, !.excuse = stale]
    <3>1. r.pc = "verify" /\ r.keys = keys /\ r.excuse = stale /\ r.since = req[v].since
      BY <2>1 DEF ReqState
    <3>2. req[v].since <= now BY <2>1, <2>3 DEF TriedWell
    <3>3. TriedWell(r, now) BY <2>3, <3>1, <3>2 DEF TriedWell
    <3> QED BY <1>1, <2>3, <3>3
  <2>4. CASE req[v].pc = "wait" /\ req[v].uri = u /\ ~ok
    BY <1>1, <2>4, OverTriedWell DEF Ended
  <2> QED BY <2>2, <2>3, <2>4
<1>3. \A v \in Verifier : TriedWell(req'[v], now') BY <1>2
<1> QED BY <1>3 DEF TriedOnce, TriedWell

LEMMA GiveUpKeepsTried ==
    ASSUME JwksInv, TriedOnce, NEW u \in Uri, NEW n \in Slot, GiveUp(u, n), UNCHANGED now
    PROVE  TriedOnce'
<1>1. NoKeys \in Keys BY DEF NoKeys, Keys
<1>2. cache[u] # None => [kids |-> cache[u].kids, at |-> cache[u].at] \in Keys
  BY DEF JwksInv, CacheInv, Entry, Keys
<1>3. ReqInv /\ now \in Nat BY DEF JwksInv, CacheInv
<1> QED BY <1>1, <1>2, <1>3, SettleKeepsTried DEF GiveUp

LEMMA AttemptFailsKeepsTried ==
    ASSUME JwksInv, TriedOnce, NEW u \in Uri, NEW n \in Slot, AttemptFails(u, n), UNCHANGED now
    PROVE  TriedOnce'
<1>1. CASE GiveUp(u, n) BY <1>1, GiveUpKeepsTried
<1>2. CASE UNCHANGED req BY <1>2 DEF TriedOnce
<1> QED BY <1>1, <1>2 DEF AttemptFails

LEMMA FetchStepKeepsTried ==
    ASSUME JwksInv, TriedOnce, NEW u \in Uri, NEW n \in Slot, FetchStep(u, n)
    PROVE  TriedOnce'
<1>1. UNCHANGED now /\ now \in Nat /\ ReqInv
  BY DEF FetchStep, Answered, Redirected, RequestFails, RequestTimesOut, Wakes, JwksInv, CacheInv
<1>2. NoKeys \in Keys BY DEF NoKeys, Keys
<1>3. Settle(u, n, FALSE, NoKeys, FALSE) => TriedOnce' BY <1>1, <1>2, SettleKeepsTried
<1>4. \A kids \in KeySet :
         Settle(u, n, TRUE, [kids |-> kids, at |-> now], FALSE) => TriedOnce'
  <2> SUFFICES ASSUME NEW kids \in KeySet, Settle(u, n, TRUE, [kids |-> kids, at |-> now], FALSE)
               PROVE  TriedOnce'
    OBVIOUS
  <2>1. [kids |-> kids, at |-> now] \in Keys BY <1>1 DEF Keys
  <2> QED BY <1>1, <2>1, SettleKeepsTried
<1>5. UNCHANGED req => TriedOnce' BY <1>1 DEF TriedOnce
<1>6. GiveUp(u, n) \/ AttemptFails(u, n) => TriedOnce'
  BY <1>1, GiveUpKeepsTried, AttemptFailsKeepsTried
<1>7. CASE Answered(u, n) BY <1>3, <1>4, <1>6, <1>7 DEF Answered
<1>8. CASE Redirected(u, n) BY <1>3, <1>5, <1>8 DEF Redirected
<1>9. CASE RequestFails(u, n) \/ RequestTimesOut(u, n)
  BY <1>6, <1>9 DEF RequestFails, RequestTimesOut
<1>10. CASE Wakes(u, n) BY <1>3, <1>5, <1>6, <1>10 DEF Wakes
<1> QED BY <1>7, <1>8, <1>9, <1>10 DEF FetchStep

\* Waiting for keys is the one fetch of a verification.
LEMMA AwaitKeysKeepsTried ==
    ASSUME JwksInv, TriedOnce, NEW v \in Verifier, req[v].pc \in {"look", "verify"}, AwaitKeys(v),
           UNCHANGED now
    PROVE  TriedOnce'
<1>1. req[v] \in ReqState /\ ReqInv /\ TriedWell(req[v], now) /\ now \in Nat
  BY TriedOnceIs DEF JwksInv, ReqInv, CacheInv
<1> DEFINE waits == [req[v] EXCEPT !.tried = TRUE, !.pc = "wait",
                                   !.limit = Ceiling(req[v].uri, req[v].pol)]
<1>2. waits.pc = "wait" /\ waits.since = req[v].since BY <1>1 DEF ReqState
<1>3. TriedWell(waits, now) BY <1>1, <1>2 DEF TriedWell
<1>4. TriedWell(Over("failed"), now) BY <1>1, OverTriedWell DEF Ended
<1>5. \/ req' = [req EXCEPT ![v] = waits]
      \/ req' = [req EXCEPT ![v] = Over("failed")]
  BY <1>1 DEF AwaitKeys, ReqInv
<1> HIDE DEF waits
<1> QED BY <1>1, <1>3, <1>4, <1>5, OneKeepsTried

LEMMA VerifyCalledKeepsTried ==
    ASSUME JwksInv, TriedOnce, NEW v \in Verifier, VerifyCalled(v)
    PROVE  TriedOnce'
<1>1. /\ req[v] \in ReqState /\ ReqInv /\ TriedWell(req[v], now) /\ now \in Nat
      /\ req[v].pc = "idle" /\ UNCHANGED now
  BY TriedOnceIs DEF JwksInv, ReqInv, CacheInv, VerifyCalled
<1> DEFINE looks == [req[v] EXCEPT !.pc = "look", !.since = now]
<1>2. looks.pc = "look" /\ looks.since = now /\ looks.tried = req[v].tried BY <1>1 DEF ReqState
<1>3. TriedWell(looks, now) BY <1>1, <1>2 DEF TriedWell
<1>4. TriedWell(Over("refused"), now) BY <1>1, OverTriedWell DEF Ended
<1>5. \/ req' = [req EXCEPT ![v] = looks]
      \/ req' = [req EXCEPT ![v] = Over("refused")]
  BY <1>1 DEF VerifyCalled, ReqInv
<1> HIDE DEF looks
<1> QED BY <1>1, <1>3, <1>4, <1>5, OneKeepsTried

\* Cached keys leave a try, unless the rate limit takes it: that is the excuse.
LEMMA LooksKeepsTried ==
    ASSUME JwksInv, TriedOnce, NEW v \in Verifier, Looks(v)
    PROVE  TriedOnce'
<1> DEFINE u == req[v].uri
           keys == [kids |-> cache[u].kids, at |-> cache[u].at]
           limit == cache[u].maxAge
           cached == [req[v] EXCEPT !.pc = "verify", !.keys = keys, !.limit = limit]
           late == [req[v] EXCEPT !.pc = "verify", !.keys = keys, !.limit = limit,
                                  !.tried = TRUE, !.excuse = TRUE]
<1>1. /\ req[v] \in ReqState /\ req \in [Verifier -> ReqState] /\ ReqInv
      /\ TriedWell(req[v], now) /\ req[v].pc = "look" /\ UNCHANGED now
  BY TriedOnceIs DEF JwksInv, ReqInv, Looks
<1>2. /\ cached.pc = "verify" /\ cached.tried = req[v].tried /\ cached.since = req[v].since
      /\ late.pc = "verify" /\ late.excuse = TRUE /\ late.since = req[v].since
  BY <1>1 DEF ReqState
<1>3. TriedWell(cached, now) /\ TriedWell(late, now) BY <1>1, <1>2 DEF TriedWell
<1>4. \/ AwaitKeys(v)
      \/ req' = [req EXCEPT ![v] = cached]
      \/ req' = [req EXCEPT ![v] = late]
  <2>1. [req EXCEPT ![v].pc = "verify", ![v].keys = keys, ![v].limit = limit]
          = [req EXCEPT ![v] = cached]
    BY <1>1
  <2>2. [[req EXCEPT ![v].pc = "verify", ![v].keys = keys, ![v].limit = limit]
           EXCEPT ![v].tried = TRUE, ![v].excuse = TRUE]
          = [req EXCEPT ![v] = late]
    BY <1>1 DEF ReqState
  <2> HIDE DEF cached, late, keys, limit
  <2> QED BY <2>1, <2>2 DEF Looks, keys, limit
<1>5. CASE AwaitKeys(v) BY <1>1, <1>5, AwaitKeysKeepsTried
<1>6. CASE req' = [req EXCEPT ![v] = cached] \/ req' = [req EXCEPT ![v] = late]
  <2> HIDE DEF cached, late
  <2> QED BY <1>1, <1>3, <1>6, OneKeepsTried
<1> QED BY <1>4, <1>5, <1>6

LEMMA VerifiedKeepsTried ==
    ASSUME JwksInv, TriedOnce, NEW v \in Verifier, Verified(v)
    PROVE  TriedOnce'
<1>1. UNCHANGED now /\ req[v].pc = "verify" /\ ReqInv /\ now \in Nat
  BY DEF Verified, JwksInv, CacheInv
<1>2. \A pc \in {"accepted", "rejected"} : TriedWell(Over(pc), now)
  BY <1>1, OverTriedWell DEF Ended
<1>3. CASE AwaitKeys(v) BY <1>1, <1>3, AwaitKeysKeepsTried
<1>4. CASE \E pc \in {"accepted", "rejected"} : req' = [req EXCEPT ![v] = Over(pc)]
  BY <1>1, <1>2, <1>4, OneKeepsTried
<1> QED BY <1>3, <1>4 DEF Verified

LEMMA NextKeepsTried == JwksInv /\ TriedOnce /\ [Next]_vars => TriedOnce'
<1> SUFFICES ASSUME JwksInv, TriedOnce, [Next]_vars PROVE TriedOnce' OBVIOUS
<1>1. UNCHANGED <<now, req>> => TriedOnce' BY DEF TriedOnce
<1>2. CASE ListStep BY <1>1, <1>2 DEF ListStep, jwksVars
<1>3. CASE PrewarmStarts \/ PrewarmEnds \/ Sweep
  BY <1>1, <1>3 DEF PrewarmStarts, PrewarmEnds, Sweep
<1>4. CASE Tick
  <2>1. now \in Nat /\ now' = now + 1 /\ UNCHANGED req BY <1>4 DEF Tick, JwksInv, CacheInv
  <2>2. \A v \in Verifier : req[v].since \in Nat BY DEF JwksInv, ReqInv, ReqState
  <2> QED BY <2>1, <2>2 DEF TriedOnce
<1>5. CASE UNCHANGED vars BY <1>1, <1>5 DEF vars, jwksVars
<1>6. CASE \E u \in Uri, n \in Slot : FetchStep(u, n) BY <1>6, FetchStepKeepsTried
<1>7. CASE \E v \in Verifier : VerifyCalled(v) \/ Looks(v) \/ Verified(v)
  BY <1>7, VerifyCalledKeepsTried, LooksKeepsTried, VerifiedKeepsTried
<1> QED BY <1>2, <1>3, <1>4, <1>5, <1>6, <1>7 DEF Next, Idle

LEMMA InitTried == Init => TriedOnce
<1> SUFFICES ASSUME Init PROVE TriedOnce OBVIOUS
<1>1. \A u \in Uri, p \in Policy, t \in Token :
         Asked(u, p, t).pc = "idle" /\ ~Asked(u, p, t).tried
  BY DEF Asked, Over
<1>2. Over("idle").pc = "idle" /\ ~Over("idle").tried BY DEF Over
<1>3. \A v \in Verifier : req[v].pc = "idle" /\ ~req[v].tried BY <1>1, <1>2 DEF Init
<1> QED BY <1>3 DEF TriedOnce

\* Who is rejected had tried, with the keys in its hands.
LEMMA RejectedHadTried ==
    ASSUME JwksInv, TriedOnce, [Next]_vars, NEW v \in Verifier,
           req[v].pc # "rejected", req'[v].pc = "rejected"
    PROVE  req[v].keys.at >= req[v].since \/ req[v].excuse
<1>1. req \in [Verifier -> ReqState] BY DEF JwksInv, ReqInv
<1>2. req' # req BY DEF ReqInv
<1>3. \A u \in Uri, n \in Slot : ~FetchStep(u, n)
  <2> SUFFICES ASSUME NEW u \in Uri, NEW n \in Slot, FetchStep(u, n) PROVE FALSE OBVIOUS
  <2>1. ASSUME NEW ok, NEW keys, NEW stale, Settle(u, n, ok, keys, stale) PROVE FALSE
    <3>1. \/ req'[v] = req[v]
          \/ req'[v] = [req[v] EXCEPT !.pc = "verify", !.keys = keys, !.excuse = stale]
          \/ req'[v] = Over("failed")
      BY <2>1 DEF Settle
    <3>2. [req[v] EXCEPT !.pc = "verify", !.keys = keys, !.excuse = stale].pc = "verify"
      BY <1>1 DEF ReqState
    <3>3. Over("failed").pc = "failed" BY DEF Over
    <3> QED BY <3>1, <3>2, <3>3
  <2>2. GiveUp(u, n) => FALSE BY <2>1 DEF GiveUp
  <2>3. AttemptFails(u, n) => FALSE BY <1>2, <2>2 DEF AttemptFails
  <2> QED BY <1>2, <2>1, <2>2, <2>3
          DEF FetchStep, Answered, Redirected, RequestFails, RequestTimesOut, Wakes
<1>4. PICK w \in Verifier : VerifyCalled(w) \/ Looks(w) \/ Verified(w)
  BY <1>2, <1>3 DEF Next, ListStep, jwksVars, PrewarmStarts, PrewarmEnds, Sweep, Tick, Idle, vars
<1>5. AwaitKeys(w) => FALSE
  <2> SUFFICES ASSUME AwaitKeys(w) PROVE FALSE OBVIOUS
  <2> DEFINE waits == [req[v] EXCEPT !.tried = TRUE, !.pc = "wait",
                                     !.limit = Ceiling(req[v].uri, req[v].pol)]
  <2>1. req'[v] \in {req[v], waits, Over("failed")} BY <1>1 DEF AwaitKeys
  <2>2. waits.pc = "wait" BY <1>1 DEF ReqState
  <2>3. Over("failed").pc = "failed" BY DEF Over
  <2> QED BY <2>1, <2>2, <2>3
<1>6. ~VerifyCalled(w)
  <2> SUFFICES ASSUME VerifyCalled(w) PROVE FALSE OBVIOUS
  <2>1. req'[v] \in {req[v], [req[v] EXCEPT !.pc = "look", !.since = now], Over("refused")}
    BY <1>1 DEF VerifyCalled
  <2>2. [req[v] EXCEPT !.pc = "look", !.since = now].pc = "look" BY <1>1 DEF ReqState
  <2>3. Over("refused").pc = "refused" BY DEF Over
  <2> QED BY <2>1, <2>2, <2>3
<1>7. ~Looks(w)
  <2> SUFFICES ASSUME Looks(w) PROVE FALSE OBVIOUS
  <2> DEFINE keys == [kids |-> cache[req[w].uri].kids, at |-> cache[req[w].uri].at]
             cached == [req EXCEPT ![w].pc = "verify", ![w].keys = keys,
                                   ![w].limit = cache[req[w].uri].maxAge]
  <2>1. \/ AwaitKeys(w) \/ req' = cached
        \/ req' = [cached EXCEPT ![w].tried = TRUE, ![w].excuse = TRUE]
    BY DEF Looks
  <2>2. cached[v].pc \in {req[v].pc, "verify"} BY <1>1 DEF ReqState
  <2>3. [cached EXCEPT ![w].tried = TRUE, ![w].excuse = TRUE][v].pc = cached[v].pc
    BY <1>1 DEF ReqState
  <2> QED BY <1>5, <2>1, <2>2, <2>3
<1>8. /\ req[w].pc = "verify"
      /\ \/ req' = [req EXCEPT ![w] = Over("accepted")]
         \/ req[w].tried /\ req' = [req EXCEPT ![w] = Over("rejected")]
  BY <1>4, <1>5, <1>6, <1>7 DEF Verified
<1>9. v = w /\ req[w].pc = "verify" /\ req[w].tried
  <2>1. Over("accepted").pc = "accepted" BY DEF Over
  <2> QED BY <1>1, <1>8, <2>1
<1> QED BY <1>9 DEF TriedOnce

\* A token is rejected only after a look at the provider's keys that is newer
\* than the verification itself, unless the provider failed or was asked too
\* often (external-jwks-validator.service.ts:311-322).
THEOREM RejectionsAreFresh == Spec => RejectedOnFreshKeys
<1>1. JwksInv /\ TriedOnce /\ [Next]_vars =>
        [\A v \in Verifier :
            req[v].pc # "rejected" /\ req'[v].pc = "rejected"
                => req[v].keys.at >= req[v].since \/ req[v].excuse]_vars
  BY RejectedHadTried
<1> QED BY <1>1, InitTried, NextKeepsTried, JwksInvariant, PTL DEF Spec, RejectedOnFreshKeys

=============================================================================
