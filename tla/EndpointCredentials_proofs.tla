---------------------- MODULE EndpointCredentials_proofs ----------------------
(***************************************************************************)
(* Proofs about EndpointCredentials, for any number of requests and of     *)
(* credentials.                                                            *)
(***************************************************************************)
EXTENDS EndpointCredentials, TLAPS

-----------------------------------------------------------------------------
(* The plans                                                                *)

Changes == {"deactivate", "reactivate", "label", "metadata"}

LEMMA PlanDomain ==
    DOMAIN Plan = {"bearer", "oauth_client", "wif", "rotate", "revoke", "activate", "edit",
                   "put", "verify", "reveal", "once", "always", "authenticate", "mint"}
BY DEF Plan

\* What the order of the queries of each operation guarantees of the query q,
\* the i-th of the operation op, whose plan is p.
Ordered(op, p, i, q) ==
    /\ q \in Changes => i > 1 /\ p[1] = "find"
    /\ q = "find" => i = 1
    /\ q = "clients" => op = "oauth_client"
    /\ q = "visibility" => op # "wif"
    /\ q = "insert" => /\ op \in {"bearer", "oauth_client", "wif", "rotate"}
                       /\ op # "wif" => i > 1 /\ p[i - 1] = "visibility"
                       /\ op = "rotate" => p[1] = "find" /\ i = 3
                       /\ \A j \in 1..Len(p) : p[j] = "insert" => i = j
    /\ q = "deactivate" => op = "revoke" \/ (op = "rotate" /\ i = 4)
    /\ q = "reactivate" => op = "activate"
    /\ q = "metadata" => op \in {"put", "verify"} /\ i = 2
    /\ q = "setting" => /\ op \in {"once", "always"} /\ i = 1
                        /\ op = "once" => Len(p) = 2 /\ p[2] = "purge"
    /\ q = "purge" => op = "once" /\ i = 2
    /\ q = "active" => op \in {"authenticate", "mint"}

LEMMA PlanFacts ==
    ASSUME NEW op \in DOMAIN Plan, NEW i \in 1..Len(Plan[op])
    PROVE  /\ Len(Plan[op]) \in 1..4
           /\ Ordered(op, Plan[op], i, Plan[op][i])
<1>1. CASE op = "bearer"
  <2>1. Plan[op] = <<"visibility", "insert">>
    BY <1>1 DEF Plan
  <2> QED
    BY <1>1, <2>1 DEF Ordered, Changes
<1>2. CASE op = "oauth_client"
  <2>1. Plan[op] = <<"clients", "visibility", "insert">>
    BY <1>2 DEF Plan
  <2> QED
    BY <1>2, <2>1 DEF Ordered, Changes
<1>3. CASE op = "wif"
  <2>1. Plan[op] = <<"insert">>
    BY <1>3 DEF Plan
  <2> QED
    BY <1>3, <2>1 DEF Ordered, Changes
<1>4. CASE op = "rotate"
  <2>1. Plan[op] = <<"find", "visibility", "insert", "deactivate">>
    BY <1>4 DEF Plan
  <2> QED
    BY <1>4, <2>1 DEF Ordered, Changes
<1>5. CASE op = "revoke"
  <2>1. Plan[op] = <<"find", "deactivate">>
    BY <1>5 DEF Plan
  <2> QED
    BY <1>5, <2>1 DEF Ordered, Changes
<1>6. CASE op = "activate"
  <2>1. Plan[op] = <<"find", "reactivate">>
    BY <1>6 DEF Plan
  <2> QED
    BY <1>6, <2>1 DEF Ordered, Changes
<1>7. CASE op = "edit"
  <2>1. Plan[op] = <<"find", "label">>
    BY <1>7 DEF Plan
  <2> QED
    BY <1>7, <2>1 DEF Ordered, Changes
<1>8. CASE op = "put"
  <2>1. Plan[op] = <<"find", "metadata", "label">>
    BY <1>8 DEF Plan
  <2> QED
    BY <1>8, <2>1 DEF Ordered, Changes
<1>9. CASE op = "verify"
  <2>1. Plan[op] = <<"find", "metadata">>
    BY <1>9 DEF Plan
  <2> QED
    BY <1>9, <2>1 DEF Ordered, Changes
<1>10. CASE op = "reveal"
  <2>1. Plan[op] = <<"find", "visibility">>
    BY <1>10 DEF Plan
  <2> QED
    BY <1>10, <2>1 DEF Ordered, Changes
<1>11. CASE op = "once"
  <2>1. Plan[op] = <<"setting", "purge">>
    BY <1>11 DEF Plan
  <2> QED
    BY <1>11, <2>1 DEF Ordered, Changes
<1>12. CASE op = "always"
  <2>1. Plan[op] = <<"setting">>
    BY <1>12 DEF Plan
  <2> QED
    BY <1>12, <2>1 DEF Ordered, Changes
<1>13. CASE op = "authenticate"
  <2>1. Plan[op] = <<"active">>
    BY <1>13 DEF Plan
  <2> QED
    BY <1>13, <2>1 DEF Ordered, Changes
<1>14. CASE op = "mint"
  <2>1. Plan[op] = <<"active">>
    BY <1>14 DEF Plan
  <2> QED
    BY <1>14, <2>1 DEF Ordered, Changes
<1> QED
  BY PlanDomain, <1>1, <1>2, <1>3, <1>4, <1>5, <1>6, <1>7, <1>8, <1>9, <1>10, <1>11, <1>12, <1>13, <1>14

LEMMA PlanLengths ==
    ASSUME NEW op \in DOMAIN Plan
    PROVE  Len(Plan[op]) \in 1..4
BY PlanDomain DEF Plan

-----------------------------------------------------------------------------
(* The invariant                                                            *)

\* A credential is inserted once: what a request has made it does not make again.
InsertedOnce ==
    \A r \in Request : rows[r] # None /\ req[r].step # 0 =>
        \A i \in req[r].step..Len(Plan[req[r].op]) : Plan[req[r].op][i] # "insert"

\* What was found is still there, and suits the operation.
FoundStands ==
    \A r \in Request :
        /\ req[r].status = "open" /\ req[r].step > 1 /\ Plan[req[r].op][1] = "find"
        => /\ req[r].found # None /\ rows[req[r].on] # None
           /\ Suits(req[r].op, req[r].found.type)
           /\ rows[req[r].on].type = req[r].found.type

\* What a create will insert, and that a rotation inserts before it deactivates.
Prepared ==
    \A r \in Request :
        /\ req[r].op # "oauth_client" => req[r].client = None
        /\ req[r].op = "oauth_client" /\ req[r].status = "open" /\ req[r].step > 1 =>
              req[r].client # None
        /\ req[r].op = "wif" => ~req[r].keep
        /\ req[r].op = "rotate" /\ req[r].status = "open" /\ req[r].step = 4 => rows[r] # None
        /\ req[r].status = "new" => req[r].step = 1

\* A credential that was retired is not active, and a secret that was dead when
\* it was presented belongs to a retired one.
RetiredAreOff ==
    /\ \A c \in retired : ~rows[c].active
    /\ \A r \in Request : req[r].op \in {"authenticate", "mint"} /\ req[r].dead =>
          req[r].on \in retired

\* The trust a verification is about to write back is the one that stands, or the
\* verification is known to be stale.
FoundTrust ==
    \A r \in Request :
        At(r, "metadata") /\ req[r].op = "verify" /\ ~req[r].stale /\ req[r].on \notin lapsed =>
            req[r].found.trust = edited[req[r].on]

\* Under "once" nobody is about to insert a secret to be kept.
NobodyKeeps ==
    server = "once" /\ ~late /\ (\A r \in Request : ~At(r, "purge"))
        => \A r \in Request : At(r, "insert") => ~req[r].keep

CredInv ==
    /\ TypeOK /\ InsertedOnce /\ FoundStands /\ Prepared
    /\ RetiredAreOff /\ RevokedIsRefused
    /\ FoundTrust /\ TrustStands
    /\ NobodyKeeps /\ OnceKeepsNoSecret

-----------------------------------------------------------------------------
(* What a query does to the requests                                        *)

\* Request r has arrived, has ended or has gone on to its next query; of the
\* others only "stale" and "dead" may have changed.
Moved(r) ==
    /\ \A s \in Request : req'[s].op = req[s].op /\ req'[s].on = req[s].on
    /\ \A s \in Request \ {r} :
          /\ req'[s].status = req[s].status /\ req'[s].step = req[s].step
          /\ req'[s].found = req[s].found /\ req'[s].client = req[s].client
          /\ req'[s].keep = req[s].keep
    /\ \/ req[r].status = "new" /\ req'[r].status = "open" /\ req'[r].step = req[r].step
       \/ /\ req[r].status = "open" /\ req[r].step # 0
          /\ req'[r].status \notin {"new", "open"} /\ req'[r].step = 0
       \/ /\ req[r].status = "open" /\ req[r].step # 0
          /\ req'[r].status = "open" /\ req'[r].step = req[r].step + 1
          /\ req'[r].step <= Len(Plan[req[r].op])

LEMMA Updated ==
    ASSUME NEW p \in Asked, NEW status \in Status, NEW n \in 0..4
    PROVE  /\ [p EXCEPT !.step = n] \in Asked
           /\ [p EXCEPT !.step = n, !.status = status] \in Asked
           /\ [p EXCEPT !.status = status, !.step = n] \in Asked
BY DEF Asked

LEMMA Opened ==
    ASSUME NEW p \in Asked, NEW status \in Status, NEW v \in Visibility, NEW d \in BOOLEAN
    PROVE  [p EXCEPT !.status = status, !.vis = v, !.dead = d] \in Asked
BY DEF Asked

LEMMA Decided ==
    ASSUME NEW p \in Asked, NEW client \in ClientId \cup {None}, NEW keep \in BOOLEAN
    PROVE  [p EXCEPT !.client = client] \in Asked /\ [p EXCEPT !.keep = keep] \in Asked
BY DEF Asked

LEMMA LookedUp ==
    ASSUME NEW p \in Asked, NEW status \in Status, NEW e \in Excuse
    PROVE  [p EXCEPT !.step = 0, !.status = status, !.excuse = e] \in Asked
<1> DEFINE a == [p EXCEPT !.step = 0, !.status = status]
<1>1. a \in Asked
  <2>1. 0 \in 0..4
    OBVIOUS
  <2> QED
    BY <2>1, Updated
<1>2. [p EXCEPT !.step = 0, !.status = status, !.excuse = e] = [a EXCEPT !.excuse = e]
  BY DEF Asked
<1> HIDE DEF a
<1>3. [a EXCEPT !.excuse = e] \in Asked
  BY <1>1 DEF Asked
<1> QED
  BY <1>2, <1>3

LEMMA AtFacts ==
    ASSUME TypeOK, NEW r \in Request, NEW q, At(r, q)
    PROVE  /\ req[r] \in Asked /\ req[r].op \in DOMAIN Plan /\ req[r].status = "open"
           /\ req[r].step \in 1..Len(Plan[req[r].op]) /\ Len(Plan[req[r].op]) \in 1..4
           /\ Plan[req[r].op][req[r].step] = q
           /\ Ordered(req[r].op, Plan[req[r].op], req[r].step, q)
<1>1. req[r] \in Asked /\ req[r].step <= Len(Plan[req[r].op])
  BY DEF TypeOK
<1>2. req[r].op \in DOMAIN Plan /\ req[r].step \in 0..4
  BY <1>1 DEF Asked
<1>3. Len(Plan[req[r].op]) \in 1..4
  BY <1>2, PlanLengths
<1>4. req[r].step \in 1..Len(Plan[req[r].op])
  BY <1>1, <1>2, <1>3 DEF At
<1> QED
  BY <1>1, <1>2, <1>3, <1>4, PlanFacts DEF At

LEMMA Marked ==
    ASSUME NEW p \in Asked
    PROVE  [p EXCEPT !.stale = TRUE] \in Asked /\ [p EXCEPT !.dead = FALSE] \in Asked
BY DEF Asked

LEMMA AdvanceFacts ==
    ASSUME NEW p \in Asked, p.status = "open", p.step \in 1..Len(Plan[p.op]),
           Len(Plan[p.op]) \in 1..4
    PROVE  /\ Advance(p) \in Asked
           /\ Advance(p).op = p.op /\ Advance(p).on = p.on /\ Advance(p).found = p.found
           /\ Advance(p).client = p.client /\ Advance(p).keep = p.keep
           /\ Advance(p).stale = p.stale /\ Advance(p).dead = p.dead
           /\ \/ Advance(p).status = "ok" /\ Advance(p).step = 0
              \/ /\ Advance(p).status = "open" /\ Advance(p).step = p.step + 1
                 /\ p.step + 1 <= Len(Plan[p.op])
<1> DEFINE n == Len(Plan[p.op])
<1>1. "ok" \in Status /\ 0 \in 0..4
  BY DEF Status
<1>2. CASE p.step = n
  <2>1. Advance(p) = [p EXCEPT !.step = 0, !.status = "ok"]
    BY <1>2 DEF Advance
  <2>2. [p EXCEPT !.step = 0, !.status = "ok"] \in Asked
    BY <1>1, Updated
  <2> QED
    BY <2>1, <2>2 DEF Asked
<1>3. CASE p.step # n
  <2> HIDE DEF n
  <2>1. p.step + 1 \in 0..4 /\ p.step + 1 <= n
    <3>1. n \in 1..4 /\ p.step \in 1..n
      BY DEF n
    <3> QED
      BY <1>3, <3>1
  <2>2. Advance(p) = [p EXCEPT !.step = p.step + 1]
    BY <1>3 DEF Advance, n
  <2>3. [p EXCEPT !.step = p.step + 1] \in Asked
    BY <1>1, <2>1, Updated
  <2> QED
    BY <2>1, <2>2, <2>3 DEF Asked, n
<1> QED
  BY <1>2, <1>3

\* A request that goes on, with what its query has found or decided.
LEMMA GoesOn ==
    ASSUME TypeOK, NEW r \in Request, NEW q, At(r, q),
           NEW p \in Asked, p.op = req[r].op, p.on = req[r].on, p.step = req[r].step,
           p.status = "open", req' = [req EXCEPT ![r] = Advance(p)]
    PROVE  /\ req' \in [Request -> Asked] /\ Moved(r)
           /\ \A s \in Request \ {r} : req'[s] = req[s]
           /\ req'[r].found = p.found /\ req'[r].client = p.client /\ req'[r].keep = p.keep
           /\ req'[r].stale = p.stale /\ req'[r].dead = p.dead
           /\ req'[r].status \in {"open", "ok"}
<1>1. /\ req[r].status = "open" /\ p.step \in 1..Len(Plan[p.op])
      /\ Len(Plan[p.op]) \in 1..4 /\ req[r].step # 0
  BY AtFacts
<1>2. /\ Advance(p) \in Asked
      /\ Advance(p).op = p.op /\ Advance(p).on = p.on /\ Advance(p).found = p.found
      /\ Advance(p).client = p.client /\ Advance(p).keep = p.keep
      /\ Advance(p).stale = p.stale /\ Advance(p).dead = p.dead
      /\ \/ Advance(p).status = "ok" /\ Advance(p).step = 0
         \/ /\ Advance(p).status = "open" /\ Advance(p).step = p.step + 1
            /\ p.step + 1 <= Len(Plan[p.op])
  BY <1>1, AdvanceFacts
<1>3. req' \in [Request -> Asked] /\ req'[r] = Advance(p)
      /\ \A s \in Request \ {r} : req'[s] = req[s]
  BY <1>2 DEF TypeOK
<1>4. Moved(r)
  BY <1>1, <1>2, <1>3 DEF Moved
<1> QED
  BY <1>2, <1>3, <1>4

\* A request that ends.
LEMMA Stops ==
    ASSUME TypeOK, NEW r \in Request, NEW q, At(r, q),
           NEW status \in Status \ {"new", "open"}, Stop(r, status)
    PROVE  /\ req' \in [Request -> Asked] /\ Moved(r)
           /\ \A s \in Request \ {r} : req'[s] = req[s]
           /\ req'[r].found = req[r].found /\ req'[r].client = req[r].client
           /\ req'[r].keep = req[r].keep
           /\ req'[r].stale = req[r].stale /\ req'[r].dead = req[r].dead
           /\ req'[r].status = status /\ req'[r].step = 0
<1>1. req[r].status = "open" /\ req[r].step \in 1..4 /\ req[r] \in Asked
  BY AtFacts
<1> DEFINE p == [req[r] EXCEPT !.status = status, !.step = 0]
<1>2. req' = [req EXCEPT ![r] = p]
  BY <1>1 DEF Stop, TypeOK, Asked
<1>3. p \in Asked
  <2>1. status \in Status /\ 0 \in 0..4
    OBVIOUS
  <2>2. [req[r] EXCEPT !.status = status, !.step = 0] \in Asked
    BY <1>1, <2>1, Updated
  <2> QED
    BY <2>2
<1>4. /\ p.op = req[r].op /\ p.on = req[r].on /\ p.found = req[r].found
      /\ p.client = req[r].client /\ p.keep = req[r].keep
      /\ p.stale = req[r].stale /\ p.dead = req[r].dead
      /\ p.status = status /\ p.step = 0
  BY <1>1 DEF Asked
<1> HIDE DEF p
<1>5. req' \in [Request -> Asked] /\ req'[r] = p
      /\ \A s \in Request \ {r} : req'[s] = req[s]
  BY <1>2, <1>3 DEF TypeOK
<1>6. Moved(r)
  BY <1>1, <1>4, <1>5 DEF Moved
<1> QED
  BY <1>4, <1>5, <1>6

-----------------------------------------------------------------------------
(* What each part of the invariant survives                                 *)

\* The rows and what relates them to the history are left alone.
LEMMA InsertedFrame ==
    ASSUME TypeOK, InsertedOnce, req' \in [Request -> Asked], NEW r \in Request, Moved(r),
           \A s \in Request : rows'[s] # None => rows[s] # None
    PROVE  InsertedOnce'
<1> SUFFICES ASSUME NEW s \in Request, rows'[s] # None, req'[s].step # 0,
                    NEW i \in req'[s].step..Len(Plan[req'[s].op])
             PROVE  Plan[req'[s].op][i] # "insert"
  BY DEF InsertedOnce
<1>1. req'[s].op = req[s].op /\ req[s].op \in DOMAIN Plan
      /\ req[s].step \in 0..4 /\ req'[s].step \in 0..4
  BY DEF Moved, TypeOK, Asked
<1>2. req[s].step # 0 /\ (req'[s].step = req[s].step \/ req'[s].step = req[s].step + 1)
  BY <1>1 DEF Moved
<1>3. Len(Plan[req[s].op]) \in 1..4
  BY <1>1, PlanLengths
<1>4. i \in req[s].step..Len(Plan[req[s].op])
  <2> DEFINE n == Len(Plan[req[s].op])
  <2>1. n \in 1..4 /\ i \in req'[s].step..n
    BY <1>1, <1>3
  <2> HIDE DEF n
  <2>2. i \in req[s].step..n
    BY <1>1, <1>2, <2>1
  <2> QED
    BY <2>2 DEF n
<1> QED
  BY <1>1, <1>2, <1>4 DEF InsertedOnce

LEMMA FoundFrame ==
    ASSUME TypeOK, FoundStands, Prepared, req' \in [Request -> Asked],
           NEW r \in Request, Moved(r),
           \A c \in Cred : rows[c] # None => rows'[c] # None /\ rows'[c].type = rows[c].type,
           At(r, "find") => req'[r].status # "open",
           req'[r].found = req[r].found
    PROVE  FoundStands'
<1> SUFFICES ASSUME NEW s \in Request, req'[s].status = "open", req'[s].step > 1,
                    Plan[req'[s].op][1] = "find"
             PROVE  /\ req'[s].found # None /\ rows'[req'[s].on] # None
                    /\ Suits(req'[s].op, req'[s].found.type)
                    /\ rows'[req'[s].on].type = req'[s].found.type
  BY DEF FoundStands
<1>1. req'[s].op = req[s].op /\ req'[s].on = req[s].on /\ req'[s].found = req[s].found
      /\ req[s].on \in Cred /\ req[s].step \in 0..4 /\ req[s] \in Asked
  BY DEF Moved, TypeOK, Asked
<1>2. req[s].status = "open" /\ req[s].step > 1
  <2>1. CASE s # r
    BY <2>1 DEF Moved
  <2>2. CASE s = r
    <3>1. ~(req[r].status = "new")
      BY <1>1, <2>2 DEF Moved, Prepared
    <3>2. req[r].status = "open" /\ req[r].step # 0 /\ req'[r].step = req[r].step + 1
      BY <2>2, <3>1 DEF Moved
    <3>3. req[r].step # 1
      BY <1>1, <2>2, <3>2 DEF At
    <3> QED
      BY <1>1, <2>2, <3>2, <3>3
  <2> QED
    BY <2>1, <2>2
<1> QED
  BY <1>1, <1>2 DEF FoundStands

LEMMA PreparedFrame ==
    ASSUME TypeOK, Prepared, req' \in [Request -> Asked], NEW r \in Request, Moved(r),
           \A c \in Cred : rows[c] # None => rows'[c] # None,
           At(r, "insert") /\ req[r].op = "rotate" =>
              (req'[r].status = "open" => rows'[r] # None),
           req'[r].client = req[r].client \/ (req[r].op = "oauth_client" /\ req'[r].client # None),
           At(r, "clients") => req'[r].status # "open" \/ req'[r].client # None,
           req[r].op = "wif" => req'[r].keep = req[r].keep
    PROVE  Prepared'
<1> SUFFICES ASSUME NEW s \in Request
             PROVE  /\ req'[s].op # "oauth_client" => req'[s].client = None
                    /\ req'[s].op = "oauth_client" /\ req'[s].status = "open"
                         /\ req'[s].step > 1 => req'[s].client # None
                    /\ req'[s].op = "wif" => ~req'[s].keep
                    /\ req'[s].op = "rotate" /\ req'[s].status = "open" /\ req'[s].step = 4
                         => rows'[s] # None
                    /\ req'[s].status = "new" => req'[s].step = 1
  BY DEF Prepared
<1>1. req'[s].op = req[s].op /\ req[s].step \in 0..4 /\ s \in Cred /\ req[s].op \in DOMAIN Plan
  BY DEF Moved, TypeOK, Asked, Cred
<1>2. CASE s # r
  BY <1>1, <1>2 DEF Moved, Prepared
<1>3. CASE s = r
  <2>1. req'[s].op # "oauth_client" => req'[s].client = None
    BY <1>1, <1>3 DEF Prepared
  <2>2. ASSUME req'[s].op = "oauth_client", req'[s].status = "open", req'[s].step > 1
        PROVE  req'[s].client # None
    <3>1. req[r].status = "open" /\ req[r].step # 0 /\ req'[r].step = req[r].step + 1
      BY <1>1, <1>3, <2>2 DEF Moved, Prepared
    <3>2. CASE req[r].step = 1
      <4>1. At(r, "clients")
        BY <1>1, <1>3, <2>2, <3>1, <3>2 DEF At, Plan
      <4> QED
        BY <1>3, <2>2, <4>1
    <3>3. CASE req[r].step # 1
      BY <1>1, <1>3, <2>2, <3>1, <3>3 DEF Prepared
    <3> QED
      BY <3>2, <3>3
  <2>3. req'[s].op = "wif" => ~req'[s].keep
    BY <1>1, <1>3 DEF Prepared
  <2>4. ASSUME req'[s].op = "rotate", req'[s].status = "open", req'[s].step = 4
        PROVE  rows'[s] # None
    <3>1. req[r].status = "open" /\ req[r].step # 0 /\ req'[r].step = req[r].step + 1
      BY <1>1, <1>3, <2>4 DEF Moved, Prepared
    <3>2. At(r, "insert")
      <4>1. req[r].step = 3
        BY <1>1, <1>3, <2>4, <3>1
      <4> QED
        BY <1>1, <1>3, <2>4, <3>1, <4>1 DEF At, Plan
    <3> QED
      BY <1>1, <1>3, <2>4, <3>2
  <2>5. req'[s].status # "new"
    BY <1>3 DEF Moved
  <2> QED
    BY <2>1, <2>2, <2>3, <2>4, <2>5
<1> QED
  BY <1>2, <1>3

LEMMA RetiredFrame ==
    ASSUME TypeOK, RetiredAreOff, RevokedIsRefused, NEW r \in Request, Moved(r),
           retired' = retired, \A c \in retired : ~rows'[c].active,
           \A s \in Request : req'[s].dead => req[s].dead,
           req'[r].status # "accepted"
    PROVE  RetiredAreOff' /\ RevokedIsRefused'
<1>1. RetiredAreOff'
  BY DEF RetiredAreOff, Moved
<1>2. RevokedIsRefused'
  BY DEF RevokedIsRefused, Moved
<1> QED
  BY <1>1, <1>2

\* Only a lookup brings a request to its metadata query.
LEMMA NewMetadata ==
    ASSUME TypeOK, Prepared, NEW r \in Request, Moved(r), req' \in [Request -> Asked],
           NEW s \in Request, At(s, "metadata")'
    PROVE  \/ s # r /\ At(s, "metadata")
           \/ s = r /\ At(r, "find") /\ req'[r].status = "open"
<1>1. CASE s # r
  BY <1>1 DEF Moved, At
<1>2. CASE s = r
  <2>1. /\ req'[r].op = req[r].op /\ req[r].op \in DOMAIN Plan /\ req[r].step \in 0..4
        /\ req'[r].step \in 0..4
    BY DEF Moved, TypeOK, Asked
  <2>2. req'[r].status = "open" /\ req'[r].step # 0
        /\ Plan[req[r].op][req'[r].step] = "metadata"
    BY <1>2, <2>1 DEF At
  <2>3. \/ req[r].status = "new" /\ req'[r].step = 1
        \/ /\ req[r].status = "open" /\ req[r].step # 0
           /\ req'[r].step = req[r].step + 1
           /\ req'[r].step <= Len(Plan[req[r].op])
    BY <2>2 DEF Moved, Prepared
  <2>4. req'[r].step \in 1..Len(Plan[req[r].op])
    <3> DEFINE n == Len(Plan[req[r].op])
    <3>1. n \in 1..4
      BY <2>1, PlanLengths
    <3>2. \/ req'[r].step = 1
          \/ req'[r].step = req[r].step + 1 /\ req'[r].step <= n
      BY <2>3
    <3> HIDE DEF n
    <3>3. req'[r].step \in 1..n
      BY <2>1, <2>2, <3>1, <3>2
    <3> QED
      BY <3>3 DEF n
  <2>5. Ordered(req[r].op, Plan[req[r].op], req'[r].step, "metadata")
    BY <2>1, <2>2, <2>4, PlanFacts
  <2>6. req'[r].step = 2 /\ Plan[req[r].op][1] = "find"
    BY <2>5 DEF Ordered, Changes
  <2>7. req[r].status = "open" /\ req[r].step = 1
    BY <2>1, <2>3, <2>6
  <2> QED
    BY <1>2, <2>2, <2>6, <2>7 DEF At
<1> QED
  BY <1>1, <1>2

LEMMA TrustFrame ==
    ASSUME TypeOK, Prepared, FoundTrust, TrustStands, NEW r \in Request, Moved(r),
           req' \in [Request -> Asked], At(r, "find") => req'[r].status # "open",
           \A s \in Request : req'[s].stale = req[s].stale,
           edited' = edited, lapsed' = lapsed,
           \A c \in Cred : rows'[c] # None => rows[c] # None /\ rows'[c].trust = rows[c].trust
    PROVE  FoundTrust' /\ TrustStands'
<1>1. TrustStands'
  BY DEF TrustStands
<1>2. FoundTrust'
  <2> SUFFICES ASSUME NEW s \in Request, At(s, "metadata")', req'[s].op = "verify",
                      ~req'[s].stale, req'[s].on \notin lapsed'
               PROVE  req'[s].found.trust = edited'[req'[s].on]
    BY DEF FoundTrust
  <2>1. s # r /\ At(s, "metadata")
    BY NewMetadata
  <2>2. req'[s].found = req[s].found /\ req'[s].on = req[s].on /\ req'[s].op = req[s].op
    BY <2>1 DEF Moved
  <2> QED
    BY <2>1, <2>2 DEF FoundTrust
<1> QED
  BY <1>1, <1>2

\* A request comes to an insert by way of the question whether to keep the secret,
\* or it brings a trust, with nothing to keep.
LEMMA NewInsert ==
    ASSUME TypeOK, Prepared, NEW r \in Request, Moved(r), req' \in [Request -> Asked],
           NEW s \in Request, At(s, "insert")'
    PROVE  \/ s # r /\ At(s, "insert")
           \/ s = r /\ At(r, "visibility") /\ req'[r].status = "open"
           \/ s = r /\ req[r].status = "new" /\ req[r].op = "wif"
<1>1. CASE s # r
  BY <1>1 DEF Moved, At
<1>2. CASE s = r
  <2>1. /\ req'[r].op = req[r].op /\ req[r].op \in DOMAIN Plan /\ req[r].step \in 0..4
        /\ req'[r].step \in 0..4
    BY DEF Moved, TypeOK, Asked
  <2>2. req'[r].status = "open" /\ req'[r].step # 0
        /\ Plan[req[r].op][req'[r].step] = "insert"
    BY <1>2, <2>1 DEF At
  <2>3. \/ req[r].status = "new" /\ req'[r].step = 1
        \/ /\ req[r].status = "open" /\ req[r].step # 0
           /\ req'[r].step = req[r].step + 1
           /\ req'[r].step <= Len(Plan[req[r].op])
    BY <2>2 DEF Moved, Prepared
  <2>4. req'[r].step \in 1..Len(Plan[req[r].op])
    <3> DEFINE n == Len(Plan[req[r].op])
    <3>1. n \in 1..4
      BY <2>1, PlanLengths
    <3>2. \/ req'[r].step = 1
          \/ req'[r].step = req[r].step + 1 /\ req'[r].step <= n
      BY <2>3
    <3> HIDE DEF n
    <3>3. req'[r].step \in 1..n
      BY <2>1, <2>2, <3>1, <3>2
    <3> QED
      BY <3>3 DEF n
  <2>5. Ordered(req[r].op, Plan[req[r].op], req'[r].step, "insert")
    BY <2>1, <2>2, <2>4, PlanFacts
  <2>6. req[r].op # "wif" => req'[r].step > 1
                             /\ Plan[req[r].op][req'[r].step - 1] = "visibility"
    BY <2>5 DEF Ordered
  <2>7. CASE req[r].status = "new"
    BY <1>2, <2>1, <2>3, <2>6, <2>7
  <2>8. CASE req[r].status # "new"
    <3>1. req[r].status = "open" /\ req[r].step # 0 /\ req[r].step = req'[r].step - 1
      BY <2>1, <2>3, <2>8
    <3>2. req[r].op # "wif"
      <4>1. req[r].op = "wif" => Len(Plan[req[r].op]) = 1
        BY DEF Plan
      <4>2. req[r].op = "wif" => req'[r].step \in 1..1
        BY <2>4, <4>1
      <4> QED
        BY <2>1, <3>1, <4>2
    <3> QED
      BY <1>2, <2>2, <2>6, <3>1, <3>2 DEF At
  <2> QED
    BY <2>7, <2>8
<1> QED
  BY <1>1, <1>2

LEMMA KeepFrame ==
    ASSUME TypeOK, Prepared, NobodyKeeps, OnceKeepsNoSecret, NEW r \in Request, Moved(r),
           req' \in [Request -> Asked], server' = server, late' = late, ~At(r, "purge"),
           At(r, "visibility") /\ req'[r].status = "open" /\ req'[r].keep => server # "once",
           req[r].op = "wif" => req'[r].keep = req[r].keep,
           \A c \in Cred : rows'[c] # None /\ rows'[c].kept =>
               \/ rows[c] # None /\ rows[c].kept
               \/ At(r, "insert") /\ req[r].keep
    PROVE  NobodyKeeps' /\ OnceKeepsNoSecret'
<1>1. (\A s \in Request : ~At(s, "purge")') => \A s \in Request : ~At(s, "purge")
  BY DEF Moved, At
<1>2. NobodyKeeps'
  <2> SUFFICES ASSUME server = "once", ~late, \A s \in Request : ~At(s, "purge"),
                      NEW s \in Request, At(s, "insert")'
               PROVE  ~req'[s].keep
    BY <1>1 DEF NobodyKeeps
  <2>1. CASE s # r /\ At(s, "insert")
    BY <2>1 DEF NobodyKeeps, Moved
  <2>2. CASE s = r /\ At(r, "visibility") /\ req'[r].status = "open"
    BY <2>2
  <2>3. CASE s = r /\ req[r].status = "new" /\ req[r].op = "wif"
    BY <2>3 DEF Prepared
  <2> QED
    BY <2>1, <2>2, <2>3, NewInsert
<1>3. OnceKeepsNoSecret'
  <2> SUFFICES ASSUME server = "once", ~late, \A s \in Request : ~At(s, "purge"),
                      NEW c \in Cred, rows'[c] # None
               PROVE  ~rows'[c].kept
    BY <1>1 DEF OnceKeepsNoSecret
  <2> QED
    BY DEF NobodyKeeps, OnceKeepsNoSecret
<1> QED
  BY <1>2, <1>3

\* The part of the type invariant that is about the requests.
LEMMA RequestsFrame ==
    ASSUME TypeOK, NEW r \in Request, Moved(r), req' \in [Request -> Asked],
           req'[r].found # None => WellFormed(req'[r].found)
    PROVE  \A s \in Request : /\ req'[s].step <= Len(Plan[req'[s].op])
                              /\ req'[s].found # None => WellFormed(req'[s].found)
<1> TAKE s \in Request
<1>1. CASE s # r
  BY <1>1 DEF TypeOK, Moved
<1>2. CASE s = r
  <2> DEFINE n == Len(Plan[req[r].op])
  <2>1. n \in 1..4 /\ req[r].step <= n
    BY PlanLengths DEF TypeOK, Asked
  <2>2. \/ req'[r].step = req[r].step
        \/ req'[r].step = 0
        \/ req'[r].step <= n
    BY DEF Moved
  <2> HIDE DEF n
  <2>3. req'[r].step <= n
    BY <2>1, <2>2
  <2> QED
    BY <1>2, <2>3 DEF n, Moved
<1> QED
  BY <1>1, <1>2

LEMMA EndsFacts ==
    ASSUME TypeOK, NEW o, Ends(o)
    PROVE  failures' \in 0..MaxFailures
BY CredentialAssumption DEF TypeOK, Ends

-----------------------------------------------------------------------------
(* Every query preserves the invariant                                      *)

THEOREM InitHolds == Init => CredInv
<1> SUFFICES ASSUME Init
             PROVE  CredInv
  OBVIOUS
<1>1. PICK first \in FirstRows :
        /\ rows = [c \in Cred |-> IF c \in First THEN first[c] ELSE None]
        /\ retired = {c \in First : first[c] # None /\ ~first[c].active}
        /\ edited = [c \in Cred |-> IF c \in First /\ first[c] # None
                                    THEN first[c].trust ELSE None]
        /\ issued = {c \in First : first[c] # None /\ first[c].type # "wif"}
        /\ rotated = {c \in First : (\E d \in First : SameId(first, c, d)) /\ ~first[c].active}
  BY DEF Init
<1>2. first \in [First -> Row \cup {None}] /\ First \subseteq Cred
      /\ \A c \in First : first[c] # None => WellFormed(first[c])
  BY CredentialAssumption DEF Cred
<1>3. \A r \in Request : \E op \in DOMAIN Plan, c \in Cred : req[r] = Ask(op, c)
  BY DEF Init
<1>4. \A op \in DOMAIN Plan, c \in Cred : Ask(op, c) \in Asked
  <2>1. "new" \in Status /\ 1 \in 0..4 /\ "always" \in Visibility /\ "none" \in Excuse
    BY DEF Status, Visibility, Excuse
  <2> QED
    BY <2>1 DEF Ask, Asked
<1>5. \A r \in Request : /\ req[r] \in Asked /\ req[r].status = "new" /\ req[r].step = 1
                         /\ req[r].found = None /\ req[r].client = None /\ ~req[r].keep
                         /\ ~req[r].dead
  <2> TAKE r \in Request
  <2>1. PICK op \in DOMAIN Plan, c \in Cred : req[r] = Ask(op, c)
    BY <1>3
  <2> QED
    BY <1>4, <2>1 DEF Ask
<1>6. \A c \in Cred : rows[c] # None => c \in First /\ rows[c] = first[c] /\ rows[c] \in Row
                                        /\ edited[c] = rows[c].trust
  BY <1>1, <1>2
<1>7. TypeOK
  <2>1. rows \in [Cred -> Row \cup {None}]
    BY <1>1, <1>2
  <2>2. \A c \in Cred : rows[c] # None => WellFormed(rows[c])
    BY <1>2, <1>6
  <2>3. req \in [Request -> Asked]
    BY <1>4 DEF Init
  <2>4. \A r \in Request : /\ req[r].step <= Len(Plan[req[r].op])
                           /\ req[r].found # None => WellFormed(req[r].found)
    <3> TAKE r \in Request
    <3> DEFINE n == Len(Plan[req[r].op])
    <3>1. n \in 1..4 /\ req[r].step = 1
      BY <1>5, PlanLengths DEF Asked
    <3> HIDE DEF n
    <3>2. req[r].step <= n
      BY <3>1
    <3> QED
      BY <1>5, <3>2 DEF n
  <2>5. issued \cup retired \cup rotated \cup lapsed \subseteq {c \in Cred : rows[c] # None}
    <3>1. rotated \subseteq {c \in First : first[c] # None}
      BY <1>1 DEF SameId
    <3>2. lapsed = {}
      BY DEF Init
    <3> QED
      BY <1>1, <1>2, <3>1, <3>2
  <2>6. edited \in [Cred -> Cred \cup {None}]
    BY <1>1, <1>2 DEF Row
  <2>7. server \in Visibility /\ setting \in Visibility /\ late = FALSE /\ lapsed = {}
        /\ branched \subseteq ClientId \cup {None}
    BY DEF Init
  <2>8. failures \in 0..MaxFailures
    BY CredentialAssumption DEF Init
  <2> QED
    BY <2>1, <2>2, <2>3, <2>4, <2>5, <2>6, <2>7, <2>8 DEF TypeOK
<1>8. InsertedOnce
  <2>1. \A r \in Request : r \in Cred /\ r \notin First
    BY CredentialAssumption DEF Cred
  <2> QED
    BY <1>6, <2>1 DEF InsertedOnce
<1>9. FoundStands /\ Prepared /\ RevokedIsRefused
  BY <1>5 DEF FoundStands, Prepared, RevokedIsRefused
<1>10. RetiredAreOff
  BY <1>1, <1>2, <1>5 DEF RetiredAreOff
<1>11. FoundTrust /\ NobodyKeeps
  BY <1>5 DEF FoundTrust, NobodyKeeps, At
<1>12. TrustStands
  BY <1>6 DEF TrustStands
<1>13. OnceKeepsNoSecret
  <2>1. server = "once" => \A c \in First : rows[c] # None => ~rows[c].kept
    BY DEF Init
  <2> QED
    BY <1>6, <2>1 DEF OnceKeepsNoSecret
<1> QED
  BY <1>7, <1>8, <1>9, <1>10, <1>11, <1>12, <1>13 DEF CredInv

LEMMA ArriveStep ==
    ASSUME CredInv, NEW r \in Request, Arrive(r)
    PROVE  CredInv'
<1> DEFINE p == [req[r] EXCEPT !.status = "open", !.vis = setting, !.dead = req[r].on \in retired]
<1>1. TypeOK /\ req[r] \in Asked /\ req[r].status = "new" /\ req[r].on \in Cred
      /\ req[r].step = 1
  BY DEF CredInv, TypeOK, Asked, Arrive, Prepared
<1>2. p \in Asked
  <2>1. "open" \in Status /\ setting \in Visibility /\ (req[r].on \in retired) \in BOOLEAN
    BY <1>1 DEF TypeOK, Status
  <2> QED
    BY <1>1, <2>1, Opened
<1>3. /\ p.op = req[r].op /\ p.on = req[r].on /\ p.step = 1 /\ p.found = req[r].found
      /\ p.client = req[r].client /\ p.keep = req[r].keep /\ p.stale = req[r].stale
      /\ p.status = "open" /\ p.dead = (req[r].on \in retired)
  BY <1>1 DEF Asked
<1>4. req' = [req EXCEPT ![r] = p]
  BY DEF Arrive
<1> HIDE DEF p
<1>5. req' \in [Request -> Asked] /\ req'[r] = p /\ \A s \in Request \ {r} : req'[s] = req[s]
  BY <1>1, <1>2, <1>4 DEF TypeOK
<1>6. Moved(r)
  BY <1>1, <1>3, <1>5 DEF Moved
<1>7. \A q : ~At(r, q)
  BY <1>1 DEF At
<1>8. TypeOK'
  <2>1. \A s \in Request : /\ req'[s].step <= Len(Plan[req'[s].op])
                           /\ req'[s].found # None => WellFormed(req'[s].found)
    BY <1>1, <1>3, <1>5, <1>6, RequestsFrame DEF TypeOK
  <2> QED
    BY <1>1, <1>5, <2>1 DEF TypeOK, Arrive, history
<1>9. InsertedOnce' /\ FoundStands' /\ Prepared'
  BY <1>1, <1>3, <1>5, <1>6, <1>7, InsertedFrame, FoundFrame, PreparedFrame DEF CredInv, Arrive
<1>10. RetiredAreOff' /\ RevokedIsRefused'
  BY <1>1, <1>3, <1>5 DEF CredInv, RetiredAreOff, RevokedIsRefused, Arrive, history
<1>11. FoundTrust' /\ TrustStands'
  BY <1>1, <1>3, <1>5, <1>6, <1>7, TrustFrame DEF CredInv, Arrive, history
<1>12. NobodyKeeps' /\ OnceKeepsNoSecret'
  BY <1>1, <1>3, <1>5, <1>6, <1>7, KeepFrame DEF CredInv, Arrive, history
<1> QED
  BY <1>8, <1>9, <1>10, <1>11, <1>12 DEF CredInv

\* A query that only reads.
LEMMA Reads ==
    ASSUME CredInv, NEW r \in Request, Moved(r), req' \in [Request -> Asked],
           UNCHANGED <<rows, server, setting, history>>, failures' \in 0..MaxFailures,
           ~At(r, "purge"), ~At(r, "insert"),
           \A s \in Request \ {r} : req'[s] = req[s],
           req'[r].stale = req[r].stale, req'[r].dead = req[r].dead,
           req'[r].found # None => WellFormed(req'[r].found),
           req'[r].client = req[r].client \/ (req[r].op = "oauth_client" /\ req'[r].client # None),
           At(r, "clients") => req'[r].status # "open" \/ req'[r].client # None,
           req[r].op = "wif" => req'[r].keep = req[r].keep,
           At(r, "visibility") /\ req'[r].status = "open" /\ req'[r].keep => server # "once"
    PROVE  /\ TypeOK' /\ InsertedOnce' /\ Prepared' /\ RetiredAreOff' /\ TrustStands'
           /\ NobodyKeeps' /\ OnceKeepsNoSecret'
           /\ req'[r].status # "accepted" => RevokedIsRefused'
           /\ req'[r].found = req[r].found /\ ~At(r, "find") => FoundStands' /\ FoundTrust'
           /\ req'[r].found = req[r].found /\ req'[r].status # "open" => FoundStands' /\ FoundTrust'
<1>1. TypeOK /\ Prepared /\ rows' = rows /\ retired' = retired /\ edited' = edited
      /\ lapsed' = lapsed /\ server' = server /\ late' = late
      /\ \A s \in Request : req'[s].stale = req[s].stale /\ req'[s].dead = req[s].dead
  BY DEF CredInv, history
<1>2. TypeOK'
  <2>1. \A s \in Request : /\ req'[s].step <= Len(Plan[req'[s].op])
                           /\ req'[s].found # None => WellFormed(req'[s].found)
    BY <1>1, RequestsFrame
  <2> QED
    BY <1>1, <2>1 DEF TypeOK, history
<1>3. InsertedOnce'
  BY <1>1, InsertedFrame DEF CredInv
<1>4. Prepared'
  BY <1>1, PreparedFrame DEF CredInv
<1>5. RetiredAreOff' /\ (req'[r].status # "accepted" => RevokedIsRefused')
  BY <1>1 DEF CredInv, RetiredAreOff, RevokedIsRefused, Moved
<1>6. TrustStands'
  BY <1>1 DEF CredInv, TrustStands
<1>7. NobodyKeeps' /\ OnceKeepsNoSecret'
  BY <1>1, KeepFrame DEF CredInv
<1>8. req'[r].found = req[r].found /\ ~At(r, "find") => FoundStands' /\ FoundTrust'
  BY <1>1, FoundFrame, TrustFrame DEF CredInv
<1>9. req'[r].found = req[r].found /\ req'[r].status # "open" => FoundStands' /\ FoundTrust'
  BY <1>1, FoundFrame, TrustFrame DEF CredInv
<1> QED
  BY <1>2, <1>3, <1>4, <1>5, <1>6, <1>7, <1>8, <1>9

LEMMA FindStep ==
    ASSUME CredInv, NEW r \in Request, Find(r)
    PROVE  CredInv'
<1> DEFINE c == req[r].on
           p == [req[r] EXCEPT !.found = rows[c]]
<1>1. TypeOK /\ At(r, "find") /\ req[r] \in Asked /\ c \in Cred /\ req[r].status = "open"
      /\ req[r].op \in DOMAIN Plan /\ req[r].step = 1
  BY AtFacts DEF CredInv, Find, Asked, Ordered
<1>2. ~At(r, "purge") /\ ~At(r, "insert") /\ ~At(r, "clients") /\ ~At(r, "visibility")
  BY <1>1 DEF At
<1>3. PICK o \in Outcome :
        /\ Ends(o)
        /\ IF o = "answered" /\ rows[c] # None /\ Suits(req[r].op, rows[c].type)
           THEN req' = [req EXCEPT ![r] = Advance(p)]
           ELSE Stop(r, IF req[r].op = "verify" THEN "ok" ELSE "refused")
  BY <1>1 DEF Find, TypeOK
<1>4. failures' \in 0..MaxFailures /\ UNCHANGED <<rows, server, setting, history>>
  BY <1>1, <1>3, EndsFacts DEF Find
<1>5. CASE o = "answered" /\ rows[c] # None /\ Suits(req[r].op, rows[c].type)
  <2>1. rows[c] \in Row /\ WellFormed(rows[c])
    BY <1>1, <1>5 DEF TypeOK
  <2>2. /\ p \in Asked /\ p.op = req[r].op /\ p.on = c /\ p.step = req[r].step
        /\ p.status = "open" /\ p.found = rows[c] /\ p.client = req[r].client
        /\ p.keep = req[r].keep /\ p.stale = req[r].stale /\ p.dead = req[r].dead
    BY <1>1, <2>1 DEF Asked
  <2>3. req' = [req EXCEPT ![r] = Advance(p)]
    BY <1>3, <1>5
  <2> HIDE DEF p
  <2>4. /\ req' \in [Request -> Asked] /\ Moved(r)
        /\ \A s \in Request \ {r} : req'[s] = req[s]
        /\ req'[r].found = rows[c] /\ req'[r].client = req[r].client
        /\ req'[r].keep = req[r].keep /\ req'[r].stale = req[r].stale
        /\ req'[r].dead = req[r].dead /\ req'[r].status \in {"open", "ok"}
    <3>1. TypeOK /\ At(r, "find") /\ p \in Asked /\ p.op = req[r].op /\ p.on = req[r].on
          /\ p.step = req[r].step /\ p.status = "open"
      BY <1>1, <2>2
    <3> QED
      BY <2>2, <2>3, <3>1, GoesOn
  <2>5. /\ TypeOK' /\ InsertedOnce' /\ Prepared' /\ RetiredAreOff' /\ TrustStands'
        /\ NobodyKeeps' /\ OnceKeepsNoSecret' /\ RevokedIsRefused'
    BY <1>2, <1>4, <2>1, <2>4, Reads
  <2>6. rows' = rows /\ edited' = edited /\ lapsed' = lapsed
    BY <1>4 DEF history
  <2>7. FoundStands'
    BY <1>1, <1>5, <2>4, <2>6 DEF FoundStands, Moved, CredInv
  <2>8. FoundTrust'
    <3> SUFFICES ASSUME NEW s \in Request, At(s, "metadata")', req'[s].op = "verify",
                        ~req'[s].stale, req'[s].on \notin lapsed'
                 PROVE  req'[s].found.trust = edited'[req'[s].on]
      BY DEF FoundTrust
    <3>1. CASE s # r
      <4>1. At(s, "metadata")
        BY <2>4, <3>1 DEF At
      <4> QED
        BY <2>4, <2>6, <3>1, <4>1 DEF CredInv, FoundTrust
    <3>2. CASE s = r
      <4>1. req'[r].on = c /\ req'[r].found = rows[c]
        BY <2>4 DEF Moved
      <4> QED
        BY <1>1, <1>5, <2>6, <3>2, <4>1 DEF CredInv, TrustStands
    <3> QED
      BY <3>1, <3>2
  <2> QED
    BY <2>5, <2>7, <2>8 DEF CredInv
<1>6. CASE ~(o = "answered" /\ rows[c] # None /\ Suits(req[r].op, rows[c].type))
  <2> DEFINE end == IF req[r].op = "verify" THEN "ok" ELSE "refused"
  <2>1. end \in Status \ {"new", "open"} /\ end # "accepted" /\ Stop(r, end)
    BY <1>3, <1>6 DEF Status
  <2> HIDE DEF end
  <2>2. /\ req' \in [Request -> Asked] /\ Moved(r)
        /\ \A s \in Request \ {r} : req'[s] = req[s]
        /\ req'[r].found = req[r].found /\ req'[r].client = req[r].client
        /\ req'[r].keep = req[r].keep /\ req'[r].stale = req[r].stale
        /\ req'[r].dead = req[r].dead /\ req'[r].status = end
    BY <1>1, <2>1, Stops
  <2>3. req'[r].found # None => WellFormed(req'[r].found)
    BY <1>1, <2>2 DEF TypeOK
  <2> QED
    BY <1>2, <1>4, <2>1, <2>2, <2>3, Reads DEF CredInv
<1> QED
  BY <1>5, <1>6

LEMMA ListClientsStep ==
    ASSUME CredInv, NEW r \in Request, ListClients(r)
    PROVE  CredInv'
<1>1. TypeOK /\ At(r, "clients") /\ req[r] \in Asked /\ req[r].status = "open"
      /\ req[r].op \in DOMAIN Plan /\ req[r].on \in Cred /\ req[r].op = "oauth_client"
  BY AtFacts DEF CredInv, ListClients, Asked, Ordered
<1>2. ~At(r, "purge") /\ ~At(r, "insert") /\ ~At(r, "find") /\ ~At(r, "visibility")
  BY <1>1 DEF At
<1> DEFINE other == \E c \in Cred : rows[c] # None /\ rows[c].type = "oauth_client"
           client == IF other THEN r ELSE DefaultId
           p == [req[r] EXCEPT !.client = client]
<1>3. PICK o \in Outcome : /\ Ends(o)
                          /\ IF o = "answered" THEN req' = [req EXCEPT ![r] = Advance(p)]
                             ELSE Stop(r, "error")
  BY <1>1 DEF ListClients, TypeOK
<1>4. failures' \in 0..MaxFailures /\ UNCHANGED <<rows, server, setting, history>>
  BY <1>1, <1>3, EndsFacts DEF ListClients
<1>5. CASE o = "answered"
  <2>1. client \in ClientId /\ client # None
    BY CredentialAssumption DEF ClientId, Cred
  <2> HIDE DEF client
  <2>2. /\ p \in Asked /\ p.op = req[r].op /\ p.on = req[r].on /\ p.step = req[r].step
        /\ p.status = "open" /\ p.found = req[r].found /\ p.client = client
        /\ p.keep = req[r].keep /\ p.stale = req[r].stale /\ p.dead = req[r].dead
    <3>1. p \in Asked
      BY <1>1, <2>1, Decided
    <3> QED
      BY <1>1, <3>1 DEF Asked
  <2>3. req' = [req EXCEPT ![r] = Advance(p)]
    BY <1>3, <1>5
  <2> HIDE DEF p
  <2>4. /\ req' \in [Request -> Asked] /\ Moved(r)
        /\ \A s \in Request \ {r} : req'[s] = req[s]
        /\ req'[r].found = req[r].found /\ req'[r].client = client
        /\ req'[r].keep = req[r].keep /\ req'[r].stale = req[r].stale
        /\ req'[r].dead = req[r].dead /\ req'[r].status \in {"open", "ok"}
    <3>1. TypeOK /\ At(r, "clients")
      BY <1>1
    <3> QED
      BY <2>2, <2>3, <3>1, GoesOn
  <2>5. req'[r].found # None => WellFormed(req'[r].found)
    BY <1>1, <2>4 DEF TypeOK
  <2> QED
    BY <1>1, <1>2, <1>4, <2>1, <2>4, <2>5, Reads DEF CredInv
<1>6. CASE o # "answered"
  <2>1. "error" \in Status \ {"new", "open"} /\ "error" # "accepted" /\ Stop(r, "error")
    BY <1>3, <1>6 DEF Status
  <2>2. /\ req' \in [Request -> Asked] /\ Moved(r)
        /\ \A s \in Request \ {r} : req'[s] = req[s]
        /\ req'[r].found = req[r].found /\ req'[r].client = req[r].client
        /\ req'[r].keep = req[r].keep /\ req'[r].stale = req[r].stale
        /\ req'[r].dead = req[r].dead /\ req'[r].status = "error"
    BY <1>1, <2>1, Stops
  <2>3. req'[r].found # None => WellFormed(req'[r].found)
    BY <1>1, <2>2 DEF TypeOK
  <2> QED
    BY <1>1, <1>2, <1>4, <2>1, <2>2, <2>3, Reads DEF CredInv
<1> QED
  BY <1>5, <1>6

LEMMA RetainStep ==
    ASSUME CredInv, NEW r \in Request, Retain(r)
    PROVE  CredInv'
<1>1. TypeOK /\ At(r, "visibility") /\ req[r] \in Asked /\ req[r].status = "open"
      /\ req[r].op \in DOMAIN Plan /\ req[r].on \in Cred /\ req[r].op # "wif"
  BY AtFacts DEF CredInv, Retain, Asked, Ordered
<1>2. ~At(r, "purge") /\ ~At(r, "insert") /\ ~At(r, "find") /\ ~At(r, "clients")
  BY <1>1 DEF At
<1> DEFINE keep(o) == o = "answered" /\ Effective(r) = "always"
<1>3. PICK o \in Outcome : /\ Ends(o)
                          /\ req' = [req EXCEPT ![r] = Advance([req[r] EXCEPT !.keep = keep(o)])]
  BY <1>1 DEF Retain, TypeOK
<1>4. failures' \in 0..MaxFailures /\ UNCHANGED <<rows, server, setting, history>>
  BY <1>1, <1>3, EndsFacts DEF Retain
<1>5. keep(o) \in BOOLEAN /\ (keep(o) => server # "once")
  BY DEF Effective
<1> DEFINE k == keep(o)
           p == [req[r] EXCEPT !.keep = k]
<1>6. k \in BOOLEAN /\ (k => server # "once") /\ req' = [req EXCEPT ![r] = Advance(p)]
  BY <1>3, <1>5
<1> HIDE DEF k
<1>7. /\ p \in Asked /\ p.op = req[r].op /\ p.on = req[r].on /\ p.step = req[r].step
      /\ p.status = "open" /\ p.found = req[r].found /\ p.client = req[r].client
      /\ p.keep = k /\ p.stale = req[r].stale /\ p.dead = req[r].dead
  <2>1. p \in Asked
    BY <1>1, <1>6, Decided
  <2> QED
    BY <1>1, <2>1 DEF Asked
<1> HIDE DEF p
<1>8. /\ req' \in [Request -> Asked] /\ Moved(r)
      /\ \A s \in Request \ {r} : req'[s] = req[s]
      /\ req'[r].found = req[r].found /\ req'[r].client = req[r].client
      /\ req'[r].keep = k /\ req'[r].stale = req[r].stale
      /\ req'[r].dead = req[r].dead /\ req'[r].status \in {"open", "ok"}
  <2>1. TypeOK /\ At(r, "visibility")
    BY <1>1
  <2> QED
    BY <1>6, <1>7, <2>1, GoesOn
<1>9. req'[r].found # None => WellFormed(req'[r].found)
  BY <1>1, <1>8 DEF TypeOK
<1> QED
  BY <1>1, <1>2, <1>4, <1>6, <1>8, <1>9, Reads DEF CredInv

LEMMA RevealStep ==
    ASSUME CredInv, NEW r \in Request, Reveal(r)
    PROVE  CredInv'
<1>1. TypeOK /\ At(r, "visibility") /\ req[r] \in Asked /\ req[r].status = "open"
      /\ req[r].op \in DOMAIN Plan /\ req[r].on \in Cred
  BY AtFacts DEF CredInv, Reveal, Asked, Ordered
<1>2. ~At(r, "purge") /\ ~At(r, "insert") /\ ~At(r, "find") /\ ~At(r, "clients")
  BY <1>1 DEF At
<1>3. PICK o \in Outcome, status \in {"error", "shown", "hidden"} : Ends(o) /\ Stop(r, status)
  BY DEF Reveal
<1>4. failures' \in 0..MaxFailures /\ UNCHANGED <<rows, server, setting, history>>
  BY <1>1, <1>3, EndsFacts DEF Reveal
<1>5. CredInv'
  <2>1. status \in Status \ {"new", "open"} /\ status # "accepted" /\ Stop(r, status)
    BY <1>3 DEF Status
  <2>2. /\ req' \in [Request -> Asked] /\ Moved(r)
        /\ \A s \in Request \ {r} : req'[s] = req[s]
        /\ req'[r].found = req[r].found /\ req'[r].client = req[r].client
        /\ req'[r].keep = req[r].keep /\ req'[r].stale = req[r].stale
        /\ req'[r].dead = req[r].dead /\ req'[r].status = status
    BY <1>1, <2>1, Stops
  <2>3. req'[r].found # None => WellFormed(req'[r].found)
    BY <1>1, <2>2 DEF TypeOK
  <2> QED
    BY <1>1, <1>2, <1>4, <2>1, <2>2, <2>3, Reads DEF CredInv
<1> QED
  BY <1>5

\* A request that goes on with nothing learnt, or ends without having been let in.
LEMMA Ended ==
    ASSUME TypeOK, NEW r \in Request, NEW q, At(r, q),
           GoOn(r) \/ Stop(r, "refused") \/ Stop(r, "error")
    PROVE  /\ req' \in [Request -> Asked] /\ Moved(r)
           /\ \A s \in Request \ {r} : req'[s] = req[s]
           /\ req'[r].found = req[r].found /\ req'[r].client = req[r].client
           /\ req'[r].keep = req[r].keep
           /\ \A s \in Request : req'[s].stale = req[s].stale /\ req'[s].dead = req[s].dead
           /\ req'[r].status # "accepted"
           /\ req'[r].found # None => WellFormed(req'[r].found)
           /\ \A s \in Request : /\ req'[s].step <= Len(Plan[req'[s].op])
                                 /\ req'[s].found # None => WellFormed(req'[s].found)
<1>1. req[r] \in Asked /\ req[r].status = "open" /\ (req[r].found # None => WellFormed(req[r].found))
  BY AtFacts DEF TypeOK
<1>2. /\ req' \in [Request -> Asked] /\ Moved(r)
      /\ \A s \in Request \ {r} : req'[s] = req[s]
      /\ req'[r].found = req[r].found /\ req'[r].client = req[r].client
      /\ req'[r].keep = req[r].keep
      /\ req'[r].stale = req[r].stale /\ req'[r].dead = req[r].dead
      /\ req'[r].status # "accepted"
  <2>1. CASE GoOn(r)
    <3>1. req' = [req EXCEPT ![r] = Advance(req[r])]
      BY <2>1 DEF GoOn
    <3> QED
      BY <1>1, <3>1, GoesOn
  <2>2. CASE Stop(r, "refused")
    <3>1. "refused" \in Status \ {"new", "open"}
      BY DEF Status
    <3> QED
      BY <2>2, <3>1, Stops
  <2>3. CASE Stop(r, "error")
    <3>1. "error" \in Status \ {"new", "open"}
      BY DEF Status
    <3> QED
      BY <2>3, <3>1, Stops
  <2> QED
    BY <2>1, <2>2, <2>3
<1>3. \A s \in Request : req'[s].stale = req[s].stale /\ req'[s].dead = req[s].dead
  BY <1>2
<1> QED
  BY <1>1, <1>2, <1>3, RequestsFrame

\* One row is written.
LEMMA Written ==
    ASSUME TypeOK, NEW c \in Cred, NEW row \in Row, WellFormed(row),
           rows' = [rows EXCEPT ![c] = row]
    PROVE  /\ rows' \in [Cred -> Row \cup {None}]
           /\ \A d \in Cred : rows'[d] # None => WellFormed(rows'[d])
           /\ rows'[c] = row /\ row # None /\ \A d \in Cred : d # c => rows'[d] = rows[d]
BY CredentialAssumption DEF TypeOK

LEMMA RowUpdated ==
    ASSUME NEW row \in Row, WellFormed(row), NEW l \in Cred, NEW b \in BOOLEAN
    PROVE  /\ [row EXCEPT !.label = l] \in Row /\ WellFormed([row EXCEPT !.label = l])
           /\ [row EXCEPT !.active = b] \in Row /\ WellFormed([row EXCEPT !.active = b])
           /\ [row EXCEPT !.kept = FALSE] \in Row /\ WellFormed([row EXCEPT !.kept = FALSE])
           /\ row.type = "wif" => /\ [row EXCEPT !.trust = l] \in Row
                                  /\ WellFormed([row EXCEPT !.trust = l])
<1>1. [row EXCEPT !.label = l] \in Row /\ WellFormed([row EXCEPT !.label = l])
  BY DEF Row, WellFormed
<1>2. [row EXCEPT !.active = b] \in Row /\ WellFormed([row EXCEPT !.active = b])
  BY DEF Row, WellFormed
<1>3. [row EXCEPT !.kept = FALSE] \in Row /\ WellFormed([row EXCEPT !.kept = FALSE])
  BY DEF Row, WellFormed
<1>4. row.type = "wif" => /\ [row EXCEPT !.trust = l] \in Row
                          /\ WellFormed([row EXCEPT !.trust = l])
  BY CredentialAssumption DEF Row, WellFormed
<1> QED
  BY <1>1, <1>2, <1>3, <1>4

\* What a request that has found its credential can rely on.
LEMMA HasFound ==
    ASSUME CredInv, NEW r \in Request, NEW q \in Changes, At(r, q)
    PROVE  /\ req[r].on \in Cred /\ rows[req[r].on] \in Row /\ WellFormed(rows[req[r].on])
           /\ rows[req[r].on] # None
           /\ req[r].found \in Row /\ WellFormed(req[r].found)
           /\ Suits(req[r].op, req[r].found.type)
           /\ rows[req[r].on].type = req[r].found.type
<1>1. TypeOK /\ FoundStands /\ req[r] \in Asked /\ req[r].status = "open" /\ req[r].step > 1
      /\ Plan[req[r].op][1] = "find"
  BY AtFacts DEF CredInv, Ordered
<1>2. req[r].found # None /\ rows[req[r].on] # None /\ Suits(req[r].op, req[r].found.type)
      /\ rows[req[r].on].type = req[r].found.type
  BY <1>1 DEF FoundStands
<1> QED
  BY <1>1, <1>2 DEF TypeOK, Asked

LEMMA WriteLabelStep ==
    ASSUME CredInv, NEW r \in Request, WriteLabel(r)
    PROVE  CredInv'
<1> DEFINE c == req[r].on
           new == [rows[c] EXCEPT !.label = r]
<1>1. TypeOK /\ At(r, "label") /\ c \in Cred /\ rows[c] \in Row /\ WellFormed(rows[c])
      /\ rows[c] # None /\ r \in Cred
  BY HasFound DEF CredInv, WriteLabel, Changes, Cred
<1>2. ~At(r, "purge") /\ ~At(r, "insert") /\ ~At(r, "clients") /\ ~At(r, "visibility")
      /\ ~At(r, "find")
  BY <1>1 DEF At
<1>3. PICK o \in Outcome :
        /\ Ends(o)
        /\ rows' = IF o = "failed" THEN rows ELSE [rows EXCEPT ![c] = new]
        /\ GoOn(r) \/ Stop(r, "refused")
  BY <1>1 DEF WriteLabel
<1>4. failures' \in 0..MaxFailures /\ UNCHANGED <<server, setting, history>>
  BY <1>1, <1>3, EndsFacts DEF WriteLabel
<1>5. /\ new \in Row /\ WellFormed(new) /\ new.active = rows[c].active
      /\ new.type = rows[c].type /\ new.trust = rows[c].trust /\ new.kept = rows[c].kept
  BY <1>1, RowUpdated DEF Row
<1> HIDE DEF new
<1>6. /\ rows' \in [Cred -> Row \cup {None}]
      /\ \A d \in Cred : rows'[d] # None => WellFormed(rows'[d])
      /\ \A d \in Cred : /\ rows'[d] # None <=> rows[d] # None
                         /\ rows'[d].active = rows[d].active
                         /\ rows'[d].type = rows[d].type
                         /\ rows'[d].trust = rows[d].trust /\ rows'[d].kept = rows[d].kept
  <2>1. CASE o = "failed"
    BY <1>1, <1>3, <2>1 DEF TypeOK
  <2>2. CASE o # "failed"
    BY <1>1, <1>3, <1>5, <2>2, Written
  <2> QED
    BY <2>1, <2>2
<1>7. /\ req' \in [Request -> Asked] /\ Moved(r)
      /\ req'[r].found = req[r].found /\ req'[r].client = req[r].client
      /\ req'[r].keep = req[r].keep
      /\ \A s \in Request : req'[s].stale = req[s].stale /\ req'[s].dead = req[s].dead
      /\ req'[r].status # "accepted"
      /\ \A s \in Request : /\ req'[s].step <= Len(Plan[req'[s].op])
                            /\ req'[s].found # None => WellFormed(req'[s].found)
  BY <1>1, <1>3, Ended
<1>8. TypeOK'
  BY <1>1, <1>4, <1>6, <1>7 DEF TypeOK, history
<1>9. InsertedOnce' /\ FoundStands' /\ Prepared'
  <2>1. r \in Cred /\ \A s \in Request : s \in Cred
    BY DEF Cred
  <2> QED
    BY <1>1, <1>2, <1>6, <1>7, <2>1, InsertedFrame, FoundFrame, PreparedFrame DEF CredInv
<1>10. RetiredAreOff' /\ RevokedIsRefused'
  <2>1. retired' = retired /\ \A d \in retired : ~rows'[d].active
    BY <1>1, <1>4, <1>6 DEF CredInv, RetiredAreOff, TypeOK, history
  <2> QED
    BY <1>1, <1>7, <2>1, RetiredFrame DEF CredInv
<1>11. FoundTrust' /\ TrustStands'
  <2>1. edited' = edited /\ lapsed' = lapsed
    BY <1>4 DEF history
  <2> QED
    BY <1>1, <1>2, <1>6, <1>7, <2>1, TrustFrame DEF CredInv
<1>12. NobodyKeeps' /\ OnceKeepsNoSecret'
  <2>1. server' = server /\ late' = late
    BY <1>4 DEF history
  <2> QED
    BY <1>1, <1>2, <1>6, <1>7, <2>1, KeepFrame DEF CredInv
<1> QED
  BY <1>8, <1>9, <1>10, <1>11, <1>12 DEF CredInv

LEMMA DeactivateStep ==
    ASSUME CredInv, NEW r \in Request, Deactivate(r)
    PROVE  CredInv'
<1> DEFINE c == req[r].on
           new == [rows[c] EXCEPT !.active = FALSE]
<1>1. TypeOK /\ At(r, "deactivate") /\ c \in Cred /\ rows[c] \in Row /\ WellFormed(rows[c])
      /\ rows[c] # None /\ r \in Cred /\ req[r].found \in Row
  BY HasFound DEF CredInv, Deactivate, Changes, Cred
<1>2. ~At(r, "purge") /\ ~At(r, "insert") /\ ~At(r, "clients") /\ ~At(r, "visibility")
      /\ ~At(r, "find")
  BY <1>1 DEF At
<1>3. PICK o \in Outcome :
        /\ Ends(o)
        /\ rows' = IF o = "failed" THEN rows ELSE [rows EXCEPT ![c] = new]
        /\ retired' = IF o = "failed" THEN retired ELSE retired \cup {c}
        /\ branched' = IF o = "failed" /\ req[r].op = "rotate"
                       THEN branched \cup {req[r].found.client} ELSE branched
  BY <1>1 DEF Deactivate
<1>4. /\ failures' \in 0..MaxFailures /\ GoOn(r)
      /\ issued' = IF req[r].op = "rotate" THEN issued \cup {r} ELSE issued
      /\ server' = server /\ setting' = setting /\ rotated' = rotated /\ late' = late
      /\ edited' = edited /\ lapsed' = lapsed
  BY <1>1, <1>3, EndsFacts DEF Deactivate
<1>5. /\ new \in Row /\ WellFormed(new) /\ ~new.active
      /\ new.type = rows[c].type /\ new.trust = rows[c].trust /\ new.kept = rows[c].kept
  BY <1>1, RowUpdated DEF Row
<1> HIDE DEF new
<1>6. /\ rows' \in [Cred -> Row \cup {None}]
      /\ \A d \in Cred : rows'[d] # None => WellFormed(rows'[d])
      /\ \A d \in Cred : /\ rows'[d] # None <=> rows[d] # None
                         /\ rows'[d].type = rows[d].type
                         /\ rows'[d].trust = rows[d].trust /\ rows'[d].kept = rows[d].kept
      /\ \A d \in Cred : ~rows[d].active => ~rows'[d].active
      /\ o # "failed" => ~rows'[c].active
  <2>1. CASE o = "failed"
    BY <1>1, <1>3, <2>1 DEF TypeOK
  <2>2. CASE o # "failed"
    BY <1>1, <1>3, <1>5, <2>2, Written
  <2> QED
    BY <2>1, <2>2
<1>7. /\ req' \in [Request -> Asked] /\ Moved(r)
      /\ req'[r].found = req[r].found /\ req'[r].client = req[r].client
      /\ req'[r].keep = req[r].keep
      /\ \A s \in Request : req'[s].stale = req[s].stale /\ req'[s].dead = req[s].dead
      /\ req'[r].status # "accepted"
      /\ \A s \in Request : /\ req'[s].step <= Len(Plan[req'[s].op])
                            /\ req'[s].found # None => WellFormed(req'[s].found)
  BY <1>1, <1>4, Ended
<1>8. TypeOK'
  <2>1. req[r].op = "rotate" => rows[r] # None
    <3>1. req[r].op = "revoke" \/ (req[r].op = "rotate" /\ req[r].step = 4)
      BY <1>1, AtFacts DEF Ordered
    <3> QED
      BY <1>1, <3>1 DEF CredInv, Prepared, At
  <2>2. issued' \cup retired' \cup rotated' \cup lapsed' \subseteq {d \in Cred : rows'[d] # None}
    BY <1>1, <1>3, <1>4, <1>6, <2>1 DEF TypeOK
  <2>3. branched' \subseteq ClientId \cup {None}
    BY <1>1, <1>3 DEF TypeOK, Row
  <2> QED
    BY <1>1, <1>4, <1>6, <1>7, <2>2, <2>3 DEF TypeOK
<1>9. InsertedOnce' /\ FoundStands' /\ Prepared'
  <2>1. r \in Cred /\ \A s \in Request : s \in Cred
    BY DEF Cred
  <2> QED
    BY <1>1, <1>2, <1>6, <1>7, <2>1, InsertedFrame, FoundFrame, PreparedFrame DEF CredInv
<1>10. RetiredAreOff' /\ RevokedIsRefused'
  <2>1. \A d \in retired' : ~rows'[d].active
    BY <1>1, <1>3, <1>6 DEF CredInv, RetiredAreOff, TypeOK
  <2>2. RetiredAreOff'
    BY <1>3, <1>7, <2>1 DEF CredInv, RetiredAreOff, Moved
  <2>3. RevokedIsRefused'
    BY <1>7 DEF CredInv, RevokedIsRefused, Moved
  <2> QED
    BY <2>2, <2>3
<1>11. FoundTrust' /\ TrustStands'
  BY <1>1, <1>2, <1>4, <1>6, <1>7, TrustFrame DEF CredInv
<1>12. NobodyKeeps' /\ OnceKeepsNoSecret'
  BY <1>1, <1>2, <1>4, <1>6, <1>7, KeepFrame DEF CredInv
<1> QED
  BY <1>8, <1>9, <1>10, <1>11, <1>12 DEF CredInv

LEMMA SetServerStep ==
    ASSUME CredInv, NEW r \in Request, SetServer(r)
    PROVE  CredInv'
<1>1. TypeOK /\ At(r, "setting") /\ req[r].op \in {"once", "always"} /\ req[r].step = 1
      /\ (req[r].op = "once" => /\ Len(Plan[req[r].op]) = 2
                                /\ Plan[req[r].op][2] = "purge")
  BY AtFacts DEF CredInv, SetServer, Ordered
<1>2. ~At(r, "purge") /\ ~At(r, "insert") /\ ~At(r, "clients") /\ ~At(r, "visibility")
      /\ ~At(r, "find")
  BY <1>1 DEF At
<1>3. PICK o \in Outcome :
        /\ Ends(o)
        /\ server' = IF o = "failed" THEN server ELSE req[r].op
        /\ late' = (late \/ (o = "lost" /\ req[r].op = "once"))
        /\ IF o = "answered" THEN GoOn(r) ELSE Stop(r, "error")
  BY DEF SetServer
<1>4. /\ failures' \in 0..MaxFailures /\ rows' = rows /\ setting' = setting
      /\ issued' = issued /\ retired' = retired /\ rotated' = rotated /\ branched' = branched
      /\ edited' = edited /\ lapsed' = lapsed
  BY <1>1, <1>3, EndsFacts DEF SetServer
<1>5. /\ req' \in [Request -> Asked] /\ Moved(r)
      /\ req'[r].found = req[r].found /\ req'[r].client = req[r].client
      /\ req'[r].keep = req[r].keep
      /\ \A s \in Request : req'[s].stale = req[s].stale /\ req'[s].dead = req[s].dead
      /\ req'[r].status # "accepted"
      /\ \A s \in Request : /\ req'[s].step <= Len(Plan[req'[s].op])
                            /\ req'[s].found # None => WellFormed(req'[s].found)
  BY <1>1, <1>3, Ended
<1>6. TypeOK'
  <2>1. server' \in Visibility /\ late' \in BOOLEAN
    BY <1>1, <1>3 DEF TypeOK, Visibility
  <2> QED
    BY <1>1, <1>4, <1>5, <2>1 DEF TypeOK
<1>7. InsertedOnce' /\ FoundStands' /\ Prepared'
  BY <1>1, <1>2, <1>4, <1>5, InsertedFrame, FoundFrame, PreparedFrame DEF CredInv
<1>8. RetiredAreOff' /\ RevokedIsRefused'
  BY <1>1, <1>4, <1>5, RetiredFrame DEF CredInv, RetiredAreOff
<1>9. FoundTrust' /\ TrustStands'
  BY <1>1, <1>2, <1>4, <1>5, TrustFrame DEF CredInv
<1>10. NobodyKeeps' /\ OnceKeepsNoSecret'
  <2>1. CASE o = "failed"
    <3>1. server' = server /\ late' = late
      BY <1>1, <1>3, <2>1 DEF TypeOK
    <3> QED
      BY <1>1, <1>2, <1>4, <1>5, <3>1, KeepFrame DEF CredInv
  <2>2. CASE o # "failed" /\ req[r].op = "always"
    BY <1>3, <2>2 DEF NobodyKeeps, OnceKeepsNoSecret
  <2>3. CASE o = "lost" /\ req[r].op = "once"
    BY <1>3, <2>3 DEF NobodyKeeps, OnceKeepsNoSecret
  <2>4. CASE o = "answered" /\ req[r].op = "once"
    <3>1. Advance(req[r]) = [req[r] EXCEPT !.step = @ + 1]
      BY <1>1, <2>4 DEF Advance
    <3>2. req'[r] = [req[r] EXCEPT !.step = 2] /\ req[r] \in Asked
      BY <1>1, <1>3, <2>4, <3>1 DEF GoOn, TypeOK
    <3>3. At(r, "purge")'
      BY <1>1, <2>4, <3>2 DEF At, Asked
    <3> QED
      BY <3>3 DEF NobodyKeeps, OnceKeepsNoSecret
  <2> QED
    BY <1>1, <2>1, <2>2, <2>3, <2>4 DEF Outcome
<1> QED
  BY <1>6, <1>7, <1>8, <1>9, <1>10 DEF CredInv

LEMMA PurgeStep ==
    ASSUME CredInv, NEW r \in Request, Purge(r)
    PROVE  CredInv'
<1>1. TypeOK /\ At(r, "purge")
  BY DEF CredInv, Purge
<1>2. ~At(r, "insert") /\ ~At(r, "clients") /\ ~At(r, "visibility") /\ ~At(r, "find")
      /\ req[r].status # "new"
  BY <1>1 DEF At
<1>3. PICK o \in Outcome :
        /\ Ends(o)
        /\ rows' = IF o = "failed" THEN rows ELSE Purged
        /\ late' = IF o = "failed" THEN TRUE
                   ELSE \E s \in Request : At(s, "insert") /\ req[s].keep
        /\ GoOn(r) \/ Stop(r, "error")
  BY DEF Purge
<1>4. /\ failures' \in 0..MaxFailures /\ server' = server /\ setting' = setting
      /\ issued' = issued /\ retired' = retired /\ rotated' = rotated /\ branched' = branched
      /\ edited' = edited /\ lapsed' = lapsed
  BY <1>1, <1>3, EndsFacts DEF Purge
<1>5. /\ req' \in [Request -> Asked] /\ Moved(r)
      /\ req'[r].found = req[r].found /\ req'[r].client = req[r].client
      /\ req'[r].keep = req[r].keep
      /\ \A s \in Request : req'[s].stale = req[s].stale /\ req'[s].dead = req[s].dead
      /\ req'[r].status # "accepted"
      /\ \A s \in Request : /\ req'[s].step <= Len(Plan[req'[s].op])
                            /\ req'[s].found # None => WellFormed(req'[s].found)
  BY <1>1, <1>3, Ended
<1>6. /\ rows' \in [Cred -> Row \cup {None}]
      /\ \A d \in Cred : rows'[d] # None => WellFormed(rows'[d])
      /\ \A d \in Cred : /\ rows'[d] # None <=> rows[d] # None
                         /\ rows'[d].type = rows[d].type
                         /\ rows'[d].trust = rows[d].trust /\ rows'[d].active = rows[d].active
      /\ o # "failed" => \A d \in Cred : rows'[d] # None => ~rows'[d].kept
  <2>1. CASE o = "failed"
    BY <1>1, <1>3, <2>1 DEF TypeOK
  <2>2. CASE o # "failed"
    <3>1. \A d \in Cred : rows'[d] = IF rows[d] = None THEN None ELSE [rows[d] EXCEPT !.kept = FALSE]
      BY <1>3, <2>2 DEF Purged
    <3>2. ASSUME NEW d \in Cred, rows[d] # None
          PROVE  /\ rows'[d] \in Row /\ WellFormed(rows'[d]) /\ rows'[d] # None
                 /\ rows'[d].type = rows[d].type
                         /\ rows'[d].trust = rows[d].trust /\ rows'[d].active = rows[d].active
                 /\ ~rows'[d].kept
      <4>1. rows[d] \in Row /\ WellFormed(rows[d]) /\ rows'[d] = [rows[d] EXCEPT !.kept = FALSE]
            /\ d \in Cred
        BY <1>1, <3>1, <3>2 DEF TypeOK
      <4>2. rows'[d] \in Row /\ WellFormed(rows'[d])
        BY <4>1, RowUpdated
      <4> QED
        BY <4>1, <4>2, CredentialAssumption DEF Row
    <3>3. rows' = [d \in Cred |-> rows'[d]]
      BY <1>3, <2>2 DEF Purged
    <3>4. \A d \in Cred : rows[d] = None => rows'[d] = None
      BY <3>1
    <3>5. \A d \in Cred : /\ rows'[d] # None <=> rows[d] # None
                         /\ rows'[d].type = rows[d].type
                         /\ rows'[d].trust = rows[d].trust /\ rows'[d].active = rows[d].active
      BY <3>2, <3>4
    <3>6. rows' \in [Cred -> Row \cup {None}]
      BY <3>2, <3>3, <3>4
    <3> QED
      BY <3>2, <3>4, <3>5, <3>6
  <2> QED
    BY <2>1, <2>2
<1>7. TypeOK'
  <2>1. late' \in BOOLEAN
    BY <1>3
  <2> QED
    BY <1>1, <1>4, <1>5, <1>6, <2>1 DEF TypeOK
<1>8. InsertedOnce' /\ FoundStands' /\ Prepared'
  <2>1. \A s \in Request : s \in Cred
    BY DEF Cred
  <2> QED
    BY <1>1, <1>2, <1>5, <1>6, <2>1, InsertedFrame, FoundFrame, PreparedFrame DEF CredInv
<1>9. RetiredAreOff' /\ RevokedIsRefused'
  <2>1. retired' = retired /\ \A d \in retired : ~rows'[d].active
    BY <1>1, <1>4, <1>6 DEF CredInv, RetiredAreOff, TypeOK
  <2> QED
    BY <1>1, <1>5, <2>1, RetiredFrame DEF CredInv
<1>10. FoundTrust' /\ TrustStands'
  BY <1>1, <1>2, <1>4, <1>5, <1>6, TrustFrame DEF CredInv
<1>11. NobodyKeeps' /\ OnceKeepsNoSecret'
  <2>1. CASE o = "failed"
    BY <1>3, <2>1 DEF NobodyKeeps, OnceKeepsNoSecret
  <2>2. CASE o # "failed"
    <3>1. OnceKeepsNoSecret'
      BY <1>6, <2>2 DEF OnceKeepsNoSecret
    <3>2. ASSUME ~late', NEW s \in Request, At(s, "insert")'
          PROVE  ~req'[s].keep
      <4>1. s # r /\ At(s, "insert")
        BY <1>1, <1>2, <1>5, <3>2, NewInsert DEF CredInv
      <4>2. ~req[s].keep /\ req'[s].keep = req[s].keep
        BY <1>3, <1>5, <2>2, <3>2, <4>1 DEF Moved
      <4> QED
        BY <4>2
    <3> QED
      BY <3>1, <3>2 DEF NobodyKeeps
  <2> QED
    BY <2>1, <2>2
<1> QED
  BY <1>7, <1>8, <1>9, <1>10, <1>11 DEF CredInv

LEMMA LookUpStep ==
    ASSUME CredInv, NEW r \in Request, LookUp(r)
    PROVE  CredInv'
<1> DEFINE c == req[r].on
           usable == {d \in Cred : rows[d] # None /\ rows[d].active}
           same == {d \in usable : rows[d].type = "oauth_client" /\ rows[d].client = rows[c].client}
           matches == IF req[r].op = "mint"
                      THEN {d = c : d \in same} \cup (IF same = {} THEN {FALSE} ELSE {})
                      ELSE {c \in usable}
           status(o, match) == CASE o = "answered" /\ match -> "accepted"
                                 [] o # "answered" /\ req[r].op = "mint" -> "error"
                                 [] OTHER -> "rejected"
           excuse(o) == CASE Leaving(c) -> "revoked"
                          [] ~Leaving(c) /\ o # "answered" -> "failed"
                          [] ~Leaving(c) /\ o = "answered" /\ req[r].op = "mint"
                               /\ rows[c].client \in branched -> "branched"
                          [] OTHER -> "none"
<1>1. TypeOK /\ At(r, "active") /\ req[r] \in Asked /\ req[r].status = "open" /\ c \in Cred
      /\ req[r].op \in {"authenticate", "mint"}
  BY AtFacts DEF CredInv, LookUp, Asked, Ordered
<1>2. ~At(r, "purge") /\ ~At(r, "insert") /\ ~At(r, "clients") /\ ~At(r, "visibility")
      /\ ~At(r, "find")
  BY <1>1 DEF At
<1>3. PICK o \in Outcome, match \in matches :
        /\ Ends(o)
        /\ req' = [req EXCEPT ![r].step = 0, ![r].status = status(o, match), ![r].excuse = excuse(o)]
  BY DEF LookUp
<1>4. failures' \in 0..MaxFailures /\ UNCHANGED <<rows, server, setting, history>>
  BY <1>1, <1>3, EndsFacts DEF LookUp
<1>5. match => c \in usable
  BY <1>1
<1> DEFINE st == status(o, match)
           ex == excuse(o)
           p == [req[r] EXCEPT !.step = 0, !.status = st, !.excuse = ex]
<1>6. st \in {"error", "accepted", "rejected"} /\ (st = "accepted" => match)
  OBVIOUS
<1>7. ex \in Excuse
  BY DEF Excuse
<1> HIDE DEF st, ex, matches
<1>8. /\ p \in Asked /\ p.op = req[r].op /\ p.on = req[r].on /\ p.step = 0 /\ p.status = st
      /\ p.found = req[r].found /\ p.client = req[r].client /\ p.keep = req[r].keep
      /\ p.stale = req[r].stale /\ p.dead = req[r].dead
  <2>1. st \in Status
    BY <1>6 DEF Status
  <2>2. p \in Asked
    BY <1>1, <1>7, <2>1, LookedUp
  <2> QED
    BY <1>1, <2>2 DEF Asked
<1>9. req' = [req EXCEPT ![r] = p]
  BY <1>3 DEF st, ex
<1> HIDE DEF p
<1>10. req' \in [Request -> Asked] /\ req'[r] = p /\ \A s \in Request \ {r} : req'[s] = req[s]
  BY <1>1, <1>8, <1>9 DEF TypeOK
<1>11. Moved(r)
  BY <1>1, <1>6, <1>8, <1>10 DEF Moved, At
<1>12. req'[r].found # None => WellFormed(req'[r].found)
  BY <1>1, <1>8, <1>10 DEF TypeOK
<1>13. /\ TypeOK' /\ InsertedOnce' /\ Prepared' /\ RetiredAreOff' /\ TrustStands'
       /\ NobodyKeeps' /\ OnceKeepsNoSecret'
       /\ st # "accepted" => RevokedIsRefused'
       /\ FoundStands' /\ FoundTrust'
  BY <1>1, <1>2, <1>4, <1>8, <1>10, <1>11, <1>12, Reads
<1>14. st = "accepted" => RevokedIsRefused'
  <2>1. st = "accepted" => c \notin retired
    BY <1>1, <1>5, <1>6 DEF CredInv, RetiredAreOff
  <2>2. st = "accepted" => ~req[r].dead
    BY <1>1, <2>1 DEF CredInv, RetiredAreOff
  <2> QED
    BY <1>8, <1>10, <2>2 DEF CredInv, RevokedIsRefused
<1> QED
  BY <1>13, <1>14 DEF CredInv

LEMMA NewRowFacts ==
    ASSUME CredInv, NEW r \in Request, At(r, "insert")
    PROVE  /\ NewRow(r) \in Row /\ WellFormed(NewRow(r))
           /\ NewRow(r).kept => req[r].keep
           /\ rows[r] = None
           /\ req[r].op = "rotate" => rows[req[r].on] # None
<1>1. TypeOK /\ req[r] \in Asked /\ req[r].status = "open"
      /\ req[r].op \in {"bearer", "oauth_client", "wif", "rotate"}
      /\ req[r].step \in 1..Len(Plan[req[r].op])
      /\ (req[r].op # "wif" => req[r].step > 1)
      /\ (req[r].op = "rotate" => Plan[req[r].op][1] = "find")
      /\ Plan[req[r].op][req[r].step] = "insert" /\ req[r].step # 0
  BY AtFacts DEF CredInv, Ordered, At
<1>2. rows[r] = None
  <2>1. req[r].step \in req[r].step..Len(Plan[req[r].op])
    BY <1>1
  <2> QED
    BY <1>1, <2>1 DEF CredInv, InsertedOnce
<1>3. CASE req[r].op = "rotate"
  <2>1. /\ req[r].found # None /\ rows[req[r].on] # None /\ req[r].found.type # "wif"
    BY <1>1, <1>3 DEF CredInv, FoundStands, Suits
  <2>2. req[r].found \in Row /\ WellFormed(req[r].found) /\ req[r].keep \in BOOLEAN
    BY <1>1, <2>1 DEF TypeOK, Asked
  <2>3. NewRow(r) = [req[r].found EXCEPT !.active = TRUE, !.kept = req[r].keep]
    BY <1>3 DEF NewRow
  <2>4. NewRow(r) \in Row
    BY <2>2, <2>3 DEF Row
  <2>5. WellFormed(NewRow(r)) /\ NewRow(r).kept = req[r].keep
    BY <2>1, <2>2, <2>3 DEF WellFormed, Row
  <2> QED
    BY <1>2, <2>1, <2>4, <2>5
<1>4. CASE req[r].op # "rotate"
  <2> DEFINE q == req[r]
             row == [type |-> q.op, active |-> TRUE, client |-> q.client,
                     trust |-> IF q.op = "wif" THEN r ELSE None, label |-> r, kept |-> q.keep]
  <2>1. NewRow(r) = row
    BY <1>4 DEF NewRow
  <2>2. /\ q.op \in Type /\ q.client \in ClientId \cup {None} /\ q.keep \in BOOLEAN
        /\ r \in Cred /\ r # None
    BY <1>1, <1>4, CredentialAssumption DEF Type, Asked, Cred
  <2>3. q.op = "oauth_client" <=> q.client # None
    BY <1>1 DEF CredInv, Prepared
  <2>4. q.op = "wif" => ~q.keep
    BY DEF CredInv, Prepared
  <2>5. row \in Row
    <3>1. (IF q.op = "wif" THEN r ELSE None) \in Cred \cup {None}
      BY <2>2
    <3> QED
      BY <2>2, <3>1 DEF Row
  <2>6. WellFormed(row)
    BY <2>2, <2>3, <2>4 DEF WellFormed
  <2> QED
    BY <1>2, <1>4, <2>1, <2>5, <2>6
<1> QED
  BY <1>3, <1>4

LEMMA InsertStep ==
    ASSUME CredInv, NEW r \in Request, Insert(r)
    PROVE  CredInv'
<1> DEFINE new == NewRow(r)
<1>1. TypeOK /\ At(r, "insert") /\ new \in Row /\ WellFormed(new) /\ r \in Cred
      /\ (new.kept => req[r].keep) /\ rows[r] = None
      /\ (req[r].op = "rotate" => rows[req[r].on] # None) /\ req[r].on \in Cred
  BY NewRowFacts, AtFacts DEF CredInv, Insert, Cred, Asked
<1>2. ~At(r, "purge") /\ ~At(r, "clients") /\ ~At(r, "visibility") /\ ~At(r, "find")
      /\ req[r].status # "new"
  BY <1>1 DEF At
<1>3. PICK o \in Outcome, twice \in BOOLEAN :
        /\ Ends(o)
        /\ IF o = "answered" THEN GoOn(r) ELSE Stop(r, "error")
        /\ rows' = IF o = "failed" THEN rows ELSE [rows EXCEPT ![r] = new]
        /\ issued' = IF o = "answered" /\ req[r].op \in {"bearer", "oauth_client"}
                     THEN issued \cup {r} ELSE issued
        /\ rotated' = IF o # "failed" /\ req[r].op = "rotate"
                      THEN rotated \cup {req[r].on} ELSE rotated
        /\ branched' = IF o # "failed" /\ (twice \/ (req[r].op = "rotate" /\ o = "lost"))
                       THEN branched \cup {new.client} ELSE branched
        /\ edited' = IF o # "failed" THEN [edited EXCEPT ![r] = new.trust] ELSE edited
  <2> DEFINE t == IF req[r].op = "rotate"
                  THEN req[r].on \in rotated \/ Unfinished(req[r].on)
                  ELSE SharesId(r)
  <2>1. t \in BOOLEAN
    <3>1. SharesId(r) \in BOOLEAN
      BY Zenon DEF SharesId
    <3>2. (req[r].on \in rotated \/ Unfinished(req[r].on)) \in BOOLEAN
      BY Zenon
    <3> QED
      BY <3>1, <3>2
  <2> QED
    BY <2>1 DEF Insert
<1>4. /\ failures' \in 0..MaxFailures /\ server' = server /\ setting' = setting
      /\ retired' = retired /\ late' = late /\ lapsed' = lapsed
  BY <1>1, <1>3, EndsFacts DEF Insert
<1> HIDE DEF new
<1>5. /\ rows' \in [Cred -> Row \cup {None}]
      /\ \A d \in Cred : rows'[d] # None => WellFormed(rows'[d])
      /\ \A d \in Cred : d # r => rows'[d] = rows[d]
      /\ IF o = "failed" THEN rows'[r] = None ELSE rows'[r] = new /\ new # None
  <2>1. CASE o = "failed"
    BY <1>1, <1>3, <2>1 DEF TypeOK
  <2>2. CASE o # "failed"
    BY <1>1, <1>3, <2>2, Written
  <2> QED
    BY <2>1, <2>2
<1>6. /\ req' \in [Request -> Asked] /\ Moved(r)
      /\ req'[r].found = req[r].found /\ req'[r].client = req[r].client
      /\ req'[r].keep = req[r].keep
      /\ \A s \in Request : req'[s].stale = req[s].stale /\ req'[s].dead = req[s].dead
      /\ req'[r].status # "accepted"
      /\ \A s \in Request : /\ req'[s].step <= Len(Plan[req'[s].op])
                            /\ req'[s].found # None => WellFormed(req'[s].found)
  BY <1>1, <1>3, Ended
<1>7. TypeOK'
  <2>1. issued' \subseteq {d \in Cred : rows'[d] # None}
    BY <1>1, <1>3, <1>5 DEF TypeOK
  <2>2. rotated' \subseteq {d \in Cred : rows'[d] # None}
    BY <1>1, <1>3, <1>5 DEF TypeOK
  <2>3. retired' \cup lapsed' \subseteq {d \in Cred : rows'[d] # None}
    BY <1>1, <1>4, <1>5 DEF TypeOK
  <2>4. branched' \subseteq ClientId \cup {None} /\ edited' \in [Cred -> Cred \cup {None}]
    BY <1>1, <1>3 DEF TypeOK, Row
  <2>5. issued' \cup retired' \cup rotated' \cup lapsed' \subseteq {d \in Cred : rows'[d] # None}
    BY <2>1, <2>2, <2>3
  <2> QED
    BY <1>1, <1>4, <1>5, <1>6, <2>4, <2>5 DEF TypeOK
<1>8. InsertedOnce'
  <2> SUFFICES ASSUME NEW s \in Request, rows'[s] # None, req'[s].step # 0,
                      NEW i \in req'[s].step..Len(Plan[req'[s].op])
               PROVE  Plan[req'[s].op][i] # "insert"
    BY DEF InsertedOnce
  <2>1. CASE s # r
    <3>1. rows[s] # None /\ req'[s].step = req[s].step /\ req'[s].op = req[s].op
      BY <1>5, <1>6, <2>1 DEF Moved, Cred
    <3> QED
      BY <3>1 DEF CredInv, InsertedOnce
  <2>2. CASE s = r
    <3> DEFINE n == Len(Plan[req[r].op])
    <3>1. /\ n \in 1..4 /\ req[r].step \in 1..n
          /\ \A j \in 1..n : Plan[req[r].op][j] = "insert" => req[r].step = j
      BY <1>1, AtFacts DEF Ordered
    <3>2. req'[r].op = req[r].op /\ req'[r].step = req[r].step + 1 /\ i \in req'[r].step..n
      BY <1>2, <1>6, <2>2 DEF Moved
    <3> HIDE DEF n
    <3>3. i \in 1..n /\ i # req[r].step
      BY <3>1, <3>2
    <3> QED
      BY <2>2, <3>1, <3>2, <3>3
  <2> QED
    BY <2>1, <2>2
<1>9. FoundStands' /\ Prepared'
  <2>1. \A d \in Cred : rows[d] # None => rows'[d] # None /\ rows'[d].type = rows[d].type
    BY <1>1, <1>5
  <2>2. req'[r].status = "open" => rows'[r] # None
    <3>1. CASE o = "answered"
      BY <1>5, <3>1
    <3>2. CASE o # "answered"
      <4>1. Stop(r, "error")
        BY <1>3, <3>2
      <4>2. req'[r].status = "error"
        BY <1>1, <4>1 DEF Stop, TypeOK, Asked
      <4> QED
        BY <4>2
    <3> QED
      BY <3>1, <3>2
  <2> QED
    BY <1>1, <1>2, <1>6, <2>1, <2>2, FoundFrame, PreparedFrame DEF CredInv
<1>10. RetiredAreOff' /\ RevokedIsRefused'
  <2>1. \A d \in retired : ~rows'[d].active
    BY <1>1, <1>5 DEF CredInv, RetiredAreOff, TypeOK
  <2> QED
    BY <1>1, <1>4, <1>6, <2>1, RetiredFrame DEF CredInv
<1>11. TrustStands'
  BY <1>1, <1>3, <1>4, <1>5 DEF CredInv, TrustStands, TypeOK
<1>12. FoundTrust'
  <2> SUFFICES ASSUME NEW s \in Request, At(s, "metadata")', req'[s].op = "verify",
                      ~req'[s].stale, req'[s].on \notin lapsed'
               PROVE  req'[s].found.trust = edited'[req'[s].on]
    BY DEF FoundTrust
  <2>1. s # r /\ At(s, "metadata")
    BY <1>1, <1>2, <1>6, NewMetadata DEF CredInv
  <2>2. /\ req'[s].found = req[s].found /\ req'[s].on = req[s].on /\ req'[s].op = req[s].op
        /\ req'[s].stale = req[s].stale
    BY <1>6, <2>1 DEF Moved
  <2>3. req[s].on \in Cred /\ rows[req[s].on] # None
    BY <2>1, HasFound DEF Changes
  <2>4. edited'[req[s].on] = edited[req[s].on]
    BY <1>1, <1>3, <2>3 DEF TypeOK
  <2> QED
    BY <1>4, <2>1, <2>2, <2>4 DEF CredInv, FoundTrust
<1>13. NobodyKeeps' /\ OnceKeepsNoSecret'
  <2>1. \A d \in Cred : rows'[d] # None /\ rows'[d].kept =>
               \/ rows[d] # None /\ rows[d].kept
               \/ At(r, "insert") /\ req[r].keep
    BY <1>1, <1>5
  <2> QED
    BY <1>1, <1>2, <1>4, <1>6, <2>1, KeepFrame DEF CredInv
<1> QED
  BY <1>7, <1>8, <1>9, <1>10, <1>11, <1>12, <1>13 DEF CredInv

\* A request goes on or ends, and others are marked by what it wrote.
LEMMA Marking ==
    ASSUME TypeOK, NEW r \in Request, NEW q, At(r, q), req' = [s \in Request |-> req'[s]],
           \/ req'[r] = Advance(req[r])
           \/ req'[r] = [req[r] EXCEPT !.status = "refused", !.step = 0]
           \/ req'[r] = [req[r] EXCEPT !.status = "ok", !.step = 0],
           \A s \in Request \ {r} : \/ req'[s] = req[s]
                                   \/ req'[s] = [req[s] EXCEPT !.stale = TRUE]
                                   \/ req'[s] = [req[s] EXCEPT !.dead = FALSE]
    PROVE  /\ req' \in [Request -> Asked] /\ Moved(r)
           /\ req'[r].found = req[r].found /\ req'[r].client = req[r].client
           /\ req'[r].keep = req[r].keep
           /\ req'[r].stale = req[r].stale
           /\ req'[r].status # "accepted"
           /\ \A s \in Request : req'[s].dead => req[s].dead
           /\ \A s \in Request : /\ req'[s].step <= Len(Plan[req'[s].op])
                                 /\ req'[s].found # None => WellFormed(req'[s].found)
<1>1. /\ req[r] \in Asked /\ req[r].status = "open" /\ req[r].step # 0
      /\ req[r].step \in 1..Len(Plan[req[r].op]) /\ Len(Plan[req[r].op]) \in 1..4
      /\ (req[r].found # None => WellFormed(req[r].found))
  BY AtFacts DEF TypeOK
<1>2. /\ req'[r] \in Asked /\ req'[r].op = req[r].op /\ req'[r].on = req[r].on
      /\ req'[r].found = req[r].found /\ req'[r].client = req[r].client
      /\ req'[r].keep = req[r].keep /\ req'[r].stale = req[r].stale
      /\ req'[r].dead = req[r].dead
      /\ \/ req'[r].status \in {"ok", "refused"} /\ req'[r].step = 0
         \/ /\ req'[r].status = "open" /\ req'[r].step = req[r].step + 1
            /\ req'[r].step <= Len(Plan[req[r].op])
  <2>1. CASE req'[r] = Advance(req[r])
    BY <1>1, <2>1, AdvanceFacts
  <2>2. ASSUME NEW status \in {"ok", "refused"},
               req'[r] = [req[r] EXCEPT !.status = status, !.step = 0]
        PROVE  <1>2
    <3>1. status \in Status /\ 0 \in 0..4
      BY DEF Status
    <3>2. [req[r] EXCEPT !.status = status, !.step = 0] \in Asked
      BY <1>1, <3>1, Updated
    <3> QED
      BY <1>1, <2>2, <3>2 DEF Asked
  <2> QED
    BY <2>1, <2>2
<1>3. ASSUME NEW s \in Request \ {r}
      PROVE  /\ req'[s] \in Asked /\ req'[s].op = req[s].op /\ req'[s].on = req[s].on
             /\ req'[s].status = req[s].status /\ req'[s].step = req[s].step
             /\ req'[s].found = req[s].found /\ req'[s].client = req[s].client
             /\ req'[s].keep = req[s].keep /\ (req'[s].dead => req[s].dead)
  <2>1. req[s] \in Asked
    BY DEF TypeOK
  <2>2. CASE req'[s] = req[s]
    BY <2>1, <2>2
  <2>3. CASE req'[s] = [req[s] EXCEPT !.stale = TRUE]
    <3>1. [req[s] EXCEPT !.stale = TRUE] \in Asked
      BY <2>1, Marked
    <3> QED
      BY <2>1, <2>3, <3>1 DEF Asked
  <2>4. CASE req'[s] = [req[s] EXCEPT !.dead = FALSE]
    <3>1. [req[s] EXCEPT !.dead = FALSE] \in Asked
      BY <2>1, Marked
    <3> QED
      BY <2>1, <2>4, <3>1 DEF Asked
  <2> QED
    BY <2>2, <2>3, <2>4
<1>4. req' \in [Request -> Asked]
  BY <1>2, <1>3
<1>5. Moved(r)
  BY <1>1, <1>2, <1>3 DEF Moved
<1>6. \A s \in Request : req'[s].dead => req[s].dead
  BY <1>2, <1>3
<1>7. \A s \in Request : /\ req'[s].step <= Len(Plan[req'[s].op])
                         /\ req'[s].found # None => WellFormed(req'[s].found)
  BY <1>1, <1>2, <1>4, <1>5, RequestsFrame
<1> QED
  BY <1>2, <1>4, <1>5, <1>6, <1>7

LEMMA ReactivateStep ==
    ASSUME CredInv, NEW r \in Request, Reactivate(r)
    PROVE  CredInv'
<1> DEFINE c == req[r].on
           new == [rows[c] EXCEPT !.active = TRUE]
<1>1. TypeOK /\ At(r, "reactivate") /\ c \in Cred /\ rows[c] \in Row /\ WellFormed(rows[c])
      /\ rows[c] # None
  BY HasFound DEF CredInv, Reactivate, Changes
<1>2. ~At(r, "purge") /\ ~At(r, "insert") /\ ~At(r, "clients") /\ ~At(r, "visibility")
      /\ ~At(r, "find") /\ req[r].op = "activate"
  BY <1>1, AtFacts DEF At, Ordered
<1>3. PICK o \in Outcome :
        /\ Ends(o)
        /\ rows' = IF o = "failed" THEN rows ELSE [rows EXCEPT ![c] = new]
        /\ retired' = IF o = "failed" THEN retired ELSE retired \ {c}
        /\ branched' = IF o # "failed" /\ c \in rotated
                       THEN branched \cup {rows[c].client} ELSE branched
        /\ req' = [s \in Request |->
             CASE s = r -> IF o = "answered" THEN Advance(req[r])
                           ELSE [req[r] EXCEPT !.status = "refused", !.step = 0]
               [] s # r /\ o # "failed" /\ req[s].on = c -> [req[s] EXCEPT !.dead = FALSE]
               [] OTHER -> req[s]]
  BY <1>1 DEF Reactivate
<1>4. /\ failures' \in 0..MaxFailures /\ server' = server /\ setting' = setting
      /\ issued' = issued /\ rotated' = rotated /\ late' = late
      /\ edited' = edited /\ lapsed' = lapsed
  BY <1>1, <1>3, EndsFacts DEF Reactivate
<1>5. /\ new \in Row /\ WellFormed(new)
      /\ new.type = rows[c].type /\ new.trust = rows[c].trust /\ new.kept = rows[c].kept
  BY <1>1, RowUpdated DEF Row
<1> HIDE DEF new
<1>6. /\ rows' \in [Cred -> Row \cup {None}]
      /\ \A d \in Cred : rows'[d] # None => WellFormed(rows'[d])
      /\ \A d \in Cred : /\ rows'[d] # None <=> rows[d] # None
                         /\ rows'[d].type = rows[d].type
                         /\ rows'[d].trust = rows[d].trust /\ rows'[d].kept = rows[d].kept
      /\ \A d \in Cred : d # c \/ o = "failed" => rows'[d] = rows[d]
  <2>1. CASE o = "failed"
    BY <1>1, <1>3, <2>1 DEF TypeOK
  <2>2. CASE o # "failed"
    BY <1>1, <1>3, <1>5, <2>2, Written
  <2> QED
    BY <2>1, <2>2
<1>7. /\ req' = [s \in Request |-> req'[s]]
      /\ req'[r] = Advance(req[r]) \/ req'[r] = [req[r] EXCEPT !.status = "refused", !.step = 0]
      /\ \A s \in Request \ {r} :
            req'[s] = IF o # "failed" /\ req[s].on = c
                      THEN [req[s] EXCEPT !.dead = FALSE] ELSE req[s]
  BY <1>3
<1>8. /\ req' \in [Request -> Asked] /\ Moved(r)
      /\ req'[r].found = req[r].found /\ req'[r].client = req[r].client
      /\ req'[r].keep = req[r].keep /\ req'[r].stale = req[r].stale
      /\ req'[r].status # "accepted"
      /\ \A s \in Request : req'[s].dead => req[s].dead
      /\ \A s \in Request : /\ req'[s].step <= Len(Plan[req'[s].op])
                            /\ req'[s].found # None => WellFormed(req'[s].found)
  BY <1>1, <1>7, Marking
<1>9. \A s \in Request : /\ req'[s].stale = req[s].stale
                         /\ s # r /\ o # "failed" /\ req[s].on = c => ~req'[s].dead
  <2> TAKE s \in Request
  <2>1. req[s] \in Asked
    BY <1>1 DEF TypeOK
  <2>2. CASE s = r
    BY <1>8, <2>2
  <2>3. CASE s # r
    BY <1>7, <2>1, <2>3 DEF Asked
  <2> QED
    BY <2>2, <2>3
<1>10. TypeOK'
  <2>1. issued' \cup retired' \cup rotated' \cup lapsed' \subseteq {d \in Cred : rows'[d] # None}
    BY <1>1, <1>3, <1>4, <1>6 DEF TypeOK
  <2>2. branched' \subseteq ClientId \cup {None}
    BY <1>1, <1>3 DEF TypeOK, Row
  <2> QED
    BY <1>1, <1>4, <1>6, <1>8, <2>1, <2>2 DEF TypeOK
<1>11. InsertedOnce' /\ FoundStands' /\ Prepared'
  <2>1. \A s \in Request : s \in Cred
    BY DEF Cred
  <2> QED
    BY <1>1, <1>2, <1>6, <1>8, <2>1, InsertedFrame, FoundFrame, PreparedFrame DEF CredInv
<1>12. RetiredAreOff'
  <2>1. \A d \in retired' : ~rows'[d].active
    BY <1>1, <1>3, <1>6 DEF CredInv, RetiredAreOff, TypeOK
  <2>2. ASSUME NEW s \in Request, req'[s].op \in {"authenticate", "mint"}, req'[s].dead
        PROVE  req'[s].on \in retired'
    <3>1. req[s].dead /\ req[s].op \in {"authenticate", "mint"} /\ req'[s].on = req[s].on
      BY <1>8, <2>2 DEF Moved
    <3>2. s # r /\ req[s].on \in retired
      BY <1>2, <3>1 DEF CredInv, RetiredAreOff
    <3>3. o = "failed" \/ req[s].on # c
      BY <1>9, <2>2, <3>2
    <3> QED
      BY <1>3, <3>1, <3>2, <3>3
  <2> QED
    BY <2>1, <2>2 DEF RetiredAreOff
<1>13. RevokedIsRefused'
  BY <1>8 DEF CredInv, RevokedIsRefused, Moved
<1>14. FoundTrust' /\ TrustStands'
  BY <1>1, <1>2, <1>4, <1>6, <1>8, <1>9, TrustFrame DEF CredInv
<1>15. NobodyKeeps' /\ OnceKeepsNoSecret'
  BY <1>1, <1>2, <1>4, <1>6, <1>8, KeepFrame DEF CredInv
<1> QED
  BY <1>10, <1>11, <1>12, <1>13, <1>14, <1>15 DEF CredInv

LEMMA WriteMetadataStep ==
    ASSUME CredInv, NEW r \in Request, WriteMetadata(r)
    PROVE  CredInv'
<1> DEFINE c == req[r].on
           put == req[r].op = "put"
           new == [rows[c] EXCEPT !.trust = NewTrust(r)]
<1>1. TypeOK /\ At(r, "metadata") /\ c \in Cred /\ rows[c] \in Row /\ WellFormed(rows[c])
      /\ rows[c] # None /\ r \in Cred /\ req[r].found \in Row /\ WellFormed(req[r].found)
      /\ Suits(req[r].op, req[r].found.type) /\ rows[c].type = req[r].found.type
  BY HasFound DEF CredInv, WriteMetadata, Changes, Cred
<1>2. ~At(r, "purge") /\ ~At(r, "insert") /\ ~At(r, "clients") /\ ~At(r, "visibility")
      /\ ~At(r, "find") /\ req[r].op \in {"put", "verify"}
  BY <1>1, AtFacts DEF At, Ordered
<1>3. PICK o \in Outcome, relabel \in BOOLEAN :
        /\ Ends(o)
        /\ rows' = IF o = "failed" THEN rows ELSE [rows EXCEPT ![c] = new]
        /\ edited' = IF o # "failed" /\ put THEN [edited EXCEPT ![c] = r] ELSE edited
        /\ lapsed' = CASE o # "failed" /\ put -> lapsed \ {c}
                       [] o # "failed" /\ ~put /\ req[r].stale -> lapsed \cup {c}
                       [] OTHER -> lapsed
        /\ req' = [s \in Request |->
             CASE s = r /\ put /\ o = "answered" /\ relabel -> Advance(req[r])
               [] s = r /\ put /\ o # "answered" ->
                    [req[r] EXCEPT !.status = "refused", !.step = 0]
               [] s # r /\ put /\ o # "failed" /\ req[s].on = c /\ At(s, "metadata") ->
                    [req[s] EXCEPT !.stale = TRUE]
               [] s = r /\ (~put \/ (o = "answered" /\ ~relabel)) ->
                    [req[r] EXCEPT !.status = "ok", !.step = 0]
               [] OTHER -> req[s]]
  BY <1>1 DEF WriteMetadata
<1>4. /\ failures' \in 0..MaxFailures /\ server' = server /\ setting' = setting
      /\ issued' = issued /\ retired' = retired /\ rotated' = rotated
      /\ branched' = branched /\ late' = late
  BY <1>1, <1>3, EndsFacts DEF WriteMetadata
<1>5. /\ new \in Row /\ WellFormed(new) /\ new.trust = NewTrust(r) /\ NewTrust(r) \in Cred
      /\ new.type = rows[c].type /\ new.active = rows[c].active /\ new.kept = rows[c].kept
  <2>1. rows[c].type = "wif"
    BY <1>1, <1>2 DEF Suits
  <2>2. NewTrust(r) \in Cred
    BY <1>1, <1>2, <2>1 DEF NewTrust, WellFormed, Row
  <2>3. new \in Row /\ WellFormed(new)
    BY <1>1, <2>1, <2>2, RowUpdated
  <2> QED
    BY <1>1, <2>2, <2>3 DEF Row
<1> HIDE DEF new
<1>6. /\ rows' \in [Cred -> Row \cup {None}]
      /\ \A d \in Cred : rows'[d] # None => WellFormed(rows'[d])
      /\ \A d \in Cred : /\ rows'[d] # None <=> rows[d] # None
                         /\ rows'[d].type = rows[d].type
                         /\ rows'[d].active = rows[d].active /\ rows'[d].kept = rows[d].kept
      /\ \A d \in Cred : d # c \/ o = "failed" => rows'[d] = rows[d]
      /\ o # "failed" => rows'[c].trust = NewTrust(r)
  <2>1. CASE o = "failed"
    BY <1>1, <1>3, <2>1 DEF TypeOK
  <2>2. CASE o # "failed"
    BY <1>1, <1>3, <1>5, <2>2, Written
  <2> QED
    BY <2>1, <2>2
<1>7. /\ req' = [s \in Request |-> req'[s]]
      /\ \/ req'[r] = Advance(req[r])
         \/ req'[r] = [req[r] EXCEPT !.status = "refused", !.step = 0]
         \/ req'[r] = [req[r] EXCEPT !.status = "ok", !.step = 0]
      /\ \A s \in Request \ {r} :
            req'[s] = IF put /\ o # "failed" /\ req[s].on = c /\ At(s, "metadata")
                      THEN [req[s] EXCEPT !.stale = TRUE] ELSE req[s]
  BY <1>3
<1>8. /\ req' \in [Request -> Asked] /\ Moved(r)
      /\ req'[r].found = req[r].found /\ req'[r].client = req[r].client
      /\ req'[r].keep = req[r].keep /\ req'[r].stale = req[r].stale
      /\ req'[r].status # "accepted"
      /\ \A s \in Request : req'[s].dead => req[s].dead
      /\ \A s \in Request : /\ req'[s].step <= Len(Plan[req'[s].op])
                            /\ req'[s].found # None => WellFormed(req'[s].found)
  BY <1>1, <1>7, Marking
<1>9. \A s \in Request \ {r} :
         IF put /\ o # "failed" /\ req[s].on = c /\ At(s, "metadata")
         THEN req'[s].stale ELSE req'[s].stale = req[s].stale
  <2> TAKE s \in Request \ {r}
  <2>1. req[s] \in Asked
    BY <1>1 DEF TypeOK
  <2> QED
    BY <1>7, <2>1 DEF Asked
<1>10. /\ lapsed' = IF o # "failed" /\ put THEN lapsed \ {c}
                    ELSE IF o # "failed" /\ req[r].stale THEN lapsed \cup {c} ELSE lapsed
  BY <1>3
<1>11. TypeOK'
  <2>1. issued' \cup retired' \cup rotated' \cup lapsed' \subseteq {d \in Cred : rows'[d] # None}
    BY <1>1, <1>4, <1>6, <1>10 DEF TypeOK
  <2>2. edited' \in [Cred -> Cred \cup {None}]
    BY <1>1, <1>3 DEF TypeOK
  <2> QED
    BY <1>1, <1>4, <1>6, <1>8, <2>1, <2>2 DEF TypeOK
<1>12. InsertedOnce' /\ FoundStands' /\ Prepared'
  <2>1. \A s \in Request : s \in Cred
    BY DEF Cred
  <2> QED
    BY <1>1, <1>2, <1>6, <1>8, <2>1, InsertedFrame, FoundFrame, PreparedFrame DEF CredInv
<1>13. RetiredAreOff' /\ RevokedIsRefused'
  <2>1. \A d \in retired : ~rows'[d].active
    BY <1>1, <1>6 DEF CredInv, RetiredAreOff, TypeOK
  <2> QED
    BY <1>1, <1>4, <1>8, <2>1, RetiredFrame DEF CredInv
<1>14. TrustStands'
  <2> SUFFICES ASSUME NEW d \in Cred, d \notin lapsed', rows'[d] # None
               PROVE  rows'[d].trust = edited'[d]
    BY DEF TrustStands
  <2>1. CASE d # c \/ o = "failed"
    BY <1>1, <1>3, <1>6, <1>10, <2>1 DEF CredInv, TrustStands, TypeOK
  <2>2. CASE d = c /\ o # "failed" /\ put
    <3>1. NewTrust(r) = r
      BY <2>2 DEF NewTrust
    <3> QED
      BY <1>1, <1>3, <1>6, <2>2, <3>1 DEF TypeOK
  <2>3. CASE d = c /\ o # "failed" /\ ~put
    <3>1. ~req[r].stale /\ c \notin lapsed /\ req[r].op = "verify"
      BY <1>2, <1>10, <2>3
    <3>2. req[r].found.trust = edited[c]
      BY <1>1, <3>1 DEF CredInv, FoundTrust
    <3> QED
      BY <1>3, <1>6, <2>3, <3>2 DEF NewTrust
  <2> QED
    BY <2>1, <2>2, <2>3
<1>15. FoundTrust'
  <2> SUFFICES ASSUME NEW s \in Request, At(s, "metadata")', req'[s].op = "verify",
                      ~req'[s].stale, req'[s].on \notin lapsed'
               PROVE  req'[s].found.trust = edited'[req'[s].on]
    BY DEF FoundTrust
  <2>1. s # r /\ At(s, "metadata")
    BY <1>1, <1>2, <1>8, NewMetadata DEF CredInv
  <2>2. req'[s].found = req[s].found /\ req'[s].on = req[s].on /\ req'[s].op = req[s].op
    BY <1>8, <2>1 DEF Moved
  <2>3. ~(put /\ o # "failed" /\ req[s].on = c) /\ ~req[s].stale
    BY <1>9, <2>1
  <2>4. req[s].on \notin lapsed /\ edited'[req[s].on] = edited[req[s].on]
    BY <1>1, <1>3, <1>10, <2>2, <2>3 DEF TypeOK
  <2> QED
    BY <2>1, <2>2, <2>3, <2>4 DEF CredInv, FoundTrust
<1>16. NobodyKeeps' /\ OnceKeepsNoSecret'
  BY <1>1, <1>2, <1>4, <1>6, <1>8, KeepFrame DEF CredInv
<1> QED
  BY <1>11, <1>12, <1>13, <1>14, <1>15, <1>16 DEF CredInv

-----------------------------------------------------------------------------
(* The theorems                                                             *)

LEMMA StepHolds == CredInv /\ [Next]_vars => CredInv'
<1> SUFFICES ASSUME CredInv, [Next]_vars
             PROVE  CredInv'
  OBVIOUS
<1>1. CASE UNCHANGED vars
  BY <1>1 DEF vars, history, CredInv, TypeOK, InsertedOnce, FoundStands, Prepared,
             RetiredAreOff, RevokedIsRefused, FoundTrust, TrustStands, NobodyKeeps,
             OnceKeepsNoSecret, At
<1>2. ASSUME NEW r \in Request,
             \/ Arrive(r) \/ Find(r) \/ ListClients(r) \/ Retain(r) \/ Reveal(r) \/ Insert(r)
             \/ Deactivate(r) \/ Reactivate(r) \/ WriteLabel(r) \/ WriteMetadata(r)
             \/ SetServer(r) \/ Purge(r) \/ LookUp(r)
      PROVE  CredInv'
  BY <1>2, ArriveStep, FindStep, ListClientsStep, RetainStep, RevealStep, InsertStep,
     DeactivateStep, ReactivateStep, WriteLabelStep, WriteMetadataStep, SetServerStep,
     PurgeStep, LookUpStep
<1> QED
  BY <1>1, <1>2 DEF Next, Done

\* In every reachable state, for any number of requests and failures: the types
\* and the parts of the invariant on which the theorems below rest.
THEOREM CredInvariant == Spec => []CredInv
BY InitHolds, StepHolds, PTL DEF Spec

\* The state has the shape the model says.
THEOREM TypeCorrect == Spec => []TypeOK
<1>1. CredInv => TypeOK
  BY DEF CredInv
<1> QED
  BY <1>1, CredInvariant, PTL

\* A secret whose credential was revoked or rotated out before it was presented is
\* not accepted, whatever labels, trusts, purges and rotations are written meanwhile
\* (endpoint-credential.authenticator.ts and client-secret-token-provider.ts look
\* among the active rows only).
THEOREM RevocationHolds == Spec => []RevokedIsRefused
<1>1. CredInv => RevokedIsRefused
  BY DEF CredInv
<1> QED
  BY <1>1, CredInvariant, PTL

\* A trust is the one an administrator last wrote, unless a verification that had
\* read it before wrote it back (updateMetadata replaces the whole metadata).
THEOREM TrustHolds == Spec => []TrustStands
<1>1. CredInv => TrustStands
  BY DEF CredInv
<1> QED
  BY <1>1, CredInvariant, PTL

\* Where the server shows secrets once, none is kept, unless a purge failed or was
\* overtaken by an insert (admin-security-settings.controller.ts purges after it
\* has stored the setting).
THEOREM OnceHolds == Spec => []OnceKeepsNoSecret
<1>1. CredInv => OnceKeepsNoSecret
  BY DEF CredInv
<1> QED
  BY <1>1, CredInvariant, PTL

-----------------------------------------------------------------------------
(* One current credential for each client id                                *)

\* A credential that is not active is known to be retired.
InactiveAreRetired == \A c \in Cred : rows[c] # None /\ ~rows[c].active => c \in retired

\* A secret that is presented was given out.
Presented ==
    \A r \in Request : req[r].op \in {"authenticate", "mint"} /\ req[r].status # "new" =>
        /\ req[r].on \in issued
        /\ req[r].op = "mint" => rows[req[r].on].type = "oauth_client"

\* A client id that was made for a credential is in the table only with it.
NamedByMaker ==
    /\ \A c \in Cred : rows[c] # None /\ rows[c].client \in Request =>
          rows[rows[c].client] # None
    /\ \A r \in Request : req[r].client \in {None, DefaultId, r}

\* The client id a create has in hand is in the table only if it has branched.
HandsOutNewId ==
    \A r \in Request : req[r].op = "oauth_client" /\ req[r].status = "open" /\ req[r].step > 1 =>
        \A c \in Cred : rows[c] # None /\ rows[c].client = req[r].client =>
            rows[c].client \in branched

\* The credential that a rotation found still has its client id, and so has the
\* one it inserted.
KeepsId ==
    \A r \in Request : req[r].op = "rotate" /\ req[r].status = "open" /\ req[r].step > 1 =>
        /\ req[r].found.client = rows[req[r].on].client
        /\ req[r].step = 4 => rows[r].client = req[r].found.client

\* The rotation r has inserted the credential after c, and not deactivated c yet.
Superseding(r, c) ==
    req[r].op = "rotate" /\ req[r].status = "open" /\ req[r].step = 4 /\ req[r].on = c

\* Of the credentials of a client id that has not branched all but one were
\* rotated from.
OneCurrent ==
    \A c, d \in Cred : SameId(rows, c, d) /\ rows[c].client \notin branched =>
        c \in rotated \/ d \in rotated

\* Those are retired, or about to be.
RotatedOut ==
    \A c \in rotated : rows[c].client # None /\ rows[c].client \notin branched =>
        c \in retired \/ \E r \in Request : Superseding(r, c)

\* Nobody has the secret a rotation inserted before it ends, and nobody has
\* rotated on from it, unless the client id has branched.
NotRotatedYet ==
    \A r \in Request : req[r].op = "rotate" /\ req[r].status = "open" /\ req[r].step = 4 =>
        /\ r \notin issued
        /\ r \in rotated => rows[r].client \in branched

Lineage ==
    /\ InactiveAreRetired /\ Presented /\ NamedByMaker /\ HandsOutNewId
    /\ KeepsId /\ OneCurrent /\ RotatedOut /\ NotRotatedYet

BranchInv == Lineage /\ IssuedSecretAccepted

-----------------------------------------------------------------------------
(* What a step leaves of it                                                 *)

\* No row is added, and none changes its type or its client id.
SameTable ==
    \A c \in Cred : /\ rows'[c] # None <=> rows[c] # None
                    /\ rows'[c].client = rows[c].client /\ rows'[c].type = rows[c].type

\* A request past its first query was there before, or has just come there.
LEMMA Pace ==
    ASSUME TypeOK, Prepared, NEW r \in Request, Moved(r), req' \in [Request -> Asked],
           NEW s \in Request, req'[s].status = "open", req'[s].step > 1
    PROVE  /\ req'[s].op = req[s].op /\ req'[s].on = req[s].on /\ req[s].op \in DOMAIN Plan
           /\ req[s].status = "open" /\ req[s].step \in 1..4
           /\ s # r => req[s].step = req'[s].step
           /\ s = r => req'[s].step = req[s].step + 1
<1>1. /\ req'[s].op = req[s].op /\ req'[s].on = req[s].on /\ req[s].op \in DOMAIN Plan
      /\ req[s].step \in 0..4 /\ req'[s].step \in 0..4
  BY DEF Moved, TypeOK, Asked
<1>2. CASE s # r
  BY <1>1, <1>2 DEF Moved
<1>3. CASE s = r
  <2>1. ~(req[r].status = "new")
    BY <1>1, <1>3 DEF Moved, Prepared
  <2>2. req[r].status = "open" /\ req[r].step # 0 /\ req'[r].step = req[r].step + 1
    BY <1>3, <2>1 DEF Moved
  <2> QED
    BY <1>1, <1>3, <2>2
<1> QED
  BY <1>2, <1>3

LEMMA RotationPace ==
    ASSUME TypeOK, Prepared, NEW r \in Request, Moved(r), req' \in [Request -> Asked],
           NEW s \in Request, req'[s].op = "rotate", req'[s].status = "open", req'[s].step > 1
    PROVE  /\ req[s].op = "rotate" /\ req[s].status = "open" /\ req'[s].on = req[s].on
           /\ s # r => req[s].step = req'[s].step
           /\ s = r => At(r, "find") \/ req[r].step > 1
           /\ s = r /\ req'[s].step = 4 => At(r, "insert")
<1>1. /\ req[s].op = "rotate" /\ req[s].status = "open" /\ req'[s].on = req[s].on
      /\ req[s].step \in 1..4
      /\ s # r => req[s].step = req'[s].step
      /\ s = r => req'[s].step = req[s].step + 1
  BY Pace
<1>2. Plan["rotate"] = <<"find", "visibility", "insert", "deactivate">>
  BY DEF Plan
<1>3. s = r /\ req[r].step = 1 => At(r, "find")
  BY <1>1, <1>2 DEF At
<1>4. s = r /\ req[r].step = 3 => At(r, "insert")
  BY <1>1, <1>2 DEF At
<1> QED
  BY <1>1, <1>3, <1>4

LEMMA CreatePace ==
    ASSUME TypeOK, Prepared, NEW r \in Request, Moved(r), req' \in [Request -> Asked],
           NEW s \in Request, req'[s].op = "oauth_client", req'[s].status = "open",
           req'[s].step > 1
    PROVE  /\ req[s].op = "oauth_client" /\ req[s].status = "open"
           /\ s # r => req[s].step > 1
           /\ s = r => At(r, "clients") \/ req[r].step > 1
<1>1. /\ req[s].op = "oauth_client" /\ req[s].status = "open" /\ req[s].step \in 1..4
      /\ s # r => req[s].step = req'[s].step
  BY Pace
<1>2. Plan["oauth_client"] = <<"clients", "visibility", "insert">>
  BY DEF Plan
<1>3. s = r /\ req[r].step = 1 => At(r, "clients")
  BY <1>1, <1>2 DEF At
<1> QED
  BY <1>1, <1>3

LEMMA PresentedFrame ==
    ASSUME TypeOK, Presented, NEW r \in Request, Moved(r), req[r].status # "new",
           issued \subseteq issued',
           \A c \in Cred : rows[c] # None => rows'[c].type = rows[c].type
    PROVE  Presented'
<1> SUFFICES ASSUME NEW s \in Request, req'[s].op \in {"authenticate", "mint"},
                    req'[s].status # "new"
             PROVE  /\ req'[s].on \in issued'
                    /\ req'[s].op = "mint" => rows'[req'[s].on].type = "oauth_client"
  BY DEF Presented
<1>1. req'[s].op = req[s].op /\ req'[s].on = req[s].on /\ req[s].status # "new"
  BY DEF Moved
<1>2. req[s].on \in issued /\ (req[s].op = "mint" => rows[req[s].on].type = "oauth_client")
  BY <1>1 DEF Presented
<1> QED
  BY <1>1, <1>2 DEF TypeOK

LEMMA NamedFrame ==
    ASSUME TypeOK, NamedByMaker, NEW r \in Request, Moved(r), SameTable,
           req'[r].client = req[r].client
    PROVE  NamedByMaker'
<1>1. \A x \in Request : x \in Cred
  BY DEF Cred
<1>2. \A c \in Cred : rows'[c] # None /\ rows'[c].client \in Request =>
         rows'[rows'[c].client] # None
  BY <1>1 DEF NamedByMaker, SameTable
<1>3. \A s \in Request : req'[s].client \in {None, DefaultId, s}
  BY DEF NamedByMaker, Moved
<1> QED
  BY <1>2, <1>3 DEF NamedByMaker

LEMMA HandsFrame ==
    ASSUME TypeOK, Prepared, HandsOutNewId, NEW r \in Request, Moved(r),
           req' \in [Request -> Asked], SameTable, branched \subseteq branched',
           req'[r].client = req[r].client, At(r, "clients") => req'[r].status # "open"
    PROVE  HandsOutNewId'
<1> SUFFICES ASSUME NEW s \in Request, req'[s].op = "oauth_client", req'[s].status = "open",
                    req'[s].step > 1, NEW c \in Cred, rows'[c] # None,
                    rows'[c].client = req'[s].client
             PROVE  rows'[c].client \in branched'
  BY DEF HandsOutNewId
<1>1. /\ req[s].op = "oauth_client" /\ req[s].status = "open" /\ req[s].step > 1
      /\ req'[s].client = req[s].client
  BY CreatePace DEF Moved
<1> QED
  BY <1>1 DEF HandsOutNewId, SameTable

LEMMA KeepsFrame ==
    ASSUME TypeOK, Prepared, FoundStands, KeepsId, NEW r \in Request, Moved(r),
           req' \in [Request -> Asked],
           \A c \in Cred : rows[c] # None => rows'[c].client = rows[c].client,
           req'[r].found = req[r].found, At(r, "find") => req'[r].status # "open",
           At(r, "insert") /\ req[r].op = "rotate" /\ req'[r].status = "open" =>
               rows'[r].client = req[r].found.client
    PROVE  KeepsId'
<1> SUFFICES ASSUME NEW s \in Request, req'[s].op = "rotate", req'[s].status = "open",
                    req'[s].step > 1
             PROVE  /\ req'[s].found.client = rows'[req'[s].on].client
                    /\ req'[s].step = 4 => rows'[s].client = req'[s].found.client
  BY DEF KeepsId
<1>1. /\ req[s].op = "rotate" /\ req[s].status = "open" /\ req[s].step > 1
      /\ req'[s].on = req[s].on /\ req'[s].found = req[s].found
      /\ s # r => req[s].step = req'[s].step
      /\ s = r /\ req'[s].step = 4 => At(r, "insert")
      /\ s \in Cred /\ req[s].on \in Cred
  <2>1. req'[s].found = req[s].found /\ s \in Cred /\ req[s].on \in Cred
    BY DEF Moved, Cred, TypeOK, Asked
  <2>2. s # r => req'[s].step > 1
    OBVIOUS
  <2> QED
    BY <2>1, <2>2, RotationPace
<1>2. req[s].found.client = rows[req[s].on].client /\ rows[req[s].on] # None
  <2>1. Plan["rotate"][1] = "find"
    BY DEF Plan
  <2> QED
    BY <1>1, <2>1 DEF KeepsId, FoundStands
<1>3. ASSUME req'[s].step = 4
      PROVE  rows'[s].client = req'[s].found.client
  <2>1. CASE s = r
    BY <1>1, <1>3, <2>1
  <2>2. CASE s # r
    <3>1. req[s].step = 4 /\ rows[s] # None /\ rows[s].client = req[s].found.client
      BY <1>1, <1>3, <2>2 DEF KeepsId, Prepared
    <3> QED
      BY <1>1, <3>1
  <2> QED
    BY <2>1, <2>2
<1> QED
  BY <1>1, <1>2, <1>3

LEMMA CurrentFrame ==
    ASSUME OneCurrent, SameTable, rotated \subseteq rotated', branched \subseteq branched'
    PROVE  OneCurrent'
<1> SUFFICES ASSUME NEW c \in Cred, NEW d \in Cred, SameId(rows', c, d),
                    rows'[c].client \notin branched'
             PROVE  c \in rotated' \/ d \in rotated'
  BY DEF OneCurrent, SameId
<1>1. SameId(rows, c, d) /\ rows[c].client \notin branched
  BY DEF SameId, SameTable
<1> QED
  BY <1>1 DEF OneCurrent

LEMMA RotatedFrame ==
    ASSUME TypeOK, RotatedOut, NEW r \in Request, Moved(r), SameTable, ~At(r, "deactivate"),
           rotated' = rotated, branched \subseteq branched',
           \A c \in rotated \cap retired : c \in retired' \/ rows[c].client \in branched'
    PROVE  RotatedOut'
<1> SUFFICES ASSUME NEW c \in rotated, rows'[c].client # None, rows'[c].client \notin branched'
             PROVE  c \in retired' \/ \E s \in Request : Superseding(s, c)'
  BY DEF RotatedOut
<1>1. c \in Cred /\ rows[c].client # None /\ rows[c].client \notin branched
      /\ rows[c].client \notin branched'
  BY DEF TypeOK, SameTable
<1>2. CASE c \in retired
  BY <1>1, <1>2
<1>3. ASSUME NEW s \in Request, Superseding(s, c)
      PROVE  Superseding(s, c)'
  <2>1. Plan["rotate"][4] = "deactivate"
    BY DEF Plan
  <2>2. s # r
    BY <1>3, <2>1 DEF Superseding, At
  <2> QED
    BY <1>3, <2>2 DEF Superseding, Moved
<1> QED
  BY <1>1, <1>2, <1>3 DEF RotatedOut

LEMMA NotYetFrame ==
    ASSUME TypeOK, Prepared, NotRotatedYet, NEW r \in Request, Moved(r),
           req' \in [Request -> Asked], SameTable,
           At(r, "insert") => req'[r].status # "open",
           issued' = issued \/ issued' = issued \cup {r},
           rotated' = rotated, branched \subseteq branched'
    PROVE  NotRotatedYet'
<1> SUFFICES ASSUME NEW s \in Request, req'[s].op = "rotate", req'[s].status = "open",
                    req'[s].step = 4
             PROVE  s \notin issued' /\ (s \in rotated' => rows'[s].client \in branched')
  BY DEF NotRotatedYet
<1>1. s # r /\ req[s].op = "rotate" /\ req[s].status = "open" /\ req[s].step = 4 /\ s \in Cred
  BY RotationPace DEF Cred
<1> QED
  BY <1>1 DEF NotRotatedYet, SameTable

\* A query that neither finds, chooses nor changes anything of all that.
LEMMA Quiet ==
    ASSUME CredInv, Lineage, NEW r \in Request, Moved(r), req' \in [Request -> Asked],
           SameTable, \A c \in Cred : rows'[c].active = rows[c].active,
           issued' = issued, retired' = retired, rotated' = rotated, branched' = branched,
           req'[r].found = req[r].found, req'[r].client = req[r].client,
           req[r].status # "new", ~At(r, "deactivate"),
           At(r, "clients") \/ At(r, "find") \/ At(r, "insert") => req'[r].status # "open"
    PROVE  Lineage'
<1>1. /\ TypeOK /\ Prepared /\ FoundStands
      /\ InactiveAreRetired /\ Presented /\ NamedByMaker /\ HandsOutNewId
      /\ KeepsId /\ OneCurrent /\ RotatedOut /\ NotRotatedYet
  BY DEF CredInv, Lineage
<1>2. InactiveAreRetired'
  BY <1>1 DEF InactiveAreRetired, SameTable
<1>3. Presented'
  BY <1>1, PresentedFrame DEF SameTable
<1>4. NamedByMaker'
  BY <1>1, NamedFrame
<1>5. HandsOutNewId'
  BY <1>1, HandsFrame
<1>6. KeepsId'
  BY <1>1, KeepsFrame DEF SameTable
<1>7. OneCurrent'
  BY <1>1, CurrentFrame
<1>8. RotatedOut'
  BY <1>1, RotatedFrame
<1>9. NotRotatedYet'
  BY <1>1, NotYetFrame
<1> QED
  BY <1>2, <1>3, <1>4, <1>5, <1>6, <1>7, <1>8, <1>9 DEF Lineage

-----------------------------------------------------------------------------
(* Every query preserves it                                                 *)

\* No secret is turned away by this step.
NobodyTurnedAway ==
    \A s \in Request : req'[s].status = "rejected" =>
        req[s].status = "rejected" /\ req'[s].excuse = req[s].excuse

LEMMA AcceptedFrame ==
    ASSUME IssuedSecretAccepted, NobodyTurnedAway
    PROVE  IssuedSecretAccepted'
BY DEF IssuedSecretAccepted, NobodyTurnedAway

LEMMA Turns ==
    ASSUME TypeOK, NEW r \in Request, NEW q, At(r, q),
           GoOn(r) \/ \E st \in {"ok", "refused", "error", "shown", "hidden"} : Stop(r, st)
    PROVE  /\ req' \in [Request -> Asked] /\ Moved(r) /\ NobodyTurnedAway
           /\ \A s \in Request \ {r} : req'[s] = req[s]
           /\ req'[r].found = req[r].found /\ req'[r].client = req[r].client
           /\ (\E st \in {"ok", "refused", "error", "shown", "hidden"} : Stop(r, st)) =>
                 req'[r].status # "open"
<1>1. req[r] \in Asked /\ req[r].status = "open"
  BY AtFacts
<1>2. ASSUME GoOn(r)
      PROVE  /\ req' \in [Request -> Asked] /\ Moved(r)
             /\ \A s \in Request \ {r} : req'[s] = req[s]
             /\ req'[r].found = req[r].found /\ req'[r].client = req[r].client
             /\ req'[r].status # "rejected"
  <2>1. req' = [req EXCEPT ![r] = Advance(req[r])]
    BY <1>2 DEF GoOn
  <2>2. req[r].op = req[r].op /\ req[r].on = req[r].on /\ req[r].step = req[r].step
    OBVIOUS
  <2> QED
    BY <1>1, <2>1, <2>2, GoesOn
<1>3. ASSUME NEW st \in {"ok", "refused", "error", "shown", "hidden"}, Stop(r, st)
      PROVE  /\ req' \in [Request -> Asked] /\ Moved(r)
             /\ \A s \in Request \ {r} : req'[s] = req[s]
             /\ req'[r].found = req[r].found /\ req'[r].client = req[r].client
             /\ req'[r].status = st
  <2>1. st \in Status \ {"new", "open"}
    BY <1>3 DEF Status
  <2> QED
    BY <1>3, <2>1, Stops
<1>4. /\ req' \in [Request -> Asked] /\ Moved(r)
      /\ \A s \in Request \ {r} : req'[s] = req[s]
      /\ req'[r].found = req[r].found /\ req'[r].client = req[r].client
      /\ req'[r].status # "rejected"
  BY <1>2, <1>3
<1>5. NobodyTurnedAway
  BY <1>4 DEF NobodyTurnedAway
<1> QED
  BY <1>3, <1>4, <1>5

LEMMA ArriveLineage ==
    ASSUME CredInv, BranchInv, NEW r \in Request, Arrive(r)
    PROVE  BranchInv'
<1>1. /\ TypeOK /\ InactiveAreRetired /\ Presented /\ NamedByMaker /\ HandsOutNewId
      /\ KeepsId /\ OneCurrent /\ RotatedOut /\ NotRotatedYet
      /\ req[r].status = "new" /\ req[r] \in Asked /\ req[r].step = 1
      /\ rows' = rows /\ issued' = issued /\ retired' = retired
      /\ rotated' = rotated /\ branched' = branched
  BY DEF CredInv, BranchInv, Lineage, TypeOK, Prepared, Arrive, history
<1>2. /\ \A s \in Request \ {r} : req'[s] = req[s]
      /\ req'[r].op = req[r].op /\ req'[r].on = req[r].on /\ req'[r].client = req[r].client
      /\ req'[r].step = 1 /\ req'[r].status = "open"
  BY <1>1 DEF TypeOK, Asked, Arrive
<1>3. InactiveAreRetired' /\ OneCurrent'
  BY <1>1 DEF InactiveAreRetired, OneCurrent, SameId
<1>4. Presented'
  <2>1. /\ req[r].op \in {"authenticate", "mint"} => req[r].on \in issued
        /\ req[r].op = "mint" => rows[req[r].on].type = "oauth_client"
    BY DEF Arrive
  <2>2. ASSUME NEW s \in Request, req'[s].op \in {"authenticate", "mint"}, req'[s].status # "new"
        PROVE  /\ req'[s].on \in issued'
               /\ req'[s].op = "mint" => rows'[req'[s].on].type = "oauth_client"
    <3>1. CASE s = r
      BY <1>1, <1>2, <2>1, <2>2, <3>1
    <3>2. CASE s # r
      BY <1>1, <1>2, <2>2, <3>2 DEF Presented
    <3> QED
      BY <3>1, <3>2
  <2> QED
    BY <2>2 DEF Presented
<1>5. NamedByMaker'
  BY <1>1, <1>2 DEF NamedByMaker
<1>6. HandsOutNewId' /\ KeepsId' /\ NotRotatedYet'
  BY <1>1, <1>2 DEF HandsOutNewId, KeepsId, NotRotatedYet
<1>7. RotatedOut'
  <2>1. \A c \in Cred, s \in Request : Superseding(s, c) => Superseding(s, c)'
    BY <1>1, <1>2 DEF Superseding
  <2> QED
    BY <1>1, <2>1 DEF RotatedOut, TypeOK
<1>8. IssuedSecretAccepted'
  BY <1>2 DEF IssuedSecretAccepted, BranchInv
<1> QED
  BY <1>3, <1>4, <1>5, <1>6, <1>7, <1>8 DEF BranchInv, Lineage

LEMMA FindLineage ==
    ASSUME CredInv, BranchInv, NEW r \in Request, Find(r)
    PROVE  BranchInv'
<1> DEFINE c == req[r].on
           p == [req[r] EXCEPT !.found = rows[c]]
<1>1. /\ TypeOK /\ Prepared /\ FoundStands /\ At(r, "find") /\ req[r] \in Asked
      /\ c \in Cred /\ req[r].status = "open" /\ req[r].step = 1
      /\ InactiveAreRetired /\ Presented /\ NamedByMaker /\ HandsOutNewId
      /\ KeepsId /\ OneCurrent /\ RotatedOut /\ NotRotatedYet /\ IssuedSecretAccepted
      /\ rows' = rows /\ issued' = issued /\ retired' = retired
      /\ rotated' = rotated /\ branched' = branched
  BY AtFacts DEF CredInv, BranchInv, Lineage, Find, history, Asked, Ordered
<1>2. ~At(r, "clients") /\ ~At(r, "insert") /\ ~At(r, "deactivate") /\ SameTable
  BY <1>1 DEF At, SameTable
<1>3. CASE Stop(r, IF req[r].op = "verify" THEN "ok" ELSE "refused")
  <2>1. \E st \in {"ok", "refused", "error", "shown", "hidden"} : Stop(r, st)
    BY <1>3
  <2>2. /\ req' \in [Request -> Asked] /\ Moved(r) /\ NobodyTurnedAway
        /\ req'[r].found = req[r].found /\ req'[r].client = req[r].client
        /\ req'[r].status # "open"
    BY <1>1, <2>1, Turns
  <2>3. Lineage'
    BY <1>1, <1>2, <2>2, Quiet DEF BranchInv
  <2> QED
    BY <1>1, <2>2, <2>3, AcceptedFrame DEF BranchInv
<1>4. CASE rows[c] # None /\ req' = [req EXCEPT ![r] = Advance(p)]
  <2>1. /\ p \in Asked /\ p.op = req[r].op /\ p.on = req[r].on /\ p.step = req[r].step
        /\ p.status = "open" /\ p.found = rows[c] /\ p.client = req[r].client
    BY <1>1, <1>4 DEF Asked, TypeOK
  <2>2. req' = [req EXCEPT ![r] = Advance(p)]
    BY <1>4
  <2> HIDE DEF p
  <2>3. /\ req' \in [Request -> Asked] /\ Moved(r)
        /\ \A s \in Request \ {r} : req'[s] = req[s]
        /\ req'[r].found = rows[c] /\ req'[r].client = req[r].client
        /\ req'[r].status \in {"open", "ok"}
    BY <1>1, <2>1, <2>2, GoesOn
  <2>4. NobodyTurnedAway
    BY <2>3 DEF NobodyTurnedAway
  <2>5. InactiveAreRetired' /\ OneCurrent'
    BY <1>1 DEF InactiveAreRetired, OneCurrent, SameId
  <2>6. Presented' /\ NamedByMaker' /\ HandsOutNewId' /\ RotatedOut' /\ NotRotatedYet'
    BY <1>1, <1>2, <2>3, PresentedFrame, NamedFrame, HandsFrame, RotatedFrame, NotYetFrame
  <2>7. KeepsId'
    <3> SUFFICES ASSUME NEW s \in Request, req'[s].op = "rotate", req'[s].status = "open",
                        req'[s].step > 1
                 PROVE  /\ req'[s].found.client = rows'[req'[s].on].client
                        /\ req'[s].step = 4 => rows'[s].client = req'[s].found.client
      BY DEF KeepsId
    <3>1. CASE s = r
      <4>1. req'[r].step # 4
        BY <1>1, <1>2, <2>3, <3>1, RotationPace
      <4>2. req'[r].on = c /\ req'[r].found = rows[c]
        BY <2>3 DEF Moved
      <4> QED
        BY <1>1, <3>1, <4>1, <4>2
    <3>2. CASE s # r
      BY <1>1, <2>3, <3>2 DEF KeepsId
    <3> QED
      BY <3>1, <3>2
  <2> QED
    BY <1>1, <2>4, <2>5, <2>6, <2>7, AcceptedFrame DEF BranchInv, Lineage
<1> QED
  BY <1>3, <1>4 DEF Find

LEMMA ListClientsLineage ==
    ASSUME CredInv, BranchInv, NEW r \in Request, ListClients(r)
    PROVE  BranchInv'
<1> DEFINE other == \E c \in Cred : rows[c] # None /\ rows[c].type = "oauth_client"
           client == IF other THEN r ELSE DefaultId
           p == [req[r] EXCEPT !.client = client]
<1>1. /\ TypeOK /\ Prepared /\ FoundStands /\ At(r, "clients") /\ req[r] \in Asked
      /\ req[r].status = "open" /\ req[r].op = "oauth_client"
      /\ InactiveAreRetired /\ Presented /\ NamedByMaker /\ HandsOutNewId
      /\ KeepsId /\ OneCurrent /\ RotatedOut /\ NotRotatedYet /\ IssuedSecretAccepted
      /\ rows' = rows /\ issued' = issued /\ retired' = retired
      /\ rotated' = rotated /\ branched' = branched
  BY AtFacts DEF CredInv, BranchInv, Lineage, ListClients, history, Ordered
<1>2. ~At(r, "find") /\ ~At(r, "insert") /\ ~At(r, "deactivate") /\ SameTable
  BY <1>1 DEF At, SameTable
<1>3. CASE Stop(r, "error")
  <2>1. \E st \in {"ok", "refused", "error", "shown", "hidden"} : Stop(r, st)
    BY <1>3
  <2>2. /\ req' \in [Request -> Asked] /\ Moved(r) /\ NobodyTurnedAway
        /\ req'[r].found = req[r].found /\ req'[r].client = req[r].client
        /\ req'[r].status # "open"
    BY <1>1, <2>1, Turns
  <2>3. Lineage'
    BY <1>1, <1>2, <2>2, Quiet DEF BranchInv
  <2> QED
    BY <1>1, <2>2, <2>3, AcceptedFrame DEF BranchInv
<1>4. CASE req' = [req EXCEPT ![r] = Advance(p)]
  <2>1. client \in ClientId /\ client # None /\ client \in {DefaultId, r}
    BY CredentialAssumption DEF ClientId, Cred
  <2>2. ASSUME NEW d \in Cred, rows[d] # None, rows[d].client = client
        PROVE  FALSE
    <3>1. rows[d].type = "oauth_client"
      BY <1>1, <2>1, <2>2 DEF TypeOK, WellFormed
    <3>2. client = r
      BY <2>2, <3>1
    <3>3. rows[r] # None
      BY <1>1, <2>2, <3>2 DEF NamedByMaker
    <3>4. rows[r] = None
      <4>1. Plan["oauth_client"] = <<"clients", "visibility", "insert">>
        BY DEF Plan
      <4>2. req[r].step \in 1..3
        BY <1>1, <4>1, AtFacts
      <4> QED
        BY <1>1, <4>1, <4>2 DEF CredInv, InsertedOnce
    <3> QED
      BY <3>3, <3>4
  <2>3. req' = [req EXCEPT ![r] = Advance(p)]
    BY <1>4
  <2> HIDE DEF client
  <2>4. /\ p \in Asked /\ p.op = req[r].op /\ p.on = req[r].on /\ p.step = req[r].step
        /\ p.status = "open" /\ p.found = req[r].found /\ p.client = client
    <3>1. p \in Asked
      BY <1>1, <2>1, Decided
    <3> QED
      BY <1>1, <3>1 DEF Asked
  <2> HIDE DEF p
  <2>5. /\ req' \in [Request -> Asked] /\ Moved(r)
        /\ \A s \in Request \ {r} : req'[s] = req[s]
        /\ req'[r].found = req[r].found /\ req'[r].client = client
        /\ req'[r].status \in {"open", "ok"}
    BY <1>1, <2>3, <2>4, GoesOn
  <2>6. NobodyTurnedAway
    BY <2>5 DEF NobodyTurnedAway
  <2>7. InactiveAreRetired' /\ OneCurrent'
    BY <1>1 DEF InactiveAreRetired, OneCurrent, SameId
  <2>8. Presented' /\ RotatedOut' /\ NotRotatedYet'
    BY <1>1, <1>2, <2>5, PresentedFrame, RotatedFrame, NotYetFrame
  <2>9. KeepsId'
    BY <1>1, <1>2, <2>5, KeepsFrame
  <2>10. NamedByMaker'
    <3>1. \A s \in Request : req'[s].client \in {None, DefaultId, s}
      BY <1>1, <2>1, <2>5 DEF NamedByMaker
    <3> QED
      BY <1>1, <3>1 DEF NamedByMaker
  <2>11. HandsOutNewId'
    BY <1>1, <2>2, <2>5 DEF HandsOutNewId
  <2> QED
    BY <1>1, <2>6, <2>7, <2>8, <2>9, <2>10, <2>11, AcceptedFrame DEF BranchInv, Lineage
<1> QED
  BY <1>3, <1>4 DEF ListClients

LEMMA RetainLineage ==
    ASSUME CredInv, BranchInv, NEW r \in Request, Retain(r)
    PROVE  BranchInv'
<1>1. /\ TypeOK /\ At(r, "visibility") /\ req[r] \in Asked /\ req[r].status = "open"
      /\ Lineage /\ IssuedSecretAccepted
      /\ rows' = rows /\ issued' = issued /\ retired' = retired
      /\ rotated' = rotated /\ branched' = branched
  BY AtFacts DEF CredInv, BranchInv, Retain, history
<1>2. /\ ~At(r, "find") /\ ~At(r, "insert") /\ ~At(r, "deactivate") /\ ~At(r, "clients")
      /\ SameTable
  BY <1>1 DEF At, SameTable
<1>3. PICK k \in BOOLEAN : req' = [req EXCEPT ![r] = Advance([req[r] EXCEPT !.keep = k])]
  <2>1. PICK o \in Outcome :
          req' = [req EXCEPT ![r] =
             Advance([req[r] EXCEPT !.keep = o = "answered" /\ Effective(r) = "always"])]
    BY <1>1 DEF Retain, TypeOK
  <2>2. (o = "answered" /\ Effective(r) = "always") \in BOOLEAN
    OBVIOUS
  <2> QED
    BY <2>1, <2>2
<1> DEFINE p == [req[r] EXCEPT !.keep = k]
<1>4. /\ p \in Asked /\ p.op = req[r].op /\ p.on = req[r].on /\ p.step = req[r].step
      /\ p.status = "open" /\ p.found = req[r].found /\ p.client = req[r].client
  <2>1. p \in Asked
    BY <1>1, Decided
  <2> QED
    BY <1>1, <2>1 DEF Asked
<1>5. req' = [req EXCEPT ![r] = Advance(p)]
  BY <1>3
<1> HIDE DEF p
<1>6. /\ req' \in [Request -> Asked] /\ Moved(r)
      /\ \A s \in Request \ {r} : req'[s] = req[s]
      /\ req'[r].found = req[r].found /\ req'[r].client = req[r].client
      /\ req'[r].status \in {"open", "ok"}
  BY <1>1, <1>4, <1>5, GoesOn
<1>7. NobodyTurnedAway
  BY <1>6 DEF NobodyTurnedAway
<1>8. Lineage'
  BY <1>1, <1>2, <1>6, Quiet
<1> QED
  BY <1>1, <1>7, <1>8, AcceptedFrame DEF BranchInv

LEMMA RevealLineage ==
    ASSUME CredInv, BranchInv, NEW r \in Request, Reveal(r)
    PROVE  BranchInv'
<1>1. /\ TypeOK /\ At(r, "visibility") /\ req[r].status = "open"
      /\ Lineage /\ IssuedSecretAccepted
      /\ rows' = rows /\ issued' = issued /\ retired' = retired
      /\ rotated' = rotated /\ branched' = branched
  BY AtFacts DEF CredInv, BranchInv, Reveal, history
<1>2. /\ ~At(r, "find") /\ ~At(r, "insert") /\ ~At(r, "deactivate") /\ ~At(r, "clients")
      /\ SameTable
  BY <1>1 DEF At, SameTable
<1>3. \E st \in {"ok", "refused", "error", "shown", "hidden"} : Stop(r, st)
  BY DEF Reveal
<1>4. /\ req' \in [Request -> Asked] /\ Moved(r) /\ NobodyTurnedAway
      /\ req'[r].found = req[r].found /\ req'[r].client = req[r].client
  BY <1>1, <1>3, Turns
<1>5. Lineage'
  BY <1>1, <1>2, <1>4, Quiet
<1> QED
  BY <1>1, <1>4, <1>5, AcceptedFrame DEF BranchInv

LEMMA SetServerLineage ==
    ASSUME CredInv, BranchInv, NEW r \in Request, SetServer(r)
    PROVE  BranchInv'
<1>1. /\ TypeOK /\ At(r, "setting") /\ req[r].status = "open"
      /\ Lineage /\ IssuedSecretAccepted
      /\ rows' = rows /\ issued' = issued /\ retired' = retired
      /\ rotated' = rotated /\ branched' = branched
  BY AtFacts DEF CredInv, BranchInv, SetServer
<1>2. /\ ~At(r, "find") /\ ~At(r, "insert") /\ ~At(r, "deactivate") /\ ~At(r, "clients")
      /\ SameTable
  BY <1>1 DEF At, SameTable
<1>3. GoOn(r) \/ \E st \in {"ok", "refused", "error", "shown", "hidden"} : Stop(r, st)
  BY DEF SetServer
<1>4. /\ req' \in [Request -> Asked] /\ Moved(r) /\ NobodyTurnedAway
      /\ req'[r].found = req[r].found /\ req'[r].client = req[r].client
  BY <1>1, <1>3, Turns
<1>5. Lineage'
  BY <1>1, <1>2, <1>4, Quiet
<1> QED
  BY <1>1, <1>4, <1>5, AcceptedFrame DEF BranchInv

LEMMA WriteLabelLineage ==
    ASSUME CredInv, BranchInv, NEW r \in Request, WriteLabel(r)
    PROVE  BranchInv'
<1> DEFINE c == req[r].on
           new == [rows[c] EXCEPT !.label = r]
<1>1. /\ TypeOK /\ At(r, "label") /\ c \in Cred /\ rows[c] \in Row /\ WellFormed(rows[c])
      /\ rows[c] # None /\ r \in Cred /\ req[r].status = "open"
      /\ Lineage /\ IssuedSecretAccepted
      /\ issued' = issued /\ retired' = retired /\ rotated' = rotated /\ branched' = branched
  BY HasFound, AtFacts DEF CredInv, BranchInv, WriteLabel, history, Changes, Cred
<1>2. /\ ~At(r, "find") /\ ~At(r, "insert") /\ ~At(r, "deactivate") /\ ~At(r, "clients")
  BY <1>1 DEF At
<1>3. rows' = rows \/ rows' = [rows EXCEPT ![c] = new]
  BY <1>1 DEF WriteLabel
<1>4. /\ new \in Row /\ WellFormed(new)
      /\ new.active = rows[c].active /\ new.type = rows[c].type /\ new.client = rows[c].client
  BY <1>1, RowUpdated DEF Row
<1> HIDE DEF new
<1>5. SameTable /\ \A d \in Cred : rows'[d].active = rows[d].active
  <2>1. CASE rows' = rows
    BY <2>1 DEF SameTable
  <2>2. CASE rows' = [rows EXCEPT ![c] = new]
    BY <1>1, <1>4, <2>2, Written DEF SameTable
  <2> QED
    BY <1>3, <2>1, <2>2
<1>6. GoOn(r) \/ \E st \in {"ok", "refused", "error", "shown", "hidden"} : Stop(r, st)
  BY DEF WriteLabel
<1>7. /\ req' \in [Request -> Asked] /\ Moved(r) /\ NobodyTurnedAway
      /\ req'[r].found = req[r].found /\ req'[r].client = req[r].client
  BY <1>1, <1>6, Turns
<1>8. Lineage'
  BY <1>1, <1>2, <1>5, <1>7, Quiet
<1> QED
  BY <1>1, <1>7, <1>8, AcceptedFrame DEF BranchInv

LEMMA PurgeLineage ==
    ASSUME CredInv, BranchInv, NEW r \in Request, Purge(r)
    PROVE  BranchInv'
<1>1. /\ TypeOK /\ At(r, "purge") /\ req[r].status = "open"
      /\ Lineage /\ IssuedSecretAccepted
      /\ issued' = issued /\ retired' = retired /\ rotated' = rotated /\ branched' = branched
  BY AtFacts DEF CredInv, BranchInv, Purge
<1>2. /\ ~At(r, "find") /\ ~At(r, "insert") /\ ~At(r, "deactivate") /\ ~At(r, "clients")
  BY <1>1 DEF At
<1>3. rows' = rows \/ rows' = Purged
  BY DEF Purge
<1>4. SameTable /\ \A d \in Cred : rows'[d].active = rows[d].active
  <2>1. CASE rows' = rows
    BY <2>1 DEF SameTable
  <2>2. CASE rows' = Purged
    <3>1. \A d \in Cred : rows'[d] = IF rows[d] = None THEN None ELSE [rows[d] EXCEPT !.kept = FALSE]
      BY <2>2 DEF Purged
    <3>2. ASSUME NEW d \in Cred, rows[d] # None
          PROVE  /\ rows'[d] # None
                 /\ rows'[d].type = rows[d].type /\ rows'[d].client = rows[d].client
                 /\ rows'[d].active = rows[d].active
      <4>1. rows[d] \in Row /\ WellFormed(rows[d]) /\ rows'[d] = [rows[d] EXCEPT !.kept = FALSE]
            /\ d \in Cred
        BY <1>1, <3>1, <3>2 DEF TypeOK
      <4>2. rows'[d] \in Row
        BY <4>1, RowUpdated
      <4> QED
        BY <4>1, <4>2, CredentialAssumption DEF Row
    <3> QED
      BY <3>1, <3>2 DEF SameTable
  <2> QED
    BY <1>3, <2>1, <2>2
<1>5. GoOn(r) \/ \E st \in {"ok", "refused", "error", "shown", "hidden"} : Stop(r, st)
  BY DEF Purge
<1>6. /\ req' \in [Request -> Asked] /\ Moved(r) /\ NobodyTurnedAway
      /\ req'[r].found = req[r].found /\ req'[r].client = req[r].client
  BY <1>1, <1>5, Turns
<1>7. Lineage'
  BY <1>1, <1>2, <1>4, <1>6, Quiet
<1> QED
  BY <1>1, <1>6, <1>7, AcceptedFrame DEF BranchInv

\* A query that marks the others turns nobody away.
LEMMA MarkingTurnsNobodyAway ==
    ASSUME TypeOK, NEW r \in Request, NEW q, At(r, q), req' \in [Request -> Asked],
           \/ req'[r] = Advance(req[r])
           \/ req'[r] = [req[r] EXCEPT !.status = "refused", !.step = 0]
           \/ req'[r] = [req[r] EXCEPT !.status = "ok", !.step = 0],
           \A s \in Request \ {r} : \/ req'[s] = req[s]
                                   \/ req'[s] = [req[s] EXCEPT !.stale = TRUE]
                                   \/ req'[s] = [req[s] EXCEPT !.dead = FALSE]
    PROVE  NobodyTurnedAway
<1>1. /\ req[r] \in Asked /\ req[r].status = "open"
      /\ req[r].step \in 1..Len(Plan[req[r].op]) /\ Len(Plan[req[r].op]) \in 1..4
  BY AtFacts
<1>2. req'[r].status # "rejected"
  <2>1. CASE req'[r] = Advance(req[r])
    BY <1>1, <2>1, AdvanceFacts
  <2>2. CASE req'[r] = [req[r] EXCEPT !.status = "refused", !.step = 0]
    BY <1>1, <2>2 DEF Asked
  <2>3. CASE req'[r] = [req[r] EXCEPT !.status = "ok", !.step = 0]
    BY <1>1, <2>3 DEF Asked
  <2> QED
    BY <2>1, <2>2, <2>3
<1>3. ASSUME NEW s \in Request \ {r}
      PROVE  req'[s].status = req[s].status /\ req'[s].excuse = req[s].excuse
  <2>1. req[s] \in Asked
    BY DEF TypeOK
  <2> QED
    BY <2>1 DEF Asked
<1> QED
  BY <1>2, <1>3 DEF NobodyTurnedAway

LEMMA WriteMetadataLineage ==
    ASSUME CredInv, BranchInv, NEW r \in Request, WriteMetadata(r)
    PROVE  BranchInv'
<1> DEFINE c == req[r].on
           put == req[r].op = "put"
           new == [rows[c] EXCEPT !.trust = NewTrust(r)]
<1>1. /\ TypeOK /\ At(r, "metadata") /\ c \in Cred /\ rows[c] \in Row /\ WellFormed(rows[c])
      /\ rows[c] # None /\ r \in Cred /\ req[r].status = "open"
      /\ req[r].found \in Row /\ WellFormed(req[r].found)
      /\ Suits(req[r].op, req[r].found.type) /\ rows[c].type = req[r].found.type
      /\ Lineage /\ IssuedSecretAccepted
      /\ issued' = issued /\ retired' = retired /\ rotated' = rotated /\ branched' = branched
  BY HasFound, AtFacts DEF CredInv, BranchInv, WriteMetadata, Changes, Cred
<1>2. /\ ~At(r, "find") /\ ~At(r, "insert") /\ ~At(r, "deactivate") /\ ~At(r, "clients")
      /\ req[r].op \in {"put", "verify"}
  BY <1>1, AtFacts DEF At, Ordered
<1>3. PICK o \in Outcome, relabel \in BOOLEAN :
        /\ rows' = IF o = "failed" THEN rows ELSE [rows EXCEPT ![c] = new]
        /\ req' = [s \in Request |->
             CASE s = r /\ put /\ o = "answered" /\ relabel -> Advance(req[r])
               [] s = r /\ put /\ o # "answered" ->
                    [req[r] EXCEPT !.status = "refused", !.step = 0]
               [] s # r /\ put /\ o # "failed" /\ req[s].on = c /\ At(s, "metadata") ->
                    [req[s] EXCEPT !.stale = TRUE]
               [] s = r /\ (~put \/ (o = "answered" /\ ~relabel)) ->
                    [req[r] EXCEPT !.status = "ok", !.step = 0]
               [] OTHER -> req[s]]
  BY <1>1 DEF WriteMetadata
<1>4. /\ new \in Row /\ WellFormed(new)
      /\ new.active = rows[c].active /\ new.type = rows[c].type /\ new.client = rows[c].client
  <2>1. rows[c].type = "wif"
    BY <1>1, <1>2 DEF Suits
  <2>2. NewTrust(r) \in Cred
    BY <1>1, <1>2, <2>1 DEF NewTrust, WellFormed, Row
  <2>3. new \in Row /\ WellFormed(new)
    BY <1>1, <2>1, <2>2, RowUpdated
  <2> QED
    BY <1>1, <2>2, <2>3 DEF Row
<1> HIDE DEF new
<1>5. SameTable /\ \A d \in Cred : rows'[d].active = rows[d].active
  <2>1. CASE rows' = rows
    BY <2>1 DEF SameTable
  <2>2. CASE rows' = [rows EXCEPT ![c] = new]
    BY <1>1, <1>4, <2>2, Written DEF SameTable
  <2> QED
    BY <1>3, <2>1, <2>2
<1>6. /\ req' = [s \in Request |-> req'[s]]
      /\ \/ req'[r] = Advance(req[r])
         \/ req'[r] = [req[r] EXCEPT !.status = "refused", !.step = 0]
         \/ req'[r] = [req[r] EXCEPT !.status = "ok", !.step = 0]
      /\ \A s \in Request \ {r} :
            req'[s] = IF put /\ o # "failed" /\ req[s].on = c /\ At(s, "metadata")
                      THEN [req[s] EXCEPT !.stale = TRUE] ELSE req[s]
  BY <1>3
<1>7. /\ req' \in [Request -> Asked] /\ Moved(r)
      /\ req'[r].found = req[r].found /\ req'[r].client = req[r].client
  BY <1>1, <1>6, Marking
<1>8. NobodyTurnedAway
  BY <1>1, <1>6, <1>7, MarkingTurnsNobodyAway
<1>9. Lineage'
  BY <1>1, <1>2, <1>5, <1>7, Quiet
<1> QED
  BY <1>1, <1>8, <1>9, AcceptedFrame DEF BranchInv

LEMMA ReactivateLineage ==
    ASSUME CredInv, BranchInv, NEW r \in Request, Reactivate(r)
    PROVE  BranchInv'
<1> DEFINE c == req[r].on
           new == [rows[c] EXCEPT !.active = TRUE]
<1>1. /\ TypeOK /\ At(r, "reactivate") /\ c \in Cred /\ rows[c] \in Row /\ WellFormed(rows[c])
      /\ rows[c] # None /\ req[r].status = "open" /\ Prepared /\ FoundStands
      /\ InactiveAreRetired /\ Presented /\ NamedByMaker /\ HandsOutNewId
      /\ KeepsId /\ OneCurrent /\ RotatedOut /\ NotRotatedYet /\ IssuedSecretAccepted
      /\ issued' = issued /\ rotated' = rotated
  BY HasFound, AtFacts DEF CredInv, BranchInv, Lineage, Reactivate, Changes
<1>2. /\ ~At(r, "find") /\ ~At(r, "insert") /\ ~At(r, "deactivate") /\ ~At(r, "clients")
  BY <1>1 DEF At
<1>3. PICK o \in Outcome :
        /\ rows' = IF o = "failed" THEN rows ELSE [rows EXCEPT ![c] = new]
        /\ retired' = IF o = "failed" THEN retired ELSE retired \ {c}
        /\ branched' = IF o # "failed" /\ c \in rotated
                       THEN branched \cup {rows[c].client} ELSE branched
        /\ req' = [s \in Request |->
             CASE s = r -> IF o = "answered" THEN Advance(req[r])
                           ELSE [req[r] EXCEPT !.status = "refused", !.step = 0]
               [] s # r /\ o # "failed" /\ req[s].on = c -> [req[s] EXCEPT !.dead = FALSE]
               [] OTHER -> req[s]]
  BY <1>1 DEF Reactivate
<1>4. /\ new \in Row /\ WellFormed(new) /\ new.active
      /\ new.type = rows[c].type /\ new.client = rows[c].client
  BY <1>1, RowUpdated DEF Row
<1> HIDE DEF new
<1>5. /\ SameTable
      /\ \A d \in Cred : d # c \/ o = "failed" => rows'[d] = rows[d]
      /\ o # "failed" => rows'[c].active
  <2>1. CASE o = "failed"
    BY <1>3, <2>1 DEF SameTable
  <2>2. CASE o # "failed"
    BY <1>1, <1>3, <1>4, <2>2, Written DEF SameTable
  <2> QED
    BY <2>1, <2>2
<1>6. /\ req' = [s \in Request |-> req'[s]]
      /\ req'[r] = Advance(req[r]) \/ req'[r] = [req[r] EXCEPT !.status = "refused", !.step = 0]
      /\ \A s \in Request \ {r} :
            req'[s] = IF o # "failed" /\ req[s].on = c
                      THEN [req[s] EXCEPT !.dead = FALSE] ELSE req[s]
  BY <1>3
<1>7. /\ req' \in [Request -> Asked] /\ Moved(r)
      /\ req'[r].found = req[r].found /\ req'[r].client = req[r].client
  BY <1>1, <1>6, Marking
<1>8. NobodyTurnedAway
  BY <1>1, <1>6, <1>7, MarkingTurnsNobodyAway
<1>9. InactiveAreRetired'
  BY <1>1, <1>3, <1>5 DEF InactiveAreRetired
<1>10. branched \subseteq branched' /\ req[r].status # "new"
  BY <1>1, <1>3
<1>11. Presented' /\ NamedByMaker' /\ HandsOutNewId' /\ NotRotatedYet'
  BY <1>1, <1>2, <1>5, <1>7, <1>10, PresentedFrame, NamedFrame, HandsFrame, NotYetFrame
  DEF SameTable
<1>12. KeepsId'
  BY <1>1, <1>2, <1>5, <1>7, KeepsFrame DEF SameTable
<1>13. OneCurrent'
  BY <1>1, <1>5, <1>10, CurrentFrame
<1>14. RotatedOut'
  <2>1. \A d \in rotated \cap retired : d \in retired' \/ rows[d].client \in branched'
    BY <1>3
  <2> QED
    BY <1>1, <1>2, <1>5, <1>7, <1>10, <2>1, RotatedFrame
<1> QED
  BY <1>1, <1>8, <1>9, <1>11, <1>12, <1>13, <1>14, AcceptedFrame DEF BranchInv, Lineage

LEMMA DeactivateLineage ==
    ASSUME CredInv, BranchInv, NEW r \in Request, Deactivate(r)
    PROVE  BranchInv'
<1> DEFINE c == req[r].on
           new == [rows[c] EXCEPT !.active = FALSE]
<1>1. /\ TypeOK /\ At(r, "deactivate") /\ c \in Cred /\ rows[c] \in Row /\ WellFormed(rows[c])
      /\ rows[c] # None /\ req[r].status = "open" /\ Prepared /\ FoundStands
      /\ InactiveAreRetired /\ Presented /\ NamedByMaker /\ HandsOutNewId
      /\ KeepsId /\ OneCurrent /\ RotatedOut /\ NotRotatedYet /\ IssuedSecretAccepted
      /\ rotated' = rotated
  BY HasFound, AtFacts DEF CredInv, BranchInv, Lineage, Deactivate, Changes
<1>2. /\ ~At(r, "find") /\ ~At(r, "insert") /\ ~At(r, "clients")
      /\ (req[r].op = "revoke" \/ (req[r].op = "rotate" /\ req[r].step = 4))
  BY <1>1, AtFacts DEF At, Ordered
<1>3. PICK o \in Outcome :
        /\ rows' = IF o = "failed" THEN rows ELSE [rows EXCEPT ![c] = new]
        /\ retired' = IF o = "failed" THEN retired ELSE retired \cup {c}
        /\ branched' = IF o = "failed" /\ req[r].op = "rotate"
                       THEN branched \cup {req[r].found.client} ELSE branched
  BY <1>1 DEF Deactivate
<1>4. GoOn(r) /\ issued' = IF req[r].op = "rotate" THEN issued \cup {r} ELSE issued
  BY DEF Deactivate
<1>5. /\ new \in Row /\ WellFormed(new) /\ ~new.active
      /\ new.type = rows[c].type /\ new.client = rows[c].client
  BY <1>1, RowUpdated DEF Row
<1> HIDE DEF new
<1>6. SameTable /\ \A d \in Cred : d # c \/ o = "failed" => rows'[d] = rows[d]
  <2>1. CASE o = "failed"
    BY <1>3, <2>1 DEF SameTable
  <2>2. CASE o # "failed"
    BY <1>1, <1>3, <1>5, <2>2, Written DEF SameTable
  <2> QED
    BY <2>1, <2>2
<1>7. /\ req' \in [Request -> Asked] /\ Moved(r) /\ NobodyTurnedAway
      /\ req'[r].found = req[r].found /\ req'[r].client = req[r].client
      /\ \A s \in Request \ {r} : req'[s] = req[s]
  BY <1>1, <1>4, Turns
<1>8. InactiveAreRetired'
  BY <1>1, <1>3, <1>6 DEF InactiveAreRetired
<1>9. Presented' /\ NamedByMaker' /\ HandsOutNewId' /\ NotRotatedYet'
  <2>1. issued' = issued \/ issued' = issued \cup {r}
    BY <1>4
  <2>2. issued \subseteq issued' /\ branched \subseteq branched' /\ req[r].status # "new"
    BY <1>1, <1>3, <1>4
  <2> QED
    BY <1>1, <1>2, <1>6, <1>7, <2>1, <2>2, PresentedFrame, NamedFrame, HandsFrame, NotYetFrame
    DEF SameTable
<1>10. KeepsId'
  BY <1>1, <1>2, <1>6, <1>7, KeepsFrame DEF SameTable
<1>11. OneCurrent'
  <2>1. branched \subseteq branched'
    BY <1>3
  <2> QED
    BY <1>1, <1>6, <2>1, CurrentFrame
<1>12. RotatedOut'
  <2> SUFFICES ASSUME NEW d \in rotated, rows'[d].client # None, rows'[d].client \notin branched'
               PROVE  d \in retired' \/ \E s \in Request : Superseding(s, d)'
    BY <1>1 DEF RotatedOut
  <2>1. d \in Cred /\ rows[d].client = rows'[d].client /\ rows[d].client \notin branched
    BY <1>1, <1>3, <1>6 DEF TypeOK, SameTable
  <2>2. CASE d \in retired
    BY <1>3, <2>2
  <2>3. ASSUME NEW s \in Request, Superseding(s, d), s # r
        PROVE  Superseding(s, d)'
    BY <1>7, <2>3 DEF Superseding
  <2>4. CASE Superseding(r, d)
    <3>1. d = c /\ req[r].op = "rotate" /\ req[r].step = 4
      BY <2>4 DEF Superseding
    <3>2. req[r].found.client = rows[c].client
      BY <1>1, <3>1 DEF KeepsId
    <3>3. o # "failed"
      BY <1>3, <2>1, <3>1, <3>2
    <3> QED
      BY <1>3, <3>1, <3>3
  <2> QED
    BY <1>1, <2>1, <2>2, <2>3, <2>4 DEF RotatedOut
<1> QED
  BY <1>1, <1>7, <1>8, <1>9, <1>10, <1>11, <1>12, AcceptedFrame DEF BranchInv, Lineage

\* What is inserted is active, and has a client id of its own, or that of what it
\* replaces.
LEMMA NewRowId ==
    ASSUME CredInv, Lineage, NEW r \in Request, At(r, "insert")
    PROVE  /\ NewRow(r).active
           /\ req[r].op = "rotate" => /\ NewRow(r).client = req[r].found.client
                                      /\ NewRow(r).client = rows[req[r].on].client
                                      /\ req[r].step = 3
           /\ req[r].op # "rotate" => /\ NewRow(r).client = req[r].client
                                      /\ NewRow(r).client \in {None, DefaultId, r}
           /\ req[r].op = "oauth_client" => req[r].step = 3 /\ NewRow(r).client # None
           /\ req[r].op \notin {"rotate", "oauth_client"} => NewRow(r).client = None
<1>1. /\ TypeOK /\ req[r] \in Asked /\ req[r].status = "open" /\ Prepared /\ FoundStands
      /\ KeepsId /\ NamedByMaker
      /\ req[r].step \in 1..Len(Plan[req[r].op])
      /\ Plan[req[r].op][req[r].step] = "insert"
      /\ Ordered(req[r].op, Plan[req[r].op], req[r].step, "insert")
  BY AtFacts DEF CredInv, Lineage
<1>2. CASE req[r].op = "rotate"
  <2>1. req[r].step = 3 /\ Plan[req[r].op][1] = "find"
    BY <1>1, <1>2 DEF Ordered
  <2>2. req[r].found # None /\ req[r].found \in Row
        /\ req[r].found.client = rows[req[r].on].client
    BY <1>1, <1>2, <2>1 DEF FoundStands, KeepsId, Asked
  <2>3. NewRow(r) = [req[r].found EXCEPT !.active = TRUE, !.kept = req[r].keep]
    BY <1>2 DEF NewRow
  <2>4. NewRow(r).active /\ NewRow(r).client = req[r].found.client
    BY <2>2, <2>3 DEF Row
  <2> QED
    BY <1>2, <2>1, <2>2, <2>4
<1>3. CASE req[r].op # "rotate"
  <2>1. NewRow(r).active /\ NewRow(r).client = req[r].client
    BY <1>3 DEF NewRow
  <2>2. req[r].client \in {None, DefaultId, r}
    BY <1>1 DEF NamedByMaker
  <2>3. req[r].op = "oauth_client" => req[r].step = 3
    <3>1. Plan["oauth_client"] = <<"clients", "visibility", "insert">>
      BY DEF Plan
    <3>2. req[r].op = "oauth_client" => req[r].step \in 1..3
      BY <1>1, <3>1
    <3> QED
      BY <1>1, <3>1, <3>2
  <2>4. req[r].op = "oauth_client" => req[r].client # None
    BY <1>1, <2>3 DEF Prepared
  <2>5. req[r].op # "oauth_client" => req[r].client = None
    BY <1>1 DEF Prepared
  <2> QED
    BY <1>3, <2>1, <2>2, <2>3, <2>4, <2>5
<1> QED
  BY <1>2, <1>3

LEMMA InsertLineage ==
    ASSUME CredInv, BranchInv, NEW r \in Request, Insert(r)
    PROVE  BranchInv'
<1> DEFINE new == NewRow(r)
           on == req[r].on
           rotates == req[r].op = "rotate"
<1>1. /\ TypeOK /\ At(r, "insert") /\ new \in Row /\ WellFormed(new) /\ r \in Cred
      /\ rows[r] = None /\ (rotates => rows[on] # None) /\ on \in Cred
      /\ req[r].status = "open" /\ Prepared /\ FoundStands
      /\ InactiveAreRetired /\ Presented /\ NamedByMaker /\ HandsOutNewId
      /\ KeepsId /\ OneCurrent /\ RotatedOut /\ NotRotatedYet
      /\ Lineage /\ IssuedSecretAccepted /\ retired' = retired
  BY NewRowFacts, AtFacts DEF CredInv, BranchInv, Lineage, Insert, Cred, Asked
<1>2. /\ ~At(r, "find") /\ ~At(r, "clients") /\ ~At(r, "deactivate")
  BY <1>1 DEF At
<1>3. PICK o \in Outcome :
        /\ IF o = "answered" THEN GoOn(r) ELSE Stop(r, "error")
        /\ rows' = IF o = "failed" THEN rows ELSE [rows EXCEPT ![r] = new]
        /\ issued' = IF o = "answered" /\ req[r].op \in {"bearer", "oauth_client"}
                     THEN issued \cup {r} ELSE issued
        /\ rotated' = IF o # "failed" /\ rotates THEN rotated \cup {on} ELSE rotated
        /\ branched' = IF o # "failed"
                          /\ ((IF rotates THEN on \in rotated \/ Unfinished(on)
                                          ELSE SharesId(r))
                              \/ (rotates /\ o = "lost"))
                       THEN branched \cup {new.client} ELSE branched
  BY <1>1 DEF Insert
<1>4. /\ req' \in [Request -> Asked] /\ Moved(r) /\ NobodyTurnedAway
      /\ \A s \in Request \ {r} : req'[s] = req[s]
      /\ req'[r].found = req[r].found /\ req'[r].client = req[r].client
      /\ o # "answered" => req'[r].status # "open"
  <2>1. GoOn(r) \/ \E st \in {"ok", "refused", "error", "shown", "hidden"} : Stop(r, st)
    BY <1>3
  <2>2. o # "answered" => \E st \in {"ok", "refused", "error", "shown", "hidden"} : Stop(r, st)
    BY <1>3
  <2> QED
    BY <1>1, <2>1, <2>2, Turns
<1>5. CASE o = "failed"
  <2>1. /\ SameTable /\ \A c \in Cred : rows'[c].active = rows[c].active
        /\ issued' = issued /\ rotated' = rotated /\ branched' = branched
        /\ req'[r].status # "open" /\ req[r].status # "new"
    BY <1>1, <1>3, <1>4, <1>5 DEF SameTable
  <2>2. Lineage'
    BY <1>1, <1>2, <1>4, <2>1, Quiet
  <2> QED
    BY <1>1, <1>4, <2>2, AcceptedFrame DEF BranchInv
<1>6. CASE o # "failed"
  <2>1. /\ rows' \in [Cred -> Row \cup {None}]
        /\ rows'[r] = new /\ new # None /\ \A d \in Cred : d # r => rows'[d] = rows[d]
    BY <1>1, <1>3, <1>6, Written
  <2>2. /\ new.active
        /\ rotates => /\ new.client = req[r].found.client /\ new.client = rows[on].client
                      /\ req[r].step = 3
        /\ ~rotates => new.client = req[r].client /\ new.client \in {None, DefaultId, r}
        /\ req[r].op = "oauth_client" => req[r].step = 3 /\ new.client # None
        /\ req[r].op \notin {"rotate", "oauth_client"} => new.client = None
    BY <1>1, NewRowId
  <2> HIDE DEF new
  <2>3. /\ branched \subseteq branched' /\ issued \subseteq issued'
        /\ issued' \subseteq issued \cup {r}
        /\ rotates => issued' = issued
        /\ rotated' = IF rotates THEN rotated \cup {on} ELSE rotated
        /\ rotates /\ (on \in rotated \/ Unfinished(on) \/ o = "lost") =>
              new.client \in branched'
        /\ ~rotates /\ SharesId(r) => new.client \in branched'
    BY <1>3, <1>6
  <2>4. rotates => r \notin issued /\ r \notin rotated /\ on # r
    BY <1>1 DEF TypeOK
  <2>5. InactiveAreRetired'
    BY <1>1, <2>1, <2>2 DEF InactiveAreRetired
  <2>6. Presented'
    <3>1. \A c \in Cred : rows[c] # None => rows'[c].type = rows[c].type
      BY <1>1, <2>1
    <3>2. req[r].status # "new"
      BY <1>1
    <3> QED
      BY <1>1, <1>4, <2>3, <3>1, <3>2, PresentedFrame
  <2>7. NamedByMaker'
    <3>1. ASSUME NEW c \in Cred, rows'[c] # None, rows'[c].client \in Request
          PROVE  rows'[rows'[c].client] # None
      <4> DEFINE k == rows'[c].client
      <4>1. k \in Cred /\ k # None /\ k # DefaultId
        BY <3>1, CredentialAssumption DEF Cred
      <4>2. k = r \/ rows[k] # None
        <5>1. CASE c # r
          BY <1>1, <2>1, <3>1, <5>1 DEF NamedByMaker
        <5>2. CASE c = r /\ rotates
          BY <1>1, <2>1, <2>2, <3>1, <5>2 DEF NamedByMaker
        <5>3. CASE c = r /\ ~rotates
          BY <2>1, <2>2, <4>1, <5>3
        <5> QED
          BY <5>1, <5>2, <5>3
      <4> QED
        BY <2>1, <4>1, <4>2
    <3>2. \A s \in Request : req'[s].client \in {None, DefaultId, s}
      BY <1>1, <1>4 DEF NamedByMaker
    <3> QED
      BY <3>1, <3>2 DEF NamedByMaker
  <2>8. HandsOutNewId'
    <3> SUFFICES ASSUME NEW s \in Request, req'[s].op = "oauth_client", req'[s].status = "open",
                        req'[s].step > 1, NEW c \in Cred, rows'[c] # None,
                        rows'[c].client = req'[s].client
                 PROVE  rows'[c].client \in branched'
      BY DEF HandsOutNewId
    <3>1. s # r
      <4>1. SUFFICES ASSUME s = r
                     PROVE  FALSE
        OBVIOUS
      <4>2. req[r].op = "oauth_client" /\ req'[r].step = req[r].step + 1
        BY <1>1, <1>4, <4>1, Pace
      <4>3. req'[r].step <= Len(Plan[req[r].op]) /\ req[r].step = 3
        BY <1>1, <1>4, <2>2, <4>1, <4>2 DEF Moved
      <4>4. Len(Plan["oauth_client"]) = 3
        BY DEF Plan
      <4> QED
        BY <4>2, <4>3, <4>4
    <3>2. /\ req[s].op = "oauth_client" /\ req[s].status = "open" /\ req[s].step > 1
          /\ req'[s].client = req[s].client /\ req[s].client # None
      BY <1>1, <1>4, <3>1 DEF Prepared
    <3>3. CASE c # r
      BY <1>1, <2>1, <2>3, <3>2, <3>3 DEF HandsOutNewId
    <3>4. CASE c = r /\ rotates
      BY <1>1, <2>1, <2>2, <2>3, <3>2, <3>4 DEF HandsOutNewId
    <3>5. CASE c = r /\ ~rotates
      <4>1. SharesId(r)
        BY <2>1, <2>2, <3>1, <3>2, <3>5 DEF SharesId
      <4> QED
        BY <2>1, <2>3, <3>5, <4>1
    <3> QED
      BY <3>3, <3>4, <3>5
  <2>9. KeepsId'
    <3>1. \A c \in Cred : rows[c] # None => rows'[c].client = rows[c].client
      BY <1>1, <2>1
    <3>2. rotates => rows'[r].client = req[r].found.client
      BY <2>1, <2>2
    <3> QED
      BY <1>1, <1>2, <1>4, <3>1, <3>2, KeepsFrame
  <2>10. ASSUME NEW e \in Cred, e # r, rows[e] # None, rows[e].client = new.client,
                new.client # None, new.client \notin branched'
         PROVE  e \in rotated'
    <3>1. CASE rotates
      <4>1. CASE e = on
        BY <2>3, <3>1, <4>1
      <4>2. CASE e # on
        <5>1. SameId(rows, e, on) /\ rows[e].client \notin branched
          BY <1>1, <2>2, <2>3, <2>10, <3>1, <4>2 DEF SameId
        <5>2. e \in rotated
          BY <1>1, <2>3, <2>10, <3>1, <5>1 DEF OneCurrent
        <5> QED
          BY <2>3, <5>2
      <4> QED
        BY <4>1, <4>2
    <3>2. CASE ~rotates
      <4>1. req[r].op = "oauth_client" /\ req[r].step > 1 /\ new.client = req[r].client
        BY <2>2, <2>10, <3>2
      <4> QED
        BY <1>1, <2>3, <2>10, <4>1 DEF HandsOutNewId
    <3> QED
      BY <3>1, <3>2
  <2>11. OneCurrent'
    <3> SUFFICES ASSUME NEW c \in Cred, NEW d \in Cred, SameId(rows', c, d),
                        rows'[c].client \notin branched'
                 PROVE  c \in rotated' \/ d \in rotated'
      BY DEF OneCurrent, SameId
    <3>1. /\ c # d /\ rows'[c] # None /\ rows'[d] # None /\ rows'[c].client # None
          /\ rows'[c].client = rows'[d].client
      BY DEF SameId
    <3>2. CASE c = r
      BY <2>1, <2>10, <3>1, <3>2
    <3>3. CASE d = r
      BY <2>1, <2>10, <3>1, <3>3
    <3>4. CASE c # r /\ d # r
      <4>1. SameId(rows, c, d) /\ rows[c].client \notin branched
        BY <2>1, <2>3, <3>1, <3>4 DEF SameId
      <4> QED
        BY <1>1, <2>3, <4>1 DEF OneCurrent
    <3> QED
      BY <3>2, <3>3, <3>4
  <2>12. RotatedOut'
    <3> SUFFICES ASSUME NEW c \in rotated', rows'[c].client # None,
                        rows'[c].client \notin branched'
                 PROVE  c \in retired' \/ \E s \in Request : Superseding(s, c)'
      BY DEF RotatedOut
    <3>1. CASE c \in rotated
      <4>1. c \in Cred /\ rows[c] # None /\ c # r
        BY <1>1, <3>1 DEF TypeOK
      <4>2. rows[c].client = rows'[c].client /\ rows[c].client \notin branched
        BY <2>1, <2>3, <4>1
      <4>3. ASSUME NEW s \in Request, Superseding(s, c)
            PROVE  Superseding(s, c)'
        <5>1. s # r
          BY <2>2, <4>3 DEF Superseding
        <5> QED
          BY <1>4, <4>3, <5>1 DEF Superseding
      <4> QED
        BY <1>1, <3>1, <4>2, <4>3 DEF RotatedOut
    <3>2. CASE rotates /\ c = on
      <4>1. rows'[c].client = new.client
        BY <1>1, <2>1, <2>2, <3>2
      <4>2. o = "answered"
        BY <1>6, <2>3, <3>2, <4>1 DEF Outcome
      <4>3. req' = [req EXCEPT ![r] = Advance(req[r])]
        BY <1>3, <4>2 DEF GoOn
      <4>4. Advance(req[r]) = [req[r] EXCEPT !.step = 4]
        <5>1. Len(Plan["rotate"]) = 4
          BY DEF Plan
        <5> QED
          BY <2>2, <3>2, <5>1 DEF Advance
      <4>5. Superseding(r, c)'
        BY <1>1, <3>2, <4>3, <4>4 DEF Superseding, TypeOK, Asked
      <4> QED
        BY <4>5
    <3> QED
      BY <2>3, <3>1, <3>2
  <2>13. NotRotatedYet'
    <3> SUFFICES ASSUME NEW s \in Request, req'[s].op = "rotate", req'[s].status = "open",
                        req'[s].step = 4
                 PROVE  s \notin issued' /\ (s \in rotated' => rows'[s].client \in branched')
      BY DEF NotRotatedYet
    <3>1. CASE s = r
      <4>1. rotates
        BY <1>4, <3>1 DEF Moved
      <4> QED
        BY <2>3, <2>4, <3>1, <4>1
    <3>2. CASE s # r
      <4>1. req[s].op = "rotate" /\ req[s].status = "open" /\ req[s].step = 4 /\ s \in Cred
        BY <1>4, <3>2 DEF Cred
      <4>2. s \notin issued' /\ (s \in rotated => rows[s].client \in branched)
        BY <1>1, <2>3, <3>2, <4>1 DEF NotRotatedYet
      <4>3. rows'[s] = rows[s]
        BY <2>1, <3>2, <4>1
      <4>4. CASE rotates /\ s = on
        <5>1. Unfinished(on)
          BY <4>1, <4>4 DEF Unfinished
        <5> QED
          BY <2>2, <2>3, <4>2, <4>3, <4>4, <5>1
      <4>5. CASE ~(rotates /\ s = on)
        BY <2>3, <4>2, <4>3, <4>5
      <4> QED
        BY <4>4, <4>5
    <3> QED
      BY <3>1, <3>2
  <2> QED
    BY <1>1, <1>4, <2>5, <2>6, <2>7, <2>8, <2>9, <2>11, <2>12, <2>13, AcceptedFrame
    DEF BranchInv, Lineage
<1> QED
  BY <1>5, <1>6

\* A secret that is turned away has an excuse: otherwise its credential is active,
\* and the only one of its client id that is.
LEMMA LookUpLineage ==
    ASSUME CredInv, BranchInv, NEW r \in Request, LookUp(r)
    PROVE  BranchInv'
<1> DEFINE c == req[r].on
           usable == {d \in Cred : rows[d] # None /\ rows[d].active}
           same == {d \in usable : rows[d].type = "oauth_client" /\ rows[d].client = rows[c].client}
           matches == IF req[r].op = "mint"
                      THEN {d = c : d \in same} \cup (IF same = {} THEN {FALSE} ELSE {})
                      ELSE {c \in usable}
           status(o, match) == CASE o = "answered" /\ match -> "accepted"
                                 [] o # "answered" /\ req[r].op = "mint" -> "error"
                                 [] OTHER -> "rejected"
           excuse(o) == CASE Leaving(c) -> "revoked"
                          [] ~Leaving(c) /\ o # "answered" -> "failed"
                          [] ~Leaving(c) /\ o = "answered" /\ req[r].op = "mint"
                               /\ rows[c].client \in branched -> "branched"
                          [] OTHER -> "none"
<1>1. /\ TypeOK /\ At(r, "active") /\ req[r] \in Asked /\ req[r].status = "open" /\ c \in Cred
      /\ req[r].op \in {"authenticate", "mint"} /\ req[r].status # "new"
      /\ InactiveAreRetired /\ Presented /\ OneCurrent /\ RotatedOut /\ NotRotatedYet
      /\ KeepsId /\ RetiredAreOff
      /\ Lineage /\ IssuedSecretAccepted
      /\ rows' = rows /\ issued' = issued /\ retired' = retired
      /\ rotated' = rotated /\ branched' = branched
  BY AtFacts DEF CredInv, BranchInv, Lineage, LookUp, history, Asked, Ordered
<1>2. /\ ~At(r, "find") /\ ~At(r, "insert") /\ ~At(r, "deactivate") /\ ~At(r, "clients")
      /\ SameTable
  BY <1>1 DEF At, SameTable
<1>3. PICK o \in Outcome, match \in matches :
        req' = [req EXCEPT ![r].step = 0, ![r].status = status(o, match), ![r].excuse = excuse(o)]
  BY DEF LookUp
<1> DEFINE st == status(o, match)
           ex == excuse(o)
           p == [req[r] EXCEPT !.step = 0, !.status = st, !.excuse = ex]
<1>4. st \in {"error", "accepted", "rejected"} /\ (st = "rejected" /\ o = "answered" => ~match)
  OBVIOUS
<1>5. ex \in Excuse /\ (ex = "none" => /\ ~Leaving(c) /\ o = "answered"
                                        /\ ~(req[r].op = "mint" /\ rows[c].client \in branched))
  BY DEF Excuse
<1>6. c \in issued /\ rows[c] # None /\ rows[c] \in Row /\ WellFormed(rows[c])
      /\ (req[r].op = "mint" => rows[c].type = "oauth_client")
  BY <1>1 DEF Presented, TypeOK
<1>7. ~match /\ ex = "none" => FALSE
  <2> SUFFICES ASSUME ~match, ex = "none"
               PROVE  FALSE
    OBVIOUS
  <2>1. ~Leaving(c) /\ (req[r].op = "mint" => rows[c].client \notin branched)
    BY <1>5
  <2> HIDE DEF ex, st, p
  <2>2. c \notin retired /\ c \in usable
    BY <1>1, <1>6, <2>1 DEF Leaving, InactiveAreRetired
  <2>3. req[r].op = "mint" /\ c \in same
    BY <1>1, <1>6, <2>2
  <2>4. PICK d \in same : d # c
    BY <2>3
  <2>5. /\ d \in Cred /\ rows[d] # None /\ rows[d].active
        /\ rows[d].client = rows[c].client /\ rows[c].client # None
        /\ rows[c].client \notin branched
    BY <1>6, <2>1, <2>3, <2>4 DEF WellFormed
  <2>6. c \notin rotated
    <3>1. SUFFICES ASSUME c \in rotated
                   PROVE  FALSE
      OBVIOUS
    <3>2. c \in retired \/ \E s \in Request : Superseding(s, c)
      BY <1>1, <2>5, <3>1 DEF RotatedOut
    <3> QED
      BY <2>1, <3>2 DEF Leaving, Superseding
  <2>7. d \in rotated
    BY <1>1, <1>6, <2>4, <2>5, <2>6 DEF OneCurrent, SameId
  <2>8. PICK s \in Request : Superseding(s, d)
    <3>1. d \notin retired
      BY <1>1, <2>5 DEF RetiredAreOff
    <3> QED
      BY <1>1, <2>5, <2>7, <3>1 DEF RotatedOut
  <2>9. /\ s # c /\ (s \in rotated => rows[s].client \in branched)
        /\ rows[s].client = rows[d].client /\ s \in Cred /\ rows[s] # None
    BY <1>1, <1>6, <2>8 DEF Superseding, NotRotatedYet, KeepsId, Cred, CredInv, Prepared
  <2>10. s \in rotated
    BY <1>1, <1>6, <2>5, <2>6, <2>9 DEF OneCurrent, SameId
  <2> QED
    BY <2>5, <2>9, <2>10
<1> HIDE DEF st, ex, matches
<1>8. /\ p \in Asked /\ p.op = req[r].op /\ p.on = req[r].on /\ p.step = 0 /\ p.status = st
      /\ p.found = req[r].found /\ p.client = req[r].client /\ p.excuse = ex
  <2>1. st \in Status
    BY <1>4 DEF Status
  <2>2. p \in Asked
    BY <1>1, <1>5, <2>1, LookedUp
  <2> QED
    BY <1>1, <2>2 DEF Asked
<1>9. req' = [req EXCEPT ![r] = p]
  BY <1>3 DEF st, ex
<1> HIDE DEF p
<1>10. req' \in [Request -> Asked] /\ req'[r] = p /\ \A s \in Request \ {r} : req'[s] = req[s]
  BY <1>1, <1>8, <1>9 DEF TypeOK
<1>11. Moved(r)
  BY <1>1, <1>4, <1>8, <1>10 DEF Moved, At
<1>12. Lineage'
  BY <1>1, <1>2, <1>8, <1>10, <1>11, Quiet
<1>13. IssuedSecretAccepted'
  BY <1>1, <1>4, <1>5, <1>7, <1>8, <1>10 DEF IssuedSecretAccepted
<1> QED
  BY <1>12, <1>13 DEF BranchInv

LEMMA InitLineage == Init => BranchInv
<1> SUFFICES ASSUME Init
             PROVE  BranchInv
  OBVIOUS
<1>1. PICK first \in FirstRows :
        /\ rows = [c \in Cred |-> IF c \in First THEN first[c] ELSE None]
        /\ retired = {c \in First : first[c] # None /\ ~first[c].active}
        /\ rotated = {c \in First : (\E d \in First : SameId(first, c, d)) /\ ~first[c].active}
        /\ branched = {k \in ClientId : \E c, d \in First :
                          /\ SameId(first, c, d) /\ first[c].client = k
                          /\ first[c].active /\ first[d].active}
  BY DEF Init
<1>2. TypeOK /\ First \subseteq Cred /\ None \notin ClientId
      /\ \A c \in First : first[c] # None => first[c].client \notin Request
  BY InitHolds, CredentialAssumption DEF CredInv, Cred, ClientId
<1>3. \A r \in Request : /\ req[r].status = "new" /\ req[r].client = None
  BY DEF Init, Ask
<1>4. \A c \in Cred : rows[c] # None => c \in First /\ rows[c] = first[c] /\ rows[c] \in Row
  BY <1>1, <1>2 DEF TypeOK
<1>5. InactiveAreRetired
  BY <1>1, <1>4 DEF InactiveAreRetired
<1>6. Presented /\ HandsOutNewId /\ KeepsId /\ NotRotatedYet /\ IssuedSecretAccepted
  BY <1>3 DEF Presented, HandsOutNewId, KeepsId, NotRotatedYet, IssuedSecretAccepted
<1>7. NamedByMaker
  BY <1>2, <1>3, <1>4 DEF NamedByMaker
<1>8. OneCurrent
  <2> SUFFICES ASSUME NEW c \in Cred, NEW d \in Cred, SameId(rows, c, d),
                      rows[c].client \notin branched
               PROVE  c \in rotated \/ d \in rotated
    BY DEF OneCurrent
  <2>1. /\ c \in First /\ d \in First /\ SameId(first, c, d) /\ SameId(first, d, c)
        /\ rows[c].client = first[c].client /\ first[c].client \in ClientId
    BY <1>4 DEF SameId, Row
  <2>2. ~first[c].active \/ ~first[d].active
    BY <1>1, <2>1
  <2> QED
    BY <1>1, <2>1, <2>2
<1>9. RotatedOut
  <2>1. rotated \subseteq retired
    BY <1>1 DEF SameId
  <2> QED
    BY <2>1 DEF RotatedOut
<1> QED
  BY <1>5, <1>6, <1>7, <1>8, <1>9 DEF BranchInv, Lineage

LEMMA LineageHolds == CredInv /\ BranchInv /\ [Next]_vars => BranchInv'
<1> SUFFICES ASSUME CredInv, BranchInv, [Next]_vars
             PROVE  BranchInv'
  OBVIOUS
<1>1. CASE UNCHANGED vars
  BY <1>1 DEF vars, history, BranchInv, Lineage, InactiveAreRetired, Presented, NamedByMaker,
             HandsOutNewId, KeepsId, OneCurrent, SameId, RotatedOut, Superseding, NotRotatedYet,
             IssuedSecretAccepted
<1>2. ASSUME NEW r \in Request,
             \/ Arrive(r) \/ Find(r) \/ ListClients(r) \/ Retain(r) \/ Reveal(r) \/ Insert(r)
             \/ Deactivate(r) \/ Reactivate(r) \/ WriteLabel(r) \/ WriteMetadata(r)
             \/ SetServer(r) \/ Purge(r) \/ LookUp(r)
      PROVE  BranchInv'
  BY <1>2, ArriveLineage, FindLineage, ListClientsLineage, RetainLineage, RevealLineage,
     InsertLineage, DeactivateLineage, ReactivateLineage, WriteLabelLineage,
     WriteMetadataLineage, SetServerLineage, PurgeLineage, LookUpLineage
<1> QED
  BY <1>1, <1>2 DEF Next, Done

\* In every reachable state, for any number of requests: at most one credential of a
\* client id is current, unless the id has branched.
THEOREM LineageInvariant == Spec => []BranchInv
<1>1. Init => CredInv /\ BranchInv
  BY InitHolds, InitLineage
<1>2. CredInv /\ BranchInv /\ [Next]_vars => (CredInv /\ BranchInv)'
  BY StepHolds, LineageHolds
<1>3. CredInv /\ BranchInv => BranchInv
  OBVIOUS
<1> QED
  BY <1>1, <1>2, <1>3, PTL DEF Spec

\* A secret that was given out and whose credential nobody revokes is rejected only
\* to a request whose own lookup failed (the guard answers 401 then), and by the
\* token endpoint once its client id has branched: no interleaving of creates,
\* rotations, revocations and other requests' failed queries puts another active
\* credential of the same client id before it (client-secret-token-provider.ts:56
\* takes the first).
THEOREM AcceptanceHolds == Spec => []IssuedSecretAccepted
<1>1. BranchInv => IssuedSecretAccepted
  BY DEF BranchInv
<1> QED
  BY <1>1, LineageInvariant, PTL
=============================================================================
