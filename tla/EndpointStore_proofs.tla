------------------------- MODULE EndpointStore_proofs -------------------------
(***************************************************************************)
(* Proofs about EndpointStore, for any number of endpoints and requests.   *)
(*                                                                         *)
(* None of the properties is inductive. A deactivation stands because      *)
(* every other write takes the columns of the current row, and because a   *)
(* deleted row does not return: an id that was given out once is not given *)
(* out again. A flag stands because every profile in the hands of a write  *)
(* about to commit was read after it, or the write is in "raced".          *)
(*                                                                         *)
(* The lock is one more part of the state: its variables run KeyedMutex,   *)
(* so the invariant of its proofs holds here, and the callbacks that run   *)
(* on one endpoint exclude each other. With that, an added or removed      *)
(* method stays so because every set of methods somebody may still store,  *)
(* cache or start from was read after the change (MethodsKept); and the    *)
(* caches agree with the table because, on an endpoint no race was         *)
(* recorded for, every row about to be cached is the row of the table, and *)
(* an entry that is not has a step about to replace it (CacheFollows).     *)
(***************************************************************************)
EXTENDS EndpointStore, TLAPS

\* What a request holds at each place of its code.
InHand ==
    \A r \in Request :
        /\ pc[r] \in {"read", "commit", "apply"} => op[r].kind # "get"
        /\ pc[r] \in {"locked", "unlock"} => Locks(r)
        /\ pc[r] \in {"fill", "filled"} => op[r].kind = "get" \/ Locks(r)
        /\ pc[r] = "filled" => row[r] # NoRow
        /\ pc[r] = "commit" /\ op[r].kind # "create" => row[r] # NoRow

\* r's write is in the database.
Committed(r) == pc[r] = "apply" \/ result[r] \in {"ok", "lost"}

Updates(r) == op[r].kind \in {"settings", "columns"}

\* An id that has a row, or had one that was updated, was given out.
GivenOut ==
    /\ \A i \in Id : db[i] # NoRow => i \in generated
    /\ \A r \in Request : Updates(r) /\ Committed(r) => op[r].ref \in generated

\* The columns of an update, from its commit on.
ColumnsStand ==
    \A r \in Request :
        /\ op[r].kind = "columns" /\ Committed(r)
        /\ \A q \in Request \ {r} : op[q].kind # "columns"
        /\ db[op[r].ref] # NoRow
        => db[op[r].ref].columns = r

\* q is about to write the profile of r's endpoint.
WritesProfileOf(q, r) ==
    /\ pc[q] = "commit" /\ op[q].kind \in {"settings", "add", "remove"}
    /\ op[q].ref = op[r].ref

\* The flag of a settings update, from its commit on, in the row and in every
\* profile that is about to be written over it.
FlagStands ==
    \A r \in Request :
        /\ op[r].kind = "settings" /\ Committed(r) /\ raced[r] = {}
        /\ \A q \in Request \ {r} : op[q].kind = "settings" => op[q].flag # op[r].flag
        /\ db[op[r].ref] # NoRow
        => /\ db[op[r].ref].settings[op[r].flag] = r
           /\ \A q \in Request \ {r} :
                 WritesProfileOf(q, r) => row[q].settings[op[r].flag] = r

StoreInv == TypeOK /\ InHand /\ GivenOut /\ ColumnsStand /\ FlagStands

-----------------------------------------------------------------------------
(* The operators                                                            *)

LEMMA OpFacts ==
    ASSUME TypeOK, NEW r \in Request
    PROVE  /\ op[r].kind \in {"get", "settings", "columns", "create", "delete", "add", "remove"}
           /\ op[r].kind # "get" => op[r].ref \in Id
           /\ op[r].kind = "get" => op[r].ref \in Id \cup Name
           /\ op[r].kind = "settings" => op[r].flag \in Flag
           /\ op[r].kind = "create" => op[r].name \in Name
BY OperationAssumption DEF TypeOK

\* A query by name returns a row of the table, or none.
LEMMA ByNameFacts ==
    ASSUME db \in [Id -> Row \cup {NoRow}], NEW n
    PROVE  FindByName(n) = NoRow \/ \E i \in Id : db[i] # NoRow /\ db[i].name = n /\ FindByName(n) = db[i]
<1> DEFINE found == {i \in Id : db[i] # NoRow /\ db[i].name = n}
<1>1. CASE found = {}
  BY <1>1 DEF FindByName
<1>2. CASE found # {}
  <2>1. (CHOOSE i \in found : TRUE) \in found
    BY <1>2
  <2>2. FindByName(n) = db[CHOOSE i \in found : TRUE]
    BY <1>2 DEF FindByName
  <2> QED
    BY <2>1, <2>2
<1> QED
  BY <1>1, <1>2

LEMMA FindFacts ==
    ASSUME TypeOK, NEW ref
    PROVE  /\ Find(ref) \in Row \cup {NoRow} /\ FindByName(ref) \in Row \cup {NoRow}
           /\ ref \in Id => Find(ref) = db[ref]
<1>1. db \in [Id -> Row \cup {NoRow}]
  BY DEF TypeOK
<1>2. FindByName(ref) \in Row \cup {NoRow}
  BY <1>1, ByNameFacts
<1> QED
  BY <1>1, <1>2 DEF Find

LEMMA CacheSetFacts ==
    ASSUME TypeOK, NEW e \in Row \cup {NoRow}, CacheSet(e)
    PROVE  cacheById' \in [Id -> Row \cup {NoRow}] /\ cacheByName' \in [Name -> Row \cup {NoRow}]
BY DEF CacheSet, TypeOK

LEMMA CacheDeleteFacts ==
    ASSUME TypeOK, NEW e, CacheDelete(e)
    PROVE  cacheById' \in [Id -> Row \cup {NoRow}] /\ cacheByName' \in [Name -> Row \cup {NoRow}]
BY DEF CacheDelete, TypeOK

\* What the row becomes: only an update of the columns changes the columns, a
\* settings update sets its flag, and any other write of a profile keeps the
\* settings it read.
LEMMA MergedFacts ==
    ASSUME TypeOK, NEW r \in Request, NEW current \in Row, row[r] \in Row,
           op[r].kind \in {"settings", "columns", "add", "remove"}
    PROVE  /\ Merged(r, current) \in Row
           /\ op[r].kind = "columns" => /\ Merged(r, current).columns = r
                                        /\ Merged(r, current).settings = current.settings
           /\ op[r].kind # "columns" => Merged(r, current).columns = current.columns
           /\ op[r].kind = "settings" =>
                 Merged(r, current).settings = [row[r].settings EXCEPT ![op[r].flag] = r]
           /\ op[r].kind \in {"add", "remove"} => Merged(r, current).settings = row[r].settings
<1>1. loaded[r] \subseteq Method /\ r \in Method
  BY DEF TypeOK, Method
<1>2. CASE op[r].kind = "columns"
  <2>1. Merged(r, current) = [current EXCEPT !.columns = r]
    BY <1>2 DEF Merged
  <2> QED
    BY <1>2, <2>1 DEF Row
<1>3. CASE op[r].kind = "settings"
  <2> DEFINE s == [row[r].settings EXCEPT ![op[r].flag] = r]
  <2>1. Merged(r, current) = [current EXCEPT !.settings = s, !.methods = row[r].methods]
    BY <1>3 DEF Merged
  <2>2. s \in [Flag -> Request \cup {NoRequest}] /\ row[r].methods \in SUBSET Method
    BY DEF Row
  <2> HIDE DEF s
  <2>3. Merged(r, current) \in Row /\ Merged(r, current).settings = s
        /\ Merged(r, current).columns = current.columns
    BY <2>1, <2>2 DEF Row
  <2> QED
    BY <1>3, <2>3 DEF s
<1>4. CASE op[r].kind = "add"
  <2> DEFINE m == loaded[r] \cup {r}
  <2>1. Merged(r, current) = [current EXCEPT !.settings = row[r].settings, !.methods = m]
    BY <1>4 DEF Merged
  <2>2. m \in SUBSET Method /\ row[r].settings \in [Flag -> Request \cup {NoRequest}]
    BY <1>1 DEF Row
  <2> HIDE DEF m
  <2>3. Merged(r, current) \in Row /\ Merged(r, current).settings = row[r].settings
        /\ Merged(r, current).columns = current.columns
    BY <2>1, <2>2 DEF Row
  <2> QED
    BY <1>4, <2>3
<1>5. CASE op[r].kind = "remove"
  <2> DEFINE m == loaded[r] \ {op[r].method}
  <2>1. Merged(r, current) = [current EXCEPT !.settings = row[r].settings, !.methods = m]
    BY <1>5 DEF Merged
  <2>2. m \in SUBSET Method /\ row[r].settings \in [Flag -> Request \cup {NoRequest}]
    BY <1>1 DEF Row
  <2> HIDE DEF m
  <2>3. Merged(r, current) \in Row /\ Merged(r, current).settings = row[r].settings
        /\ Merged(r, current).columns = current.columns
    BY <2>1, <2>2 DEF Row
  <2> QED
    BY <1>5, <2>3
<1> QED
  BY <1>2, <1>3, <1>4, <1>5

LEMMA LockTyped ==
    ASSUME Lock!MutexTypeOK, NEW r \in Request,
           \/ Lock!Enter(r) \/ Lock!Start(r) \/ UNCHANGED lockVars
           \/ Lock!Finish(r, "resolved") \/ Lock!Finish(r, "rejected")
    PROVE  Lock!MutexTypeOK'
<1>1. CASE Lock!Enter(r)
  BY <1>1 DEF Lock!MutexTypeOK, Lock!Enter
<1>2. CASE Lock!Start(r)
  BY <1>2 DEF Lock!MutexTypeOK, Lock!Start
<1>3. CASE UNCHANGED lockVars
  BY <1>3 DEF Lock!MutexTypeOK, lockVars
<1>4. CASE Lock!Finish(r, "resolved")
  BY <1>4 DEF Lock!MutexTypeOK, Lock!Finish, Lock!TailsWithout
<1>5. CASE Lock!Finish(r, "rejected")
  BY <1>5 DEF Lock!MutexTypeOK, Lock!Finish, Lock!TailsWithout
<1> QED
  BY <1>1, <1>2, <1>3, <1>4, <1>5

Place == {"idle", "locked", "fill", "filled", "read", "commit", "apply", "unlock", "done"}
Answers == {"none", "ok", "error", "failed", "lost"}

LEMMA Answered ==
    ASSUME TypeOK, NEW r \in Request, NEW what \in Answers, Answer(r, what)
    PROVE  /\ pc' \in [Request -> Place] /\ result' \in [Request -> Answers]
           /\ \A q \in Request \ {r} : pc'[q] = pc[q] /\ result'[q] = result[q]
           /\ pc'[r] = (IF Locks(r) THEN "unlock" ELSE "done") /\ result'[r] = what
<1>1. pc \in [Request -> Place] /\ result \in [Request -> Answers]
  BY DEF TypeOK, Place, Answers
<1>2. (IF Locks(r) THEN "unlock" ELSE "done") \in Place
  BY DEF Place
<1> QED
  BY <1>1, <1>2 DEF Answer

LEMMA Gone ==
    ASSUME TypeOK, NEW r \in Request, NEW label \in Place, Goto(r, label)
    PROVE  /\ pc' \in [Request -> Place] /\ result' \in [Request -> Answers] /\ result' = result
           /\ \A q \in Request \ {r} : pc'[q] = pc[q]
           /\ pc'[r] = label
BY DEF TypeOK, Place, Answers, Goto

LEMMA Marked ==
    ASSUME TypeOK, NEW r \in Request, NEW others \in SUBSET Request, Mark(r, others)
    PROVE  /\ raced' \in [Request -> SUBSET Request]
           /\ \A q \in Request : raced[q] \subseteq raced'[q]
           /\ others \subseteq raced'[r]
BY DEF TypeOK, Mark

-----------------------------------------------------------------------------
(* Every step preserves the invariant                                       *)

\* A step that does not write the database: what it brings to a commit is the
\* row as it is.
LEMMA Quiet ==
    ASSUME StoreInv, db' = db, generated' = generated, op' = op,
           \A q \in Request : raced[q] \subseteq raced'[q],
           \A q \in Request : Updates(q) /\ Committed(q)' => Committed(q),
           \A q \in Request : pc'[q] = "commit" /\ op[q].kind # "create" =>
               (pc[q] = "commit" /\ row'[q] = row[q]) \/ row'[q] = db[op[q].ref]
    PROVE  GivenOut' /\ ColumnsStand' /\ FlagStands'
<1>1. GivenOut'
  BY DEF StoreInv, GivenOut, Updates
<1>2. ColumnsStand'
  BY DEF StoreInv, ColumnsStand, Updates
<1>3. FlagStands'
  <2> SUFFICES ASSUME NEW r \in Request, op[r].kind = "settings", Committed(r)', raced'[r] = {},
                      \A q \in Request \ {r} : op[q].kind = "settings" => op[q].flag # op[r].flag,
                      db[op[r].ref] # NoRow
               PROVE  /\ db[op[r].ref].settings[op[r].flag] = r
                      /\ \A q \in Request \ {r} :
                            WritesProfileOf(q, r)' => row'[q].settings[op[r].flag] = r
    BY DEF FlagStands
  <2>1. Committed(r) /\ raced[r] = {}
    BY DEF Updates
  <2>2. /\ db[op[r].ref].settings[op[r].flag] = r
        /\ \A q \in Request \ {r} :
              WritesProfileOf(q, r) => row[q].settings[op[r].flag] = r
    BY <2>1 DEF StoreInv, FlagStands
  <2>3. ASSUME NEW q \in Request \ {r}, WritesProfileOf(q, r)'
        PROVE  row'[q].settings[op[r].flag] = r
    <3>1. pc'[q] = "commit" /\ op[q].kind \in {"settings", "add", "remove"} /\ op[q].ref = op[r].ref
      BY <2>3 DEF WritesProfileOf
    <3>2. CASE pc[q] = "commit" /\ row'[q] = row[q]
      BY <2>2, <3>1, <3>2 DEF WritesProfileOf
    <3>3. CASE row'[q] = db[op[q].ref]
      BY <2>2, <3>1, <3>3
    <3> QED
      BY <3>1, <3>2, <3>3
  <2> QED
    BY <2>2, <2>3
<1> QED
  BY <1>1, <1>2, <1>3

LEMMA ArriveGetStep ==
    ASSUME StoreInv, NEW r \in Request, ArriveGet(r)
    PROVE  StoreInv'
<1>1. /\ TypeOK /\ pc[r] = "idle" /\ op[r].kind = "get" /\ ~Locks(r)
      /\ UNCHANGED <<db, generated, cacheVars, op, row, loaded, captured, lockVars, raced>>
  BY DEF StoreInv, ArriveGet, Locks
<1>2. /\ pc' \in [Request -> Place] /\ result' \in [Request -> Answers]
      /\ \A q \in Request \ {r} : pc'[q] = pc[q] /\ result'[q] = result[q]
      /\ pc'[r] \in {"fill", "done"}
  <2>1. CASE Cached(op[r].ref) # NoRow
    <3>1. Answer(r, "ok") /\ "ok" \in Answers
      BY <2>1 DEF ArriveGet, Answers
    <3> QED
      BY <1>1, <3>1, Answered
  <2>2. CASE Cached(op[r].ref) = NoRow
    <3>1. Goto(r, "fill") /\ "fill" \in Place
      BY <2>2 DEF ArriveGet, Place
    <3> QED
      BY <1>1, <3>1, Gone
  <2> QED
    BY <2>1, <2>2
<1>3. TypeOK'
  <2>1. Lock!MutexTypeOK'
    BY <1>1, LockTyped DEF TypeOK
  <2> QED
    BY <1>1, <1>2, <2>1 DEF TypeOK, Place, Answers, cacheVars
<1>4. InHand'
  BY <1>1, <1>2 DEF StoreInv, InHand, Locks
<1>5. GivenOut' /\ ColumnsStand' /\ FlagStands'
  <2>1. \A q \in Request : Updates(q) /\ Committed(q)' => Committed(q)
    BY <1>1, <1>2 DEF Updates, Committed
  <2>2. \A q \in Request : pc'[q] = "commit" => pc[q] = "commit" /\ row'[q] = row[q]
    BY <1>1, <1>2
  <2> QED
    BY <1>1, <2>1, <2>2, Quiet
<1> QED
  BY <1>3, <1>4, <1>5 DEF StoreInv

LEMMA FillReadStep ==
    ASSUME StoreInv, NEW r \in Request, FillRead(r)
    PROVE  StoreInv'
<1> DEFINE found == Find(op[r].ref)
<1>1. /\ TypeOK /\ pc[r] = "fill" /\ row' = [row EXCEPT ![r] = found]
      /\ found \in Row \cup {NoRow}
      /\ UNCHANGED <<db, generated, cacheVars, op, loaded, captured, lockVars, raced>>
  BY FindFacts DEF StoreInv, FillRead
<1>2. /\ pc' \in [Request -> Place] /\ result' \in [Request -> Answers]
      /\ \A q \in Request \ {r} : pc'[q] = pc[q] /\ result'[q] = result[q]
      /\ \/ pc'[r] = "filled" /\ found # NoRow /\ result'[r] = result[r]
         \/ pc'[r] = (IF Locks(r) THEN "unlock" ELSE "done") /\ result'[r] = "error"
  <2>1. CASE found = NoRow
    <3>1. Answer(r, "error") /\ "error" \in Answers
      BY <2>1 DEF FillRead, Answers
    <3> QED
      BY <1>1, <3>1, Answered
  <2>2. CASE found # NoRow
    <3>1. Goto(r, "filled") /\ "filled" \in Place
      BY <2>2 DEF FillRead, Place
    <3> QED
      BY <1>1, <2>2, <3>1, Gone
  <2> QED
    BY <2>1, <2>2
<1> HIDE DEF found
<1>3. row' \in [Request -> Row \cup {NoRow}] /\ row'[r] = found
      /\ \A q \in Request \ {r} : row'[q] = row[q]
  BY <1>1 DEF TypeOK
<1>4. TypeOK'
  <2>1. Lock!MutexTypeOK'
    BY <1>1, LockTyped DEF TypeOK
  <2> QED
    BY <1>1, <1>2, <1>3, <2>1 DEF TypeOK, Place, Answers, cacheVars
<1>5. InHand'
  BY <1>1, <1>2, <1>3 DEF StoreInv, InHand, Locks
<1>6. GivenOut' /\ ColumnsStand' /\ FlagStands'
  <2>1. \A q \in Request : Updates(q) /\ Committed(q)' => Committed(q)
    BY <1>1, <1>2 DEF Updates, Committed
  <2>2. \A q \in Request : pc'[q] = "commit" => pc[q] = "commit" /\ row'[q] = row[q]
    BY <1>1, <1>2, <1>3
  <2> QED
    BY <1>1, <2>1, <2>2, Quiet
<1> QED
  BY <1>4, <1>5, <1>6 DEF StoreInv

\* The block a locked request acts upon.
LEMMA BlockTaken ==
    ASSUME TypeOK, NEW r \in Request, NEW methods \in SUBSET Method, Locks(r), TakeBlock(r, methods)
    PROVE  /\ loaded' \in [Request -> SUBSET Method]
           /\ pc' \in [Request -> Place] /\ result' \in [Request -> Answers]
           /\ \A q \in Request \ {r} : pc'[q] = pc[q] /\ result'[q] = result[q]
           /\ pc'[r] \in {"read", "unlock"}
<1>1. loaded' \in [Request -> SUBSET Method]
  BY DEF TakeBlock, TypeOK
<1>2. CASE op[r].kind = "remove" /\ op[r].method \notin methods
  <2>1. Answer(r, "error") /\ "error" \in Answers
    BY <1>2 DEF TakeBlock, Answers
  <2> QED
    BY <1>1, <2>1, Answered
<1>3. CASE ~(op[r].kind = "remove" /\ op[r].method \notin methods)
  <2>1. Goto(r, "read") /\ "read" \in Place
    BY <1>3 DEF TakeBlock, Place
  <2> QED
    BY <1>1, <2>1, Gone
<1> QED
  BY <1>2, <1>3

LEMMA FillApplyStep ==
    ASSUME StoreInv, NEW r \in Request, FillApply(r)
    PROVE  StoreInv'
<1>1. /\ TypeOK /\ pc[r] = "filled" /\ CacheSet(row[r]) /\ Mark(r, Overlapping(r))
      /\ row[r] \in Row
      /\ UNCHANGED <<db, generated, op, row, captured, lockVars>>
  BY DEF StoreInv, FillApply, InHand, TypeOK
<1>2. /\ loaded' \in [Request -> SUBSET Method]
      /\ pc' \in [Request -> Place] /\ result' \in [Request -> Answers]
      /\ \A q \in Request \ {r} : pc'[q] = pc[q] /\ result'[q] = result[q]
      /\ IF Locks(r) THEN pc'[r] \in {"read", "unlock"} ELSE pc'[r] = "done"
  <2>1. CASE Locks(r)
    <3>1. TakeBlock(r, row[r].methods) /\ row[r].methods \in SUBSET Method
      BY <1>1, <2>1 DEF FillApply, Row
    <3> QED
      BY <1>1, <2>1, <3>1, BlockTaken
  <2>2. CASE ~Locks(r)
    <3>1. Answer(r, "ok") /\ "ok" \in Answers /\ loaded' = loaded
      BY <2>2 DEF FillApply, Answers
    <3>2. loaded' \in [Request -> SUBSET Method]
      BY <1>1, <3>1 DEF TypeOK
    <3> QED
      BY <1>1, <2>2, <3>1, <3>2, Answered
  <2> QED
    BY <2>1, <2>2
<1>3. raced' \in [Request -> SUBSET Request] /\ \A q \in Request : raced[q] \subseteq raced'[q]
  <2>1. Overlapping(r) \in SUBSET Request
    BY DEF Overlapping
  <2> QED
    BY <1>1, <2>1, Marked
<1>4. TypeOK'
  <2>1. Lock!MutexTypeOK'
    BY <1>1, LockTyped DEF TypeOK
  <2>2. cacheById' \in [Id -> Row \cup {NoRow}] /\ cacheByName' \in [Name -> Row \cup {NoRow}]
    BY <1>1, CacheSetFacts
  <2> QED
    BY <1>1, <1>2, <1>3, <2>1, <2>2 DEF TypeOK, Place, Answers
<1>5. InHand'
  BY <1>1, <1>2 DEF StoreInv, InHand, Locks
<1>6. GivenOut' /\ ColumnsStand' /\ FlagStands'
  <2>1. \A q \in Request : Updates(q) /\ Committed(q)' => Committed(q)
    <3>1. Updates(r) => pc'[r] = "done" /\ ~Locks(r)
      BY <1>2 DEF Updates, Locks
    <3>2. op[r].kind # "get" => Locks(r)
      BY <1>1 DEF StoreInv, InHand
    <3> QED
      BY <1>1, <1>2, <3>1, <3>2 DEF Updates, Committed
  <2>2. \A q \in Request : pc'[q] = "commit" => pc[q] = "commit" /\ row'[q] = row[q]
    BY <1>1, <1>2
  <2> QED
    BY <1>1, <1>3, <2>1, <2>2, Quiet
<1> QED
  BY <1>4, <1>5, <1>6 DEF StoreInv

LEMMA ArriveLockedStep ==
    ASSUME StoreInv, NEW r \in Request, ArriveLocked(r)
    PROVE  StoreInv'
<1>1. /\ TypeOK /\ pc[r] = "idle" /\ Locks(r) /\ Lock!Enter(r)
      /\ UNCHANGED <<db, generated, cacheVars, op, row, loaded, captured, raced>>
  BY DEF StoreInv, ArriveLocked
<1>2. /\ pc' \in [Request -> Place] /\ result' \in [Request -> Answers] /\ result' = result
      /\ \A q \in Request \ {r} : pc'[q] = pc[q]
      /\ pc'[r] = "locked"
  <2>1. Goto(r, "locked") /\ "locked" \in Place
    BY DEF ArriveLocked, Place
  <2> QED
    BY <1>1, <2>1, Gone
<1>3. TypeOK'
  <2>1. Lock!MutexTypeOK'
    BY <1>1, LockTyped DEF TypeOK
  <2> QED
    BY <1>1, <1>2, <2>1 DEF TypeOK, Place, Answers, cacheVars
<1>4. InHand'
  BY <1>1, <1>2 DEF StoreInv, InHand, Locks
<1>5. GivenOut' /\ ColumnsStand' /\ FlagStands'
  <2>1. \A q \in Request : Updates(q) /\ Committed(q)' => Committed(q)
    BY <1>1, <1>2 DEF Updates, Committed
  <2>2. \A q \in Request : pc'[q] = "commit" => pc[q] = "commit" /\ row'[q] = row[q]
    BY <1>1, <1>2
  <2> QED
    BY <1>1, <2>1, <2>2, Quiet
<1> QED
  BY <1>3, <1>4, <1>5 DEF StoreInv

LEMMA LoadBlockStep ==
    ASSUME StoreInv, NEW r \in Request, LoadBlock(r)
    PROVE  StoreInv'
<1>1. /\ TypeOK /\ pc[r] = "locked" /\ Locks(r) /\ Lock!Start(r)
      /\ UNCHANGED <<db, generated, cacheVars, op, row, captured, raced>>
  BY DEF StoreInv, LoadBlock, InHand
<1>2. /\ loaded' \in [Request -> SUBSET Method]
      /\ pc' \in [Request -> Place] /\ result' \in [Request -> Answers]
      /\ \A q \in Request \ {r} : pc'[q] = pc[q] /\ result'[q] = result[q]
      /\ pc'[r] \in {"read", "unlock", "fill"}
  <2>1. CASE Cached(op[r].ref) # NoRow
    <3>1. op[r].ref \in Id
      BY <1>1, OpFacts DEF Locks
    <3>2. Cached(op[r].ref) \in Row
      BY <1>1, <2>1, <3>1 DEF Cached, TypeOK
    <3>3. Cached(op[r].ref).methods \in SUBSET Method /\ TakeBlock(r, Cached(op[r].ref).methods)
      BY <2>1, <3>2 DEF Row, LoadBlock
    <3> QED
      BY <1>1, <3>3, BlockTaken
  <2>2. CASE Cached(op[r].ref) = NoRow
    <3>1. Goto(r, "fill") /\ "fill" \in Place /\ loaded' = loaded
      BY <2>2 DEF LoadBlock, Place
    <3>2. loaded' \in [Request -> SUBSET Method]
      BY <1>1, <3>1 DEF TypeOK
    <3> QED
      BY <1>1, <3>1, <3>2, Gone
  <2> QED
    BY <2>1, <2>2
<1>3. TypeOK'
  <2>1. Lock!MutexTypeOK'
    BY <1>1, LockTyped DEF TypeOK
  <2> QED
    BY <1>1, <1>2, <2>1 DEF TypeOK, Place, Answers, cacheVars
<1>4. InHand'
  BY <1>1, <1>2 DEF StoreInv, InHand, Locks
<1>5. GivenOut' /\ ColumnsStand' /\ FlagStands'
  <2>1. \A q \in Request : Updates(q) /\ Committed(q)' => Committed(q)
    BY <1>1, <1>2 DEF Updates, Committed, Locks
  <2>2. \A q \in Request : pc'[q] = "commit" => pc[q] = "commit" /\ row'[q] = row[q]
    BY <1>1, <1>2
  <2> QED
    BY <1>1, <2>1, <2>2, Quiet
<1> QED
  BY <1>3, <1>4, <1>5 DEF StoreInv

LEMMA UnlockStep ==
    ASSUME StoreInv, NEW r \in Request, Unlock(r)
    PROVE  StoreInv'
<1>1. /\ TypeOK /\ pc[r] = "unlock" /\ Locks(r)
      /\ Lock!Finish(r, "resolved") \/ Lock!Finish(r, "rejected")
      /\ UNCHANGED <<db, generated, cacheVars, op, row, loaded, captured, raced>>
  BY DEF StoreInv, Unlock, InHand
<1>2. /\ pc' \in [Request -> Place] /\ result' \in [Request -> Answers] /\ result' = result
      /\ \A q \in Request \ {r} : pc'[q] = pc[q]
      /\ pc'[r] = "done"
  <2>1. Goto(r, "done") /\ "done" \in Place
    BY DEF Unlock, Place
  <2> QED
    BY <1>1, <2>1, Gone
<1>3. TypeOK'
  <2>1. Lock!MutexTypeOK'
    BY <1>1, LockTyped DEF TypeOK
  <2> QED
    BY <1>1, <1>2, <2>1 DEF TypeOK, Place, Answers, cacheVars
<1>4. InHand'
  BY <1>1, <1>2 DEF StoreInv, InHand, Locks
<1>5. GivenOut' /\ ColumnsStand' /\ FlagStands'
  <2>1. \A q \in Request : Updates(q) /\ Committed(q)' => Committed(q)
    BY <1>1, <1>2 DEF Updates, Committed
  <2>2. \A q \in Request : pc'[q] = "commit" => pc[q] = "commit" /\ row'[q] = row[q]
    BY <1>1, <1>2
  <2> QED
    BY <1>1, <2>1, <2>2, Quiet
<1> QED
  BY <1>3, <1>4, <1>5 DEF StoreInv

LEMMA ArriveWriteStep ==
    ASSUME StoreInv, NEW r \in Request, ArriveWrite(r)
    PROVE  StoreInv'
<1> DEFINE seen == IF op[r].kind = "delete" THEN cacheById[op[r].ref] ELSE NoRow
<1>1. /\ TypeOK /\ pc[r] = "idle" /\ op[r].kind \in {"settings", "columns", "create", "delete"}
      /\ captured' = [captured EXCEPT ![r] = seen]
      /\ UNCHANGED <<db, generated, cacheVars, op, row, loaded, lockVars, raced>>
  BY DEF StoreInv, ArriveWrite
<1>2. /\ pc' \in [Request -> Place] /\ result' \in [Request -> Answers] /\ result' = result
      /\ \A q \in Request \ {r} : pc'[q] = pc[q]
      /\ pc'[r] = "read"
  <2>1. Goto(r, "read") /\ "read" \in Place
    BY DEF ArriveWrite, Place
  <2> QED
    BY <1>1, <2>1, Gone
<1>3. TypeOK'
  <2>1. Lock!MutexTypeOK'
    BY <1>1, LockTyped DEF TypeOK
  <2>2. seen \in Row \cup {NoRow}
    BY <1>1, OpFacts DEF TypeOK
  <2> HIDE DEF seen
  <2>3. captured' \in [Request -> Row \cup {NoRow}]
    BY <1>1, <2>2 DEF TypeOK
  <2> QED
    BY <1>1, <1>2, <2>1, <2>3 DEF TypeOK, Place, Answers, cacheVars
<1>4. InHand'
  BY <1>1, <1>2 DEF StoreInv, InHand, Locks
<1>5. GivenOut' /\ ColumnsStand' /\ FlagStands'
  <2>1. \A q \in Request : Updates(q) /\ Committed(q)' => Committed(q)
    BY <1>1, <1>2 DEF Updates, Committed
  <2>2. \A q \in Request : pc'[q] = "commit" => pc[q] = "commit" /\ row'[q] = row[q]
    BY <1>1, <1>2
  <2> QED
    BY <1>1, <2>1, <2>2, Quiet
<1> QED
  BY <1>3, <1>4, <1>5 DEF StoreInv

LEMMA ReadRowStep ==
    ASSUME StoreInv, NEW r \in Request, ReadRow(r)
    PROVE  StoreInv'
<1> DEFINE found == IF op[r].kind = "create" THEN FindByName(op[r].name) ELSE db[op[r].ref]
<1>1. /\ TypeOK /\ pc[r] = "read" /\ op[r].kind # "get" /\ row' = [row EXCEPT ![r] = found]
      /\ found \in Row \cup {NoRow}
      /\ op[r].kind # "create" => found = db[op[r].ref]
      /\ UNCHANGED <<db, generated, cacheVars, op, loaded, captured, lockVars, raced>>
  <2>1. op[r].kind # "get"
    BY DEF StoreInv, ReadRow, InHand
  <2> QED
    BY <2>1, FindFacts, OpFacts DEF StoreInv, ReadRow
<1>2. /\ pc' \in [Request -> Place] /\ result' \in [Request -> Answers]
      /\ \A q \in Request \ {r} : pc'[q] = pc[q] /\ result'[q] = result[q]
      /\ \/ /\ pc'[r] = "commit" /\ result'[r] = result[r]
            /\ op[r].kind # "create" => found # NoRow
         \/ pc'[r] = (IF Locks(r) THEN "unlock" ELSE "done") /\ result'[r] = "error"
  <2>1. CASE (op[r].kind = "create") <=> (found = NoRow)
    <3>1. Goto(r, "commit") /\ "commit" \in Place
      BY <2>1 DEF ReadRow, Place
    <3> QED
      BY <1>1, <2>1, <3>1, Gone
  <2>2. CASE ~((op[r].kind = "create") <=> (found = NoRow))
    <3>1. Answer(r, "error") /\ "error" \in Answers
      BY <2>2 DEF ReadRow, Answers
    <3> QED
      BY <1>1, <3>1, Answered
  <2> QED
    BY <2>1, <2>2
<1> HIDE DEF found
<1>3. row' \in [Request -> Row \cup {NoRow}] /\ row'[r] = found
      /\ \A q \in Request \ {r} : row'[q] = row[q]
  BY <1>1 DEF TypeOK
<1>4. TypeOK'
  <2>1. Lock!MutexTypeOK'
    BY <1>1, LockTyped DEF TypeOK
  <2> QED
    BY <1>1, <1>2, <1>3, <2>1 DEF TypeOK, Place, Answers, cacheVars
<1>5. InHand'
  BY <1>1, <1>2, <1>3 DEF StoreInv, InHand, Locks
<1>6. GivenOut' /\ ColumnsStand' /\ FlagStands'
  <2>1. \A q \in Request : Updates(q) /\ Committed(q)' => Committed(q)
    BY <1>1, <1>2 DEF Updates, Committed
  <2>2. \A q \in Request : pc'[q] = "commit" /\ op[q].kind # "create" =>
            (pc[q] = "commit" /\ row'[q] = row[q]) \/ row'[q] = db[op[q].ref]
    BY <1>1, <1>2, <1>3
  <2> QED
    BY <1>1, <2>1, <2>2, Quiet
<1> QED
  BY <1>4, <1>5, <1>6 DEF StoreInv

LEMMA ApplyStep ==
    ASSUME StoreInv, NEW r \in Request, Apply(r)
    PROVE  StoreInv'
<1>1. /\ TypeOK /\ pc[r] = "apply"
      /\ Mark(r, {q \in Overlapping(r) : op[q].kind = "delete"})
      /\ Answer(r, "ok") /\ "ok" \in Answers
      /\ UNCHANGED <<db, generated, op, row, loaded, captured, lockVars>>
  BY DEF StoreInv, Apply, Answers
<1>2. /\ pc' \in [Request -> Place] /\ result' \in [Request -> Answers]
      /\ \A q \in Request \ {r} : pc'[q] = pc[q] /\ result'[q] = result[q]
      /\ pc'[r] = (IF Locks(r) THEN "unlock" ELSE "done")
  BY <1>1, Answered
<1>3. raced' \in [Request -> SUBSET Request] /\ \A q \in Request : raced[q] \subseteq raced'[q]
  <2>1. {q \in Overlapping(r) : op[q].kind = "delete"} \in SUBSET Request
    BY DEF Overlapping
  <2> QED
    BY <1>1, <2>1, Marked
<1>4. TypeOK'
  <2>1. Lock!MutexTypeOK'
    BY <1>1, LockTyped DEF TypeOK
  <2>2. cacheById' \in [Id -> Row \cup {NoRow}] /\ cacheByName' \in [Name -> Row \cup {NoRow}]
    <3>1. CASE CacheDelete(captured[r])
      BY <1>1, <3>1, CacheDeleteFacts
    <3>2. CASE UNCHANGED cacheVars
      BY <1>1, <3>2 DEF TypeOK, cacheVars
    <3>3. CASE CacheSet(row[r])
      BY <1>1, <3>3, CacheSetFacts DEF TypeOK
    <3> QED
      BY <3>1, <3>2, <3>3 DEF Apply
  <2> QED
    BY <1>1, <1>2, <1>3, <2>1, <2>2 DEF TypeOK, Place, Answers
<1>5. InHand'
  BY <1>1, <1>2 DEF StoreInv, InHand, Locks
<1>6. GivenOut' /\ ColumnsStand' /\ FlagStands'
  <2>1. \A q \in Request : Updates(q) /\ Committed(q)' => Committed(q)
    BY <1>1, <1>2 DEF Updates, Committed
  <2>2. \A q \in Request : pc'[q] = "commit" => pc[q] = "commit" /\ row'[q] = row[q]
    BY <1>1, <1>2
  <2> QED
    BY <1>1, <1>3, <2>1, <2>2, Quiet
<1> QED
  BY <1>4, <1>5, <1>6 DEF StoreInv

LEMMA DatabaseFailsStep ==
    ASSUME StoreInv, NEW r \in Request, DatabaseFails(r)
    PROVE  StoreInv'
<1>1. /\ TypeOK /\ pc[r] \in {"fill", "read", "commit", "apply"}
      /\ UNCHANGED <<db, generated, cacheVars, op, row, loaded, captured, lockVars, raced>>
  BY DEF StoreInv, DatabaseFails
<1>2. /\ pc' \in [Request -> Place] /\ result' \in [Request -> Answers]
      /\ \A q \in Request \ {r} : pc'[q] = pc[q] /\ result'[q] = result[q]
      /\ pc'[r] = (IF Locks(r) THEN "unlock" ELSE "done")
      /\ result'[r] = (IF pc[r] = "apply" THEN "lost" ELSE "failed")
  <2>1. Answer(r, IF pc[r] = "apply" THEN "lost" ELSE "failed")
        /\ (IF pc[r] = "apply" THEN "lost" ELSE "failed") \in Answers
    BY DEF DatabaseFails, Answers
  <2> QED
    BY <1>1, <2>1, Answered
<1>3. TypeOK'
  <2>1. Lock!MutexTypeOK'
    BY <1>1, LockTyped DEF TypeOK
  <2> QED
    BY <1>1, <1>2, <2>1 DEF TypeOK, Place, Answers, cacheVars
<1>4. InHand'
  BY <1>1, <1>2 DEF StoreInv, InHand, Locks
<1>5. GivenOut' /\ ColumnsStand' /\ FlagStands'
  <2>1. \A q \in Request : Updates(q) /\ Committed(q)' => Committed(q)
    BY <1>1, <1>2 DEF Updates, Committed
  <2>2. \A q \in Request : pc'[q] = "commit" => pc[q] = "commit" /\ row'[q] = row[q]
    BY <1>1, <1>2
  <2> QED
    BY <1>1, <2>1, <2>2, Quiet
<1> QED
  BY <1>3, <1>4, <1>5 DEF StoreInv

\* What a write the database accepts leaves of the row: nothing else is touched,
\* an id that was given out gets no row from a create, and an update, an add or
\* a remove has a row to write over.
LEMMA Written ==
    ASSUME StoreInv, NEW r \in Request, Commit(r), Accepts(r)
    PROVE  /\ op[r].ref \in Id
           /\ RowAfter(r) \in Row \cup {NoRow}
           /\ db' = [db EXCEPT ![op[r].ref] = RowAfter(r)]
           /\ \/ op[r].kind = "create" /\ op[r].ref \notin generated
              \/ op[r].kind = "delete" /\ RowAfter(r) = NoRow
              \/ /\ op[r].kind \in {"settings", "columns", "add", "remove"}
                 /\ row[r] \in Row /\ db[op[r].ref] \in Row
                 /\ RowAfter(r) = Merged(r, db[op[r].ref])
<1>1. TypeOK /\ pc[r] = "commit" /\ op[r].kind # "get"
  BY DEF StoreInv, InHand, Commit
<1>2. op[r].ref \in Id
  BY <1>1, OpFacts
<1>3. db' = [db EXCEPT ![op[r].ref] = RowAfter(r)]
  BY DEF Commit
<1>4. CASE op[r].kind = "create"
  <2> DEFINE s == [f \in Flag |-> NoRequest]
  <2>1. RowAfter(r) = [id |-> op[r].ref, name |-> op[r].name, settings |-> s,
                       methods |-> {}, columns |-> NoRequest]
    BY <1>4 DEF RowAfter, NewRow
  <2>2. s \in [Flag -> Request \cup {NoRequest}]
    OBVIOUS
  <2> HIDE DEF s
  <2>3. op[r].name \in Name
    BY <1>1, <1>4, OpFacts
  <2>4. RowAfter(r) \in Row
    BY <1>2, <2>1, <2>2, <2>3 DEF Row
  <2> QED
    BY <1>2, <1>3, <1>4, <2>4 DEF Accepts
<1>5. CASE op[r].kind = "delete"
  <2>1. RowAfter(r) = NoRow
    BY <1>5 DEF RowAfter
  <2> QED
    BY <1>2, <1>3, <1>5, <2>1
<1>6. CASE op[r].kind \in {"settings", "columns", "add", "remove"}
  <2>1. row[r] \in Row
    BY <1>1, <1>6 DEF StoreInv, InHand, TypeOK
  <2>2. db[op[r].ref] \in Row
    BY <1>1, <1>2, <1>6 DEF Accepts, TypeOK
  <2>3. RowAfter(r) = Merged(r, db[op[r].ref])
    BY <1>6 DEF RowAfter
  <2>4. Merged(r, db[op[r].ref]) \in Row
    BY <1>1, <1>6, <2>1, <2>2, MergedFacts
  <2> QED
    BY <1>2, <1>3, <1>6, <2>1, <2>2, <2>3, <2>4
<1> QED
  BY <1>1, <1>4, <1>5, <1>6, OpFacts

\* A refused write changes nothing but its own request.
LEMMA RefusedStep ==
    ASSUME StoreInv, NEW r \in Request, Commit(r), ~Accepts(r)
    PROVE  StoreInv'
<1>1. /\ TypeOK /\ Answer(r, "error") /\ "error" \in Answers
      /\ UNCHANGED <<db, generated, cacheVars, op, row, loaded, captured, lockVars, raced>>
  BY DEF StoreInv, Commit, Answers
<1>2. /\ pc' \in [Request -> Place] /\ result' \in [Request -> Answers]
      /\ \A q \in Request \ {r} : pc'[q] = pc[q] /\ result'[q] = result[q]
      /\ pc'[r] = (IF Locks(r) THEN "unlock" ELSE "done") /\ result'[r] = "error"
  BY <1>1, Answered
<1>3. TypeOK'
  <2>1. Lock!MutexTypeOK'
    BY <1>1, LockTyped DEF TypeOK
  <2> QED
    BY <1>1, <1>2, <2>1 DEF TypeOK, Place, Answers, cacheVars
<1>4. InHand'
  BY <1>1, <1>2 DEF StoreInv, InHand, Locks
<1>5. GivenOut' /\ ColumnsStand' /\ FlagStands'
  <2>1. \A q \in Request : Updates(q) /\ Committed(q)' => Committed(q)
    BY <1>1, <1>2 DEF Updates, Committed
  <2>2. \A q \in Request : pc'[q] = "commit" => pc[q] = "commit" /\ row'[q] = row[q]
    BY <1>1, <1>2
  <2> QED
    BY <1>1, <2>1, <2>2, Quiet
<1> QED
  BY <1>3, <1>4, <1>5 DEF StoreInv

LEMMA AcceptedStep ==
    ASSUME StoreInv, NEW r \in Request, Commit(r), Accepts(r)
    PROVE  StoreInv'
<1> DEFINE new == RowAfter(r)
           at == op[r].ref
<1>1. /\ TypeOK /\ pc[r] = "commit" /\ op[r].kind # "get"
      /\ row' = [row EXCEPT ![r] = new]
      /\ generated' = generated \cup {at}
      /\ Mark(r, Overlapping(r)) /\ Goto(r, "apply")
      /\ UNCHANGED <<cacheVars, op, loaded, captured, lockVars>>
  BY DEF StoreInv, InHand, Commit
<1>2. /\ at \in Id /\ new \in Row \cup {NoRow} /\ db' = [db EXCEPT ![at] = new]
      /\ \/ op[r].kind = "create" /\ at \notin generated
         \/ op[r].kind = "delete" /\ new = NoRow
         \/ /\ op[r].kind \in {"settings", "columns", "add", "remove"}
            /\ row[r] \in Row /\ db[at] \in Row /\ new = Merged(r, db[at])
  BY Written
<1> HIDE DEF new
<1>3. /\ pc' \in [Request -> Place] /\ result' \in [Request -> Answers] /\ result' = result
      /\ \A q \in Request \ {r} : pc'[q] = pc[q]
      /\ pc'[r] = "apply"
  <2>1. "apply" \in Place
    BY DEF Place
  <2> QED
    BY <1>1, <2>1, Gone
<1>4. /\ raced' \in [Request -> SUBSET Request] /\ \A q \in Request : raced[q] \subseteq raced'[q]
      /\ Overlapping(r) \subseteq raced'[r]
  <2>1. Overlapping(r) \in SUBSET Request
    BY DEF Overlapping
  <2> QED
    BY <1>1, <2>1, Marked
<1>5. /\ db' \in [Id -> Row \cup {NoRow}] /\ db'[at] = new
      /\ \A i \in Id \ {at} : db'[i] = db[i]
  BY <1>1, <1>2 DEF TypeOK
<1>6. /\ row' \in [Request -> Row \cup {NoRow}] /\ row'[r] = new
      /\ \A q \in Request \ {r} : row'[q] = row[q]
  BY <1>1, <1>2 DEF TypeOK
<1>7. TypeOK'
  <2>1. Lock!MutexTypeOK'
    BY <1>1, LockTyped DEF TypeOK
  <2>2. generated' \in SUBSET Id
    BY <1>1, <1>2 DEF TypeOK
  <2> QED
    BY <1>1, <1>3, <1>4, <1>5, <1>6, <2>1, <2>2 DEF TypeOK, Place, Answers, cacheVars
<1>8. InHand'
  BY <1>1, <1>3, <1>6 DEF StoreInv, InHand, Locks
<1>9. GivenOut'
  <2>1. ASSUME NEW i \in Id, db'[i] # NoRow
        PROVE  i \in generated'
    BY <1>1, <1>5, <2>1 DEF StoreInv, GivenOut
  <2>2. ASSUME NEW q \in Request, Updates(q)', Committed(q)'
        PROVE  op'[q].ref \in generated'
    BY <1>1, <1>3, <2>2 DEF StoreInv, GivenOut, Updates, Committed
  <2> QED
    BY <2>1, <2>2 DEF GivenOut
<1>10. ASSUME NEW q \in Request \ {r}, Updates(q), Committed(q)', op[q].ref = at, db'[at] # NoRow
       PROVE  /\ Committed(q) /\ row[r] \in Row /\ db[at] \in Row /\ new = Merged(r, db[at])
              /\ op[r].kind \in {"settings", "columns", "add", "remove"}
  <2>1. Committed(q)
    BY <1>3, <1>10 DEF Committed
  <2>2. at \in generated
    BY <1>10, <2>1 DEF StoreInv, GivenOut
  <2> QED
    BY <1>2, <1>5, <1>10, <2>1, <2>2
<1>11. ColumnsStand'
  <2> SUFFICES ASSUME NEW q \in Request, op[q].kind = "columns", Committed(q)',
                      \A p \in Request \ {q} : op[p].kind # "columns",
                      db'[op[q].ref] # NoRow
               PROVE  db'[op[q].ref].columns = q
    BY <1>1 DEF ColumnsStand
  <2>1. op[q].ref \in Id
    BY <1>1, OpFacts
  <2>2. CASE q = r
    <3>1. row[r] \in Row /\ db[at] \in Row /\ new = Merged(r, db[at])
      BY <1>2, <2>2
    <3>2. Merged(r, db[at]).columns = r
      BY <1>1, <2>2, <3>1, MergedFacts
    <3> QED
      BY <1>5, <2>2, <3>1, <3>2
  <2>3. CASE q # r /\ op[q].ref # at
    <3>1. db'[op[q].ref] = db[op[q].ref] /\ Committed(q)
      BY <1>3, <1>5, <2>1, <2>3 DEF Committed
    <3> QED
      BY <3>1 DEF StoreInv, ColumnsStand
  <2>4. CASE q # r /\ op[q].ref = at
    <3>1. /\ Committed(q) /\ row[r] \in Row /\ db[at] \in Row /\ new = Merged(r, db[at])
          /\ op[r].kind \in {"settings", "add", "remove"}
      BY <1>10, <2>4 DEF Updates
    <3>2. Merged(r, db[at]).columns = db[at].columns
      BY <1>1, <3>1, MergedFacts
    <3>3. db[at].columns = q
      <4>1. db[at] # NoRow
        BY <3>1, OperationAssumption
      <4> QED
        BY <2>4, <3>1, <4>1 DEF StoreInv, ColumnsStand
    <3> QED
      BY <1>5, <2>4, <3>1, <3>2, <3>3
  <2> QED
    BY <2>2, <2>3, <2>4
<1>12. FlagStands'
  <2> SUFFICES ASSUME NEW q \in Request, op[q].kind = "settings", Committed(q)', raced'[q] = {},
                      \A p \in Request \ {q} : op[p].kind = "settings" => op[p].flag # op[q].flag,
                      db'[op[q].ref] # NoRow
               PROVE  /\ db'[op[q].ref].settings[op[q].flag] = q
                      /\ \A p \in Request \ {q} :
                            WritesProfileOf(p, q)' => row'[p].settings[op[q].flag] = q
    BY <1>1 DEF FlagStands
  <2>1. op[q].ref \in Id /\ op[q].flag \in Flag
    BY <1>1, OpFacts
  <2>2. CASE q = r
    <3>1. row[r] \in Row /\ db[at] \in Row /\ new = Merged(r, db[at])
      BY <1>2, <2>2
    <3>2. Merged(r, db[at]).settings = [row[r].settings EXCEPT ![op[r].flag] = r]
      BY <1>1, <2>2, <3>1, MergedFacts
    <3>3. row[r].settings \in [Flag -> Request \cup {NoRequest}]
      BY <3>1 DEF Row
    <3>4. db'[op[q].ref].settings[op[q].flag] = q
      BY <1>5, <2>1, <2>2, <3>1, <3>2, <3>3
    <3>5. ASSUME NEW p \in Request \ {q}, WritesProfileOf(p, q)'
          PROVE  FALSE
      <4>1. pc[p] = "commit" /\ op[p].ref = at
        BY <1>1, <1>3, <2>2, <3>5 DEF WritesProfileOf
      <4>2. p \in Overlapping(r)
        BY <1>2, <2>2, <4>1 DEF Overlapping, InWindow, About
      <4> QED
        BY <1>4, <2>2, <4>2
    <3> QED
      BY <3>4, <3>5
  <2>3. CASE q # r
    <3>1. Committed(q) /\ raced[q] = {}
      BY <1>3, <1>4, <2>3 DEF Committed
    <3>2. db[op[q].ref] # NoRow
      BY <1>5, <1>10, <2>1, <2>3, OperationAssumption DEF Updates
    <3>3. /\ db[op[q].ref].settings[op[q].flag] = q
          /\ \A p \in Request \ {q} :
                WritesProfileOf(p, q) => row[p].settings[op[q].flag] = q
      BY <3>1, <3>2 DEF StoreInv, FlagStands
    <3>4. ASSUME NEW p \in Request \ {q}, WritesProfileOf(p, q)'
          PROVE  row'[p].settings[op[q].flag] = q
      <4>1. p # r /\ WritesProfileOf(p, q)
        BY <1>1, <1>3, <3>4 DEF WritesProfileOf
      <4> QED
        BY <1>6, <3>3, <4>1
    <3>5. db'[op[q].ref].settings[op[q].flag] = q
      <4>1. CASE op[q].ref # at
        BY <1>5, <2>1, <3>3, <4>1
      <4>2. CASE op[q].ref = at
        <5>1. /\ row[r] \in Row /\ db[at] \in Row /\ new = Merged(r, db[at])
              /\ op[r].kind \in {"settings", "columns", "add", "remove"}
          BY <1>10, <2>3, <4>2 DEF Updates
        <5>2. CASE op[r].kind = "columns"
          <6>1. Merged(r, db[at]).settings = db[at].settings
            BY <1>1, <5>1, <5>2, MergedFacts
          <6> QED
            BY <1>5, <3>3, <4>2, <5>1, <6>1
        <5>3. CASE op[r].kind # "columns"
          <6>1. row[r].settings[op[q].flag] = q
            BY <1>1, <2>3, <3>3, <4>2, <5>1, <5>3 DEF WritesProfileOf
          <6>2. CASE op[r].kind = "settings"
            <7>1. Merged(r, db[at]).settings = [row[r].settings EXCEPT ![op[r].flag] = r]
              BY <1>1, <5>1, <6>2, MergedFacts
            <7>2. row[r].settings \in [Flag -> Request \cup {NoRequest}] /\ op[r].flag # op[q].flag
              BY <2>3, <5>1, <6>2 DEF Row
            <7> QED
              BY <1>5, <2>1, <4>2, <5>1, <6>1, <7>1, <7>2
          <6>3. CASE op[r].kind # "settings"
            <7>1. Merged(r, db[at]).settings = row[r].settings
              BY <1>1, <5>1, <5>3, <6>3, MergedFacts
            <7> QED
              BY <1>5, <4>2, <5>1, <6>1, <7>1
          <6> QED
            BY <6>2, <6>3
        <5> QED
          BY <5>2, <5>3
      <4> QED
        BY <4>1, <4>2
    <3> QED
      BY <3>4, <3>5
  <2> QED
    BY <2>2, <2>3
<1> QED
  BY <1>7, <1>8, <1>9, <1>11, <1>12 DEF StoreInv

LEMMA StutterStep ==
    ASSUME StoreInv, UNCHANGED vars
    PROVE  StoreInv'
<1>1. /\ UNCHANGED <<db, generated, cacheById, cacheByName, op, pc, row, loaded, captured,
                    result, raced>>
      /\ UNCHANGED <<tails, stage, key, prev>>
  BY DEF vars, lockVars
<1>2. TypeOK'
  <2>1. Lock!MutexTypeOK'
    BY <1>1 DEF StoreInv, TypeOK, Lock!MutexTypeOK
  <2> QED
    BY <1>1, <2>1 DEF StoreInv, TypeOK
<1>3. InHand'
  BY <1>1 DEF StoreInv, InHand, Locks
<1>4. GivenOut' /\ ColumnsStand' /\ FlagStands'
  BY <1>1 DEF StoreInv, GivenOut, ColumnsStand, FlagStands, Updates, Committed, WritesProfileOf
<1> QED
  BY <1>2, <1>3, <1>4 DEF StoreInv

LEMMA StepHolds ==
    ASSUME StoreInv, Next
    PROVE  StoreInv'
<1>1. ASSUME NEW r \in Request, Arrive(r)
      PROVE  StoreInv'
  BY <1>1, ArriveGetStep, ArriveLockedStep, ArriveWriteStep DEF Arrive
<1>2. ASSUME NEW r \in Request, Step(r)
      PROVE  StoreInv'
  <2>1. CASE Commit(r)
    BY <2>1, AcceptedStep, RefusedStep
  <2> QED
    BY <1>2, <2>1, FillReadStep, FillApplyStep, LoadBlockStep, UnlockStep,
       ReadRowStep, ApplyStep DEF Step
<1>3. ASSUME NEW r \in Request, DatabaseFails(r)
      PROVE  StoreInv'
  BY <1>3, DatabaseFailsStep
<1>4. CASE Done
  BY <1>4, StutterStep DEF Done
<1> QED
  BY <1>1, <1>2, <1>3, <1>4 DEF Next

-----------------------------------------------------------------------------
(* Start-up                                                                 *)

\* The state of the process and of the database before the first request,
\* whether or not the cache could be warmed.
LEMMA InitHolds ==
    ASSUME Init
    PROVE  StoreInv
<1>1. db \in [Id -> Row \cup {NoRow}] /\ \A i \in Id : db[i] # NoRow => i \in generated
  <2> DEFINE has(i) == \E e \in FirstRows : e.id = i
             first(i) == CHOOSE e \in FirstRows : e.id = i
  <2>1. db = [i \in Id |-> IF has(i) THEN first(i) ELSE NoRow]
        /\ generated = {e.id : e \in FirstRows}
    BY DEF Init
  <2>2. ASSUME NEW i \in Id, has(i)
        PROVE  first(i) \in FirstRows /\ first(i).id = i
    BY <2>2
  <2>3. ASSUME NEW i \in Id
        PROVE  db[i] \in Row \cup {NoRow} /\ (db[i] # NoRow => i \in generated)
    <3>1. CASE has(i)
      <4>1. db[i] = first(i) /\ first(i) \in FirstRows /\ first(i).id = i
        BY <2>1, <2>2, <3>1
      <4> HIDE DEF first
      <4> QED
        BY <2>1, <4>1, OperationAssumption
    <3>2. CASE ~has(i)
      BY <2>1, <3>2
    <3> QED
      BY <3>1, <3>2
  <2> HIDE DEF has, first
  <2> QED
    BY <2>1, <2>3
<1>2. \A n : FindByName(n) \in Row \cup {NoRow}
  BY <1>1, ByNameFacts
<1>3. /\ cacheById \in [Id -> Row \cup {NoRow}]
      /\ cacheByName \in [Name -> Row \cup {NoRow}]
  <2>1. CASE cacheById = db /\ cacheByName = [n \in Name |-> FindByName(n)]
    BY <1>1, <1>2, <2>1
  <2>2. CASE cacheById = NoRows /\ cacheByName = [n \in Name |-> NoRow]
    BY <2>2 DEF NoRows
  <2> QED
    BY <2>1, <2>2 DEF Init
<1>4. generated \in SUBSET Id
  <2>1. ASSUME NEW e \in FirstRows
        PROVE  e.id \in Id
    BY <2>1, OperationAssumption DEF Row
  <2> QED
    BY <2>1 DEF Init
<1>5. /\ op \in [Request -> Operation] /\ pc = [r \in Request |-> "idle"]
      /\ row = [r \in Request |-> NoRow] /\ loaded = [r \in Request |-> {}]
      /\ captured = [r \in Request |-> NoRow] /\ result = [r \in Request |-> "none"]
      /\ raced = [r \in Request |-> {}]
  BY DEF Init
<1>6. Lock!MutexTypeOK
  <2>1. (CHOOSE i \in Id : TRUE) \in Id
    BY OperationAssumption
  <2>2. key \in [Request -> Id]
    BY <2>1 DEF Init
  <2> QED
    BY <2>2 DEF Init, Lock!MutexTypeOK
<1>7. TypeOK
  BY <1>1, <1>3, <1>4, <1>5, <1>6 DEF TypeOK
<1>8. \A r \in Request : ~Committed(r) /\ pc[r] = "idle"
  BY <1>5 DEF Committed
<1> QED
  BY <1>1, <1>7, <1>8
     DEF StoreInv, InHand, GivenOut, ColumnsStand, FlagStands

-----------------------------------------------------------------------------
(* The properties                                                           *)

\* What a request holds, the ids given out, the columns and the flags: true in
\* every state of every execution.
THEOREM StoreInvariant == Spec => []StoreInv
<1>1. Init => StoreInv
  BY InitHolds
<1>2. StoreInv /\ [Next]_vars => StoreInv'
  BY StepHolds, StutterStep
<1> QED
  BY <1>1, <1>2, PTL DEF Spec

\* The maps of EndpointService, the rows and the variables of every request
\* keep their shape.
THEOREM StoreTypeCorrect == Spec => []TypeOK
<1>1. StoreInv => TypeOK
  BY DEF StoreInv
<1> QED
  BY <1>1, StoreInvariant, PTL

\* An update that sends no profile is never undone by another write, because
\* prisma.update leaves the columns it is not given alone.
THEOREM DeactivationHolds == Spec => []DeactivationStands
<1>1. StoreInv => DeactivationStands
  BY DEF StoreInv, ColumnsStand, DeactivationStands, Acked, Committed
<1> QED
  BY <1>1, StoreInvariant, PTL

\* A flag that was acknowledged keeps its value unless the write fell into the
\* window of a write that had read the profile before.
THEOREM FlagHolds == Spec => []SettingStaysUnlessOverlapped
<1>1. StoreInv => SettingStaysUnlessOverlapped
  BY DEF StoreInv, FlagStands, SettingStaysUnlessOverlapped, Acked, Committed
<1> QED
  BY <1>1, StoreInvariant, PTL

\* No update, settings write or locked write brings a deleted endpoint back, and
\* no create is given its id.
THEOREM DeletedHolds == Spec => DeletedNeverReturns
<1>1. StoreInv /\ [Next]_vars =>
          [\A i \in Id : i \in generated /\ db[i] = NoRow => db'[i] = NoRow]_vars
  <2> SUFFICES ASSUME StoreInv, [Next]_vars, NEW i \in Id, i \in generated, db[i] = NoRow
               PROVE  db'[i] = NoRow
    OBVIOUS
  <2>1. ASSUME NEW r \in Request, Commit(r), Accepts(r)
        PROVE  db'[i] = NoRow
    <3>1. /\ op[r].ref \in Id /\ db' = [db EXCEPT ![op[r].ref] = RowAfter(r)]
          /\ \/ op[r].kind = "create" /\ op[r].ref \notin generated
             \/ op[r].kind = "delete" /\ RowAfter(r) = NoRow
             \/ db[op[r].ref] \in Row
      BY <2>1, Written
    <3>2. db \in [Id -> Row \cup {NoRow}]
      BY DEF StoreInv, TypeOK
    <3>3. CASE i = op[r].ref
      BY <3>1, <3>2, <3>3, OperationAssumption
    <3>4. CASE i # op[r].ref
      BY <3>1, <3>2, <3>4
    <3> QED
      BY <3>3, <3>4
  <2>2. ASSUME NEW r \in Request, Commit(r), ~Accepts(r)
        PROVE  db' = db
    BY <2>2 DEF Commit
  <2>3. ASSUME NEW r \in Request, Arrive(r) \/ DatabaseFails(r)
        PROVE  db' = db
    BY <2>3 DEF Arrive, ArriveGet, ArriveLocked, ArriveWrite, DatabaseFails
  <2>4. ASSUME NEW r \in Request, Step(r), ~Commit(r)
        PROVE  db' = db
    BY <2>4 DEF Step, FillRead, FillApply, LoadBlock, Unlock, ReadRow, Apply
  <2>5. CASE UNCHANGED vars
    BY <2>5 DEF vars
  <2> QED
    BY <2>1, <2>2, <2>3, <2>4, <2>5 DEF Next, Done
<1> QED
  BY <1>1, StoreInvariant, PTL DEF Spec, DeletedNeverReturns

-----------------------------------------------------------------------------
(* The requests under the keyed lock. The proofs about the lock are those of *)
(* KeyedMutex_proofs, with a request for each call and an endpoint's id for  *)
(* each key.                                                                 *)

Chain == INSTANCE KeyedMutex_proofs WITH Call <- Request, Key <- Id, NoCall <- NoRequest

\* Where a request is, and what it holds there.
Placed ==
    \A r \in Request :
        /\ result[r] # "none" => pc[r] \in {"unlock", "done"}
        /\ op[r].kind = "get" /\ (raced[r] # {} \/ result[r] = "lost") => pc[r] = "done"
        /\ pc[r] = "filled" /\ op[r].ref \in Id => row[r].id = op[r].ref
        /\ pc[r] = "apply" /\ op[r].kind # "delete" => row[r] # NoRow /\ row[r].id = op[r].ref
        /\ captured[r] # NoRow => op[r].kind = "delete" /\ captured[r].id = op[r].ref
        /\ Locks(r) /\ Committed(r) => op[r].ref \in generated

\* Rows are stored and cached under their own id.
OwnId ==
    \A i \in Id :
        /\ db[i] # NoRow => db[i].id = i
        /\ cacheById[i] # NoRow => cacheById[i].id = i

\* The callback of a locked request runs while the lock lets it.
UnderLock ==
    \A r \in Request : Locks(r) =>
        /\ key[r] = op[r].ref
        /\ pc[r] = "idle" => stage[r] = "idle"
        /\ pc[r] = "locked" => stage[r] = "waiting"
        /\ pc[r] \in {"fill", "filled", "read", "commit", "apply", "unlock"} => stage[r] = "running"

\* The part both invariants share.
PlaceInv == StoreInv /\ Placed /\ OwnId /\ UnderLock /\ Chain!MutexInv

\* A step of r leaves the variables of the other requests alone.
Others(r) ==
    \A q \in Request \ {r} :
        /\ pc'[q] = pc[q] /\ result'[q] = result[q] /\ row'[q] = row[q]
        /\ loaded'[q] = loaded[q] /\ captured'[q] = captured[q] /\ raced'[q] = raced[q]

Finished(r) == IF Locks(r) THEN "unlock" ELSE "done"

LEMMA ArriveGetMoves ==
    ASSUME TypeOK, NEW r \in Request, ArriveGet(r)
    PROVE  /\ Others(r) /\ pc[r] = "idle" /\ op[r].kind = "get" /\ ~Locks(r)
           /\ \/ pc'[r] = "done" /\ result'[r] = "ok"
              \/ pc'[r] = "fill" /\ result'[r] = result[r]
           /\ UNCHANGED <<db, generated, cacheById, cacheByName, op, row, loaded, captured, raced>>
           /\ UNCHANGED <<tails, stage, key, prev>>
<1>1. "ok" \in Answers /\ "fill" \in Place
  BY DEF Answers, Place
<1>2. CASE Answer(r, "ok")
  BY <1>1, <1>2, Answered DEF ArriveGet, Others, Locks, cacheVars, lockVars
<1>3. CASE Goto(r, "fill")
  BY <1>1, <1>3, Gone DEF ArriveGet, Others, Locks, cacheVars, lockVars
<1> QED
  BY <1>2, <1>3 DEF ArriveGet

LEMMA FillReadMoves ==
    ASSUME TypeOK, NEW r \in Request, FillRead(r)
    PROVE  /\ Others(r) /\ pc[r] = "fill"
           /\ row'[r] = Find(op[r].ref) /\ loaded'[r] = loaded[r]
           /\ \/ pc'[r] = "filled" /\ row'[r] # NoRow /\ result'[r] = result[r]
              \/ pc'[r] = Finished(r) /\ result'[r] = "error" /\ row'[r] = NoRow
           /\ UNCHANGED <<db, generated, cacheById, cacheByName, op, loaded, captured, raced>>
           /\ UNCHANGED <<tails, stage, key, prev>>
<1>1. "error" \in Answers /\ "filled" \in Place
  BY DEF Answers, Place
<1>2. row'[r] = Find(op[r].ref) /\ \A q \in Request \ {r} : row'[q] = row[q]
  BY DEF FillRead, TypeOK
<1>3. CASE Find(op[r].ref) = NoRow
  <2>1. Answer(r, "error")
    BY <1>3 DEF FillRead
  <2> QED
    BY <1>1, <1>2, <1>3, <2>1, Answered DEF FillRead, Others, Finished, cacheVars, lockVars
<1>4. CASE Find(op[r].ref) # NoRow
  <2>1. Goto(r, "filled")
    BY <1>4 DEF FillRead
  <2> QED
    BY <1>1, <1>2, <1>4, <2>1, Gone DEF FillRead, Others, cacheVars, lockVars
<1> QED
  BY <1>3, <1>4

LEMMA BlockMoves ==
    ASSUME TypeOK, NEW r \in Request, NEW methods, TakeBlock(r, methods), Locks(r)
    PROVE  /\ \A q \in Request \ {r} :
                 pc'[q] = pc[q] /\ result'[q] = result[q] /\ loaded'[q] = loaded[q]
           /\ loaded'[r] = methods
           /\ \/ pc'[r] = "unlock" /\ result'[r] = "error"
              \/ /\ pc'[r] = "read" /\ result'[r] = result[r]
                 /\ op[r].kind = "remove" => op[r].method \in methods
<1>1. "error" \in Answers /\ "read" \in Place
  BY DEF Answers, Place
<1>2. loaded'[r] = methods /\ \A q \in Request \ {r} : loaded'[q] = loaded[q]
  BY DEF TakeBlock, TypeOK
<1>3. CASE op[r].kind = "remove" /\ op[r].method \notin methods
  <2>1. Answer(r, "error")
    BY <1>3 DEF TakeBlock
  <2> QED
    BY <1>1, <1>2, <2>1, Answered
<1>4. CASE ~(op[r].kind = "remove" /\ op[r].method \notin methods)
  <2>1. Goto(r, "read")
    BY <1>4 DEF TakeBlock
  <2> QED
    BY <1>1, <1>2, <1>4, <2>1, Gone
<1> QED
  BY <1>3, <1>4

LEMMA FillApplyMoves ==
    ASSUME TypeOK, InHand, NEW r \in Request, FillApply(r)
    PROVE  /\ Others(r) /\ pc[r] = "filled" /\ row[r] \in Row /\ CacheSet(row[r])
           /\ Overlapping(r) \subseteq raced'[r] /\ raced[r] \subseteq raced'[r]
           /\ Locks(r) =>
                 /\ loaded'[r] = row[r].methods
                 /\ \/ pc'[r] = "unlock" /\ result'[r] = "error"
                    \/ /\ pc'[r] = "read" /\ result'[r] = result[r]
                       /\ op[r].kind = "remove" => op[r].method \in row[r].methods
           /\ ~Locks(r) => /\ op[r].kind = "get" /\ loaded'[r] = loaded[r]
                           /\ pc'[r] = "done" /\ result'[r] = "ok"
           /\ UNCHANGED <<db, generated, op, row, captured>>
           /\ UNCHANGED <<tails, stage, key, prev>>
<1>1. "ok" \in Answers
  BY DEF Answers
<1>2. row[r] \in Row /\ pc[r] = "filled" /\ (op[r].kind = "get" \/ Locks(r))
  BY DEF FillApply, InHand, TypeOK
<1>3. /\ \A q \in Request \ {r} : raced'[q] = raced[q]
      /\ Overlapping(r) \subseteq raced'[r] /\ raced[r] \subseteq raced'[r]
  BY DEF FillApply, Mark, TypeOK
<1>4. CASE Locks(r)
  <2>1. TakeBlock(r, row[r].methods)
    BY <1>4 DEF FillApply
  <2> QED
    BY <1>2, <1>3, <1>4, <2>1, BlockMoves DEF FillApply, Others, lockVars
<1>5. CASE ~Locks(r)
  <2>1. Answer(r, "ok") /\ loaded' = loaded
    BY <1>5 DEF FillApply
  <2> QED
    BY <1>1, <1>2, <1>3, <1>5, <2>1, Answered DEF FillApply, Others, lockVars
<1> QED
  BY <1>4, <1>5

LEMMA ArriveLockedMoves ==
    ASSUME TypeOK, NEW r \in Request, ArriveLocked(r)
    PROVE  /\ Others(r) /\ pc[r] = "idle" /\ Locks(r) /\ pc'[r] = "locked"
           /\ Lock!Enter(r)
           /\ UNCHANGED <<db, generated, cacheById, cacheByName, op, row, loaded, captured,
                          result, raced>>
<1>1. "locked" \in Place
  BY DEF Place
<1>2. Goto(r, "locked")
  BY DEF ArriveLocked
<1> QED
  BY <1>1, <1>2, Gone DEF ArriveLocked, Others, cacheVars

LEMMA LoadBlockMoves ==
    ASSUME TypeOK, InHand, NEW r \in Request, LoadBlock(r)
    PROVE  /\ Others(r) /\ pc[r] = "locked" /\ Locks(r) /\ op[r].ref \in Id
           /\ Lock!Start(r)
           /\ \/ /\ pc'[r] = "fill" /\ result'[r] = result[r] /\ loaded'[r] = loaded[r]
              \/ /\ cacheById[op[r].ref] # NoRow
                 /\ loaded'[r] = cacheById[op[r].ref].methods
                 /\ \/ pc'[r] = "unlock" /\ result'[r] = "error"
                    \/ /\ pc'[r] = "read" /\ result'[r] = result[r]
                       /\ op[r].kind = "remove" => op[r].method \in loaded'[r]
           /\ UNCHANGED <<db, generated, cacheById, cacheByName, op, row, captured, raced>>
<1>1. "fill" \in Place
  BY DEF Place
<1>2. pc[r] = "locked" /\ Locks(r) /\ op[r].ref \in Id
  <2>1. Locks(r)
    BY DEF LoadBlock, InHand
  <2> QED
    BY <2>1, OpFacts DEF LoadBlock, Locks
<1>3. CASE Cached(op[r].ref) # NoRow
  <2>1. TakeBlock(r, cacheById[op[r].ref].methods) /\ cacheById[op[r].ref] # NoRow
    BY <1>2, <1>3 DEF LoadBlock, Cached
  <2> QED
    BY <1>2, <2>1, BlockMoves DEF LoadBlock, Others, cacheVars
<1>4. CASE Cached(op[r].ref) = NoRow
  <2>1. Goto(r, "fill") /\ loaded' = loaded
    BY <1>4 DEF LoadBlock
  <2> QED
    BY <1>1, <1>2, <2>1, Gone DEF LoadBlock, Others, cacheVars
<1> QED
  BY <1>3, <1>4

LEMMA UnlockMoves ==
    ASSUME TypeOK, InHand, NEW r \in Request, Unlock(r)
    PROVE  /\ Others(r) /\ pc[r] = "unlock" /\ Locks(r) /\ pc'[r] = "done"
           /\ Lock!Finish(r, "resolved") \/ Lock!Finish(r, "rejected")
           /\ UNCHANGED <<db, generated, cacheById, cacheByName, op, row, loaded, captured,
                          result, raced>>
<1>1. "done" \in Place
  BY DEF Place
<1>2. Goto(r, "done") /\ Locks(r)
  BY DEF Unlock, InHand
<1> QED
  BY <1>1, <1>2, Gone DEF Unlock, Others, cacheVars

LEMMA ArriveWriteMoves ==
    ASSUME TypeOK, NEW r \in Request, ArriveWrite(r)
    PROVE  /\ Others(r) /\ pc[r] = "idle" /\ ~Locks(r) /\ op[r].kind # "get" /\ pc'[r] = "read"
           /\ op[r].kind = "delete" => captured'[r] = cacheById[op[r].ref]
           /\ op[r].kind # "delete" => captured'[r] = NoRow
           /\ UNCHANGED <<db, generated, cacheById, cacheByName, op, row, loaded, result, raced>>
           /\ UNCHANGED <<tails, stage, key, prev>>
<1>1. "read" \in Place
  BY DEF Place
<1>2. Goto(r, "read")
  BY DEF ArriveWrite
<1>3. /\ captured'[r] = IF op[r].kind = "delete" THEN cacheById[op[r].ref] ELSE NoRow
      /\ \A q \in Request \ {r} : captured'[q] = captured[q]
  BY DEF ArriveWrite, TypeOK
<1> QED
  BY <1>1, <1>2, <1>3, Gone DEF ArriveWrite, Others, Locks, cacheVars, lockVars

LEMMA ReadRowMoves ==
    ASSUME TypeOK, InHand, NEW r \in Request, ReadRow(r)
    PROVE  /\ Others(r) /\ pc[r] = "read" /\ op[r].kind # "get" /\ op[r].ref \in Id
           /\ op[r].kind # "create" => row'[r] = db[op[r].ref]
           /\ op[r].kind = "create" => row'[r] = FindByName(op[r].name)
           /\ \/ /\ pc'[r] = "commit" /\ result'[r] = result[r]
                 /\ (op[r].kind = "create") <=> (row'[r] = NoRow)
              \/ pc'[r] = Finished(r) /\ result'[r] = "error"
           /\ UNCHANGED <<db, generated, cacheById, cacheByName, op, loaded, captured, raced>>
           /\ UNCHANGED <<tails, stage, key, prev>>
<1> DEFINE found == IF op[r].kind = "create" THEN FindByName(op[r].name) ELSE db[op[r].ref]
<1>1. "error" \in Answers /\ "commit" \in Place
  BY DEF Answers, Place
<1>2. row'[r] = found /\ \A q \in Request \ {r} : row'[q] = row[q]
  BY DEF ReadRow, TypeOK
<1>3. pc[r] = "read" /\ op[r].kind # "get" /\ op[r].ref \in Id
  BY OpFacts DEF ReadRow, InHand
<1>4. \/ Goto(r, "commit") /\ ((op[r].kind = "create") <=> (found = NoRow))
      \/ Answer(r, "error")
  BY DEF ReadRow
<1>5. UNCHANGED <<db, generated, cacheById, cacheByName, op, loaded, captured, raced, tails, stage, key, prev>>
  BY DEF ReadRow, cacheVars, lockVars
<1>6. found = (IF op[r].kind = "create" THEN FindByName(op[r].name) ELSE db[op[r].ref])
  OBVIOUS
<1> HIDE DEF found
<1>7. CASE Answer(r, "error")
  BY <1>1, <1>2, <1>3, <1>5, <1>6, <1>7, Answered DEF Others, Finished
<1>8. CASE Goto(r, "commit") /\ ((op[r].kind = "create") <=> (found = NoRow))
  BY <1>1, <1>2, <1>3, <1>5, <1>6, <1>8, Gone DEF Others
<1> QED
  BY <1>4, <1>7, <1>8

LEMMA RefusedMoves ==
    ASSUME TypeOK, NEW r \in Request, Commit(r), ~Accepts(r)
    PROVE  /\ Others(r) /\ pc[r] = "commit" /\ pc'[r] = Finished(r) /\ result'[r] = "error"
           /\ UNCHANGED <<db, generated, cacheById, cacheByName, op, row, loaded, captured, raced>>
           /\ UNCHANGED <<tails, stage, key, prev>>
<1>1. "error" \in Answers /\ Answer(r, "error")
  BY DEF Answers, Commit
<1> QED
  BY <1>1, Answered DEF Commit, Others, Finished, cacheVars, lockVars

LEMMA AcceptedMoves ==
    ASSUME StoreInv, NEW r \in Request, Commit(r), Accepts(r)
    PROVE  /\ Others(r) /\ pc[r] = "commit" /\ pc'[r] = "apply" /\ result' = result
           /\ op[r].kind # "get" /\ op[r].ref \in Id
           /\ Overlapping(r) \subseteq raced'[r] /\ raced[r] \subseteq raced'[r]
           /\ row'[r] = RowAfter(r) /\ db'[op[r].ref] = RowAfter(r)
           /\ \A i \in Id \ {op[r].ref} : db'[i] = db[i]
           /\ generated' = generated \cup {op[r].ref}
           /\ \/ /\ op[r].kind = "create" /\ op[r].ref \notin generated
                 /\ RowAfter(r) = NewRow(r)
              \/ op[r].kind = "delete" /\ RowAfter(r) = NoRow
              \/ /\ op[r].kind \in {"settings", "columns", "add", "remove"}
                 /\ row[r] \in Row /\ db[op[r].ref] \in Row
                 /\ RowAfter(r) = Merged(r, db[op[r].ref])
           /\ UNCHANGED <<cacheById, cacheByName, op, loaded, captured>>
           /\ UNCHANGED <<tails, stage, key, prev>>
<1>1. "apply" \in Place /\ Goto(r, "apply") /\ TypeOK /\ op[r].kind # "get"
  BY DEF Place, Commit, StoreInv, InHand
<1>2. /\ \A q \in Request \ {r} : raced'[q] = raced[q]
      /\ Overlapping(r) \subseteq raced'[r] /\ raced[r] \subseteq raced'[r]
  BY <1>1 DEF Commit, Mark, TypeOK
<1>3. row'[r] = RowAfter(r) /\ \A q \in Request \ {r} : row'[q] = row[q]
  BY <1>1 DEF Commit, TypeOK
<1>4. /\ op[r].ref \in Id /\ db' = [db EXCEPT ![op[r].ref] = RowAfter(r)]
      /\ \/ op[r].kind = "create" /\ op[r].ref \notin generated
         \/ op[r].kind = "delete" /\ RowAfter(r) = NoRow
         \/ /\ op[r].kind \in {"settings", "columns", "add", "remove"}
            /\ row[r] \in Row /\ db[op[r].ref] \in Row
            /\ RowAfter(r) = Merged(r, db[op[r].ref])
  BY Written
<1>5. db'[op[r].ref] = RowAfter(r) /\ \A i \in Id \ {op[r].ref} : db'[i] = db[i]
  BY <1>1, <1>4 DEF TypeOK
<1>6. op[r].kind = "create" => RowAfter(r) = NewRow(r)
  BY DEF RowAfter
<1> QED
  BY <1>1, <1>2, <1>3, <1>4, <1>5, <1>6, Gone DEF Commit, Others, cacheVars, lockVars

LEMMA ApplyMoves ==
    ASSUME TypeOK, NEW r \in Request, Apply(r)
    PROVE  /\ Others(r) /\ pc[r] = "apply" /\ pc'[r] = Finished(r) /\ result'[r] = "ok"
           /\ {q \in Overlapping(r) : op[q].kind = "delete"} \subseteq raced'[r]
           /\ raced[r] \subseteq raced'[r]
           /\ op[r].kind # "delete" => CacheSet(row[r])
           /\ op[r].kind = "delete" /\ captured[r] # NoRow => CacheDelete(captured[r])
           /\ op[r].kind = "delete" /\ captured[r] = NoRow => UNCHANGED <<cacheById, cacheByName>>
           /\ UNCHANGED <<db, generated, op, row, loaded, captured>>
           /\ UNCHANGED <<tails, stage, key, prev>>
<1>1. "ok" \in Answers /\ Answer(r, "ok")
  BY DEF Answers, Apply
<1>2. /\ \A q \in Request \ {r} : raced'[q] = raced[q]
      /\ {q \in Overlapping(r) : op[q].kind = "delete"} \subseteq raced'[r]
      /\ raced[r] \subseteq raced'[r]
  BY DEF Apply, Mark, TypeOK
<1> QED
  BY <1>1, <1>2, Answered DEF Apply, Others, Finished, cacheVars, lockVars

LEMMA DatabaseFailsMoves ==
    ASSUME TypeOK, NEW r \in Request, DatabaseFails(r)
    PROVE  /\ Others(r) /\ pc[r] \in {"fill", "read", "commit", "apply"} /\ pc'[r] = Finished(r)
           /\ result'[r] = (IF pc[r] = "apply" THEN "lost" ELSE "failed")
           /\ UNCHANGED <<db, generated, cacheById, cacheByName, op, row, loaded, captured, raced>>
           /\ UNCHANGED <<tails, stage, key, prev>>
<1>1. /\ Answer(r, IF pc[r] = "apply" THEN "lost" ELSE "failed")
      /\ (IF pc[r] = "apply" THEN "lost" ELSE "failed") \in Answers
  BY DEF DatabaseFails, Answers
<1> QED
  BY <1>1, Answered DEF DatabaseFails, Others, Finished, cacheVars, lockVars

\* The chain of the lock under every step.
LEMMA ChainStep ==
    ASSUME Chain!MutexInv, NEW r \in Request,
           \/ Lock!Enter(r) \/ Lock!Start(r) \/ UNCHANGED <<tails, stage, key, prev>>
           \/ Lock!Finish(r, "resolved") \/ Lock!Finish(r, "rejected")
    PROVE  /\ Chain!MutexInv' /\ key' = key
           /\ \A q \in Request \ {r} : stage'[q] = stage[q]
           /\ Lock!Enter(r) => stage'[r] = "waiting"
           /\ Lock!Start(r) => stage'[r] = "running"
<1>1. NoRequest \notin Request
  BY DistinctNone
<1>2. stage \in [Request -> {"idle", "waiting", "running", "resolved", "rejected"}]
  BY DEF Chain!MutexInv, Chain!MutexTypeOK
<1>3. /\ key' = key /\ \A q \in Request \ {r} : stage'[q] = stage[q]
      /\ Lock!Enter(r) => stage'[r] = "waiting"
      /\ Lock!Start(r) => stage'[r] = "running"
  BY <1>2 DEF Lock!Enter, Lock!Start, Lock!Finish
<1>4. \/ Chain!MutexNext \/ UNCHANGED <<tails, stage, key, prev>>
  BY DEF Lock!Enter, Lock!Start, Lock!Finish, Lock!PreviousSettled, Lock!Released, Lock!TailsWithout,
         Chain!MutexNext, Chain!Enter, Chain!Start, Chain!Finish, Chain!PreviousSettled,
         Chain!Released, Chain!TailsWithout
<1>5. Chain!MutexInv'
  BY <1>1, <1>4, Chain!MutexNextInv DEF Chain!mutexVars
<1> QED
  BY <1>3, <1>5

\* Two requests inside the locked callback are about different endpoints.
LEMMA Alone ==
    ASSUME Chain!MutexInv, NEW p \in Request, NEW q \in Request,
           stage[p] = "running", stage[q] = "running", key[p] = key[q]
    PROVE  p = q
BY DEF Chain!MutexInv, Chain!OneEligible

\* The row a miss finds is a row of the table, under its own id.
LEMMA FoundOwnId ==
    ASSUME TypeOK, OwnId, NEW ref, Find(ref) # NoRow
    PROVE  /\ Find(ref).id \in Id /\ Find(ref) = db[Find(ref).id]
           /\ ref \in Id => Find(ref).id = ref
<1>1. CASE ref \in Id
  BY <1>1 DEF Find, OwnId, TypeOK
<1>2. CASE ref \notin Id
  <2>1. PICK i \in Id : db[i] # NoRow /\ Find(ref) = db[i]
    BY <1>2, ByNameFacts DEF Find, TypeOK
  <2> QED
    BY <1>2, <2>1 DEF OwnId
<1> QED
  BY <1>1, <1>2

LEMMA NewRowTyped ==
    ASSUME TypeOK, NEW r \in Request, op[r].kind = "create"
    PROVE  NewRow(r) \in Row
<1>1. op[r].name \in Name /\ op[r].ref \in Id
  BY OpFacts
<1> DEFINE s == [f \in Flag |-> NoRequest]
<1>2. s \in [Flag -> Request \cup {NoRequest}]
  OBVIOUS
<1>3. NewRow(r) = [id |-> op[r].ref, name |-> op[r].name, settings |-> s,
                   methods |-> {}, columns |-> NoRequest]
  BY DEF NewRow
<1> HIDE DEF s
<1> QED
  BY <1>1, <1>2, <1>3 DEF Row

\* A write stores the row under its own id, with the name it had.
LEMMA WrittenOwnId ==
    ASSUME StoreInv, OwnId, NEW r \in Request, Commit(r), Accepts(r), RowAfter(r) # NoRow
    PROVE  /\ RowAfter(r).id = op[r].ref
           /\ op[r].kind # "create" => db[op[r].ref] # NoRow /\ RowAfter(r).name = db[op[r].ref].name
<1>1. CASE op[r].kind = "create"
  BY <1>1, AcceptedMoves DEF NewRow
<1>2. CASE op[r].kind # "create"
  <2>1. /\ op[r].kind \in {"settings", "columns", "add", "remove"} /\ op[r].ref \in Id
        /\ db[op[r].ref] \in Row /\ RowAfter(r) = Merged(r, db[op[r].ref])
    BY <1>2, AcceptedMoves
  <2>2. db[op[r].ref] # NoRow
    BY <2>1, OperationAssumption
  <2>3. /\ Merged(r, db[op[r].ref]).id = db[op[r].ref].id
        /\ Merged(r, db[op[r].ref]).name = db[op[r].ref].name
    BY <2>1 DEF Merged, Row
  <2> QED
    BY <1>2, <2>1, <2>2, <2>3 DEF OwnId
<1> QED
  BY <1>1, <1>2

\* What the caches keep: a row under its own id, or an entry they had.
LEMMA SetById ==
    ASSUME TypeOK, NEW e \in Row, CacheSet(e)
    PROVE  /\ e.id \in Id /\ e.name \in Name
           /\ cacheById'[e.id] = e /\ \A i \in Id \ {e.id} : cacheById'[i] = cacheById[i]
           /\ cacheByName'[e.name] = e /\ \A n \in Name \ {e.name} : cacheByName'[n] = cacheByName[n]
BY DEF CacheSet, TypeOK, Row

LEMMA DropById ==
    ASSUME TypeOK, NEW e \in Row, CacheDelete(e)
    PROVE  /\ e.id \in Id /\ e.name \in Name
           /\ cacheById'[e.id] = NoRow /\ \A i \in Id \ {e.id} : cacheById'[i] = cacheById[i]
           /\ cacheByName'[e.name] = NoRow
           /\ \A n \in Name \ {e.name} : cacheByName'[n] = cacheByName[n]
BY DEF CacheDelete, TypeOK, Row

LEMMA PlaceStutter ==
    ASSUME PlaceInv, UNCHANGED vars
    PROVE  PlaceInv'
<1>1. StoreInv'
  BY StutterStep DEF PlaceInv
<1>2. /\ UNCHANGED <<db, generated, cacheById, cacheByName, op, pc, row, loaded, captured,
                    result, raced>>
      /\ UNCHANGED <<tails, stage, key, prev>>
  BY DEF vars, lockVars, cacheVars
<1>3. Placed' /\ OwnId' /\ UnderLock'
  BY <1>2 DEF PlaceInv, Placed, OwnId, UnderLock, Locks, Committed
<1>4. Chain!MutexInv'
  <2>1. NoRequest \notin Request
    BY DistinctNone
  <2> QED
    BY <1>2, <2>1, Chain!MutexNextInv DEF PlaceInv, Chain!mutexVars
<1> QED
  BY <1>1, <1>3, <1>4 DEF PlaceInv

\* A step keeps requests in their places and rows under their ids.
LEMMA PlaceStep ==
    ASSUME PlaceInv, NEW r \in Request, Arrive(r) \/ Step(r) \/ DatabaseFails(r)
    PROVE  Placed' /\ OwnId' /\ UnderLock' /\ Chain!MutexInv'
<1>1. StoreInv /\ TypeOK /\ InHand /\ Placed /\ OwnId /\ UnderLock /\ Chain!MutexInv
  BY DEF PlaceInv, StoreInv
<1>2. NoRow \notin Row
  BY OperationAssumption
<1>3. CASE ArriveGet(r)
  <2>1. Chain!MutexInv' /\ UnderLock'
    BY <1>1, <1>3, ArriveGetMoves, ChainStep DEF UnderLock, Others, Locks
  <2>2. Placed' /\ OwnId'
    BY <1>1, <1>3, ArriveGetMoves DEF Placed, OwnId, Others, Locks, Committed
  <2> QED
    BY <2>1, <2>2
<1>4. CASE FillRead(r)
  <2>1. Chain!MutexInv' /\ UnderLock'
    BY <1>1, <1>4, FillReadMoves, ChainStep DEF UnderLock, Others, Locks, Finished
  <2>2. row'[r] # NoRow /\ op[r].ref \in Id => row'[r].id = op[r].ref
    BY <1>1, <1>4, FillReadMoves, FoundOwnId
  <2>3. Placed' /\ OwnId'
    BY <1>1, <1>4, <2>2, FillReadMoves DEF Placed, OwnId, Others, Locks, Committed, Finished
  <2> QED
    BY <2>1, <2>3
<1>5. CASE FillApply(r)
  <2>1. Chain!MutexInv' /\ UnderLock'
    BY <1>1, <1>5, FillApplyMoves, ChainStep DEF UnderLock, Others, Locks
  <2>2. Placed'
    BY <1>1, <1>5, FillApplyMoves DEF Placed, Others, Locks, Committed
  <2>3. OwnId'
    BY <1>1, <1>5, FillApplyMoves, SetById DEF OwnId
  <2> QED
    BY <2>1, <2>2, <2>3
<1>6. CASE ArriveLocked(r)
  <2>1. Chain!MutexInv' /\ UnderLock'
    BY <1>1, <1>6, ArriveLockedMoves, ChainStep DEF UnderLock, Others, Locks
  <2>2. Placed' /\ OwnId'
    BY <1>1, <1>6, ArriveLockedMoves DEF Placed, OwnId, Others, Locks, Committed
  <2> QED
    BY <2>1, <2>2
<1>7. CASE LoadBlock(r)
  <2>1. Chain!MutexInv' /\ UnderLock'
    BY <1>1, <1>7, LoadBlockMoves, ChainStep DEF UnderLock, Others, Locks
  <2>2. Placed' /\ OwnId'
    BY <1>1, <1>7, LoadBlockMoves DEF Placed, OwnId, Others, Locks, Committed
  <2> QED
    BY <2>1, <2>2
<1>8. CASE Unlock(r)
  <2>1. Chain!MutexInv' /\ UnderLock'
    BY <1>1, <1>8, UnlockMoves, ChainStep DEF UnderLock, Others, Locks
  <2>2. Placed' /\ OwnId'
    BY <1>1, <1>8, UnlockMoves DEF Placed, OwnId, Others, Locks, Committed
  <2> QED
    BY <2>1, <2>2
<1>9. CASE ArriveWrite(r)
  <2>1. Chain!MutexInv' /\ UnderLock'
    BY <1>1, <1>9, ArriveWriteMoves, ChainStep DEF UnderLock, Others, Locks
  <2>2. op[r].kind = "delete" => op[r].ref \in Id
    BY <1>1, OpFacts
  <2>3. Placed' /\ OwnId'
    BY <1>1, <1>9, <2>2, ArriveWriteMoves DEF Placed, OwnId, Others, Locks, Committed
  <2> QED
    BY <2>1, <2>3
<1>10. CASE ReadRow(r)
  <2>1. Chain!MutexInv' /\ UnderLock'
    BY <1>1, <1>10, ReadRowMoves, ChainStep DEF UnderLock, Others, Locks, Finished
  <2>2. Placed' /\ OwnId'
    BY <1>1, <1>10, ReadRowMoves DEF Placed, OwnId, Others, Locks, Committed, Finished
  <2> QED
    BY <2>1, <2>2
<1>11. CASE Commit(r) /\ ~Accepts(r)
  <2>1. Chain!MutexInv' /\ UnderLock'
    BY <1>1, <1>11, RefusedMoves, ChainStep DEF UnderLock, Others, Locks, Finished
  <2>2. Placed' /\ OwnId'
    BY <1>1, <1>11, RefusedMoves DEF Placed, OwnId, Others, Locks, Committed, Finished
  <2> QED
    BY <2>1, <2>2
<1>12. CASE Commit(r) /\ Accepts(r)
  <2>1. Chain!MutexInv' /\ UnderLock'
    BY <1>1, <1>12, AcceptedMoves, ChainStep DEF UnderLock, Others, Locks
  <2>2. RowAfter(r) # NoRow => RowAfter(r).id = op[r].ref
    BY <1>1, <1>12, WrittenOwnId
  <2>3. OwnId'
    BY <1>1, <1>12, <2>2, AcceptedMoves DEF OwnId
  <2>4. op[r].kind # "delete" => RowAfter(r) # NoRow
    <3>1. CASE op[r].kind = "create"
      <4>1. NewRow(r) \in Row /\ RowAfter(r) = NewRow(r)
        BY <1>1, <1>12, <3>1, AcceptedMoves, NewRowTyped
      <4> QED
        BY <1>2, <4>1
    <3>2. CASE op[r].kind \in {"settings", "columns", "add", "remove"}
      <4>1. row[r] \in Row /\ db[op[r].ref] \in Row /\ RowAfter(r) = Merged(r, db[op[r].ref])
        BY <1>1, <1>12, <3>2, AcceptedMoves
      <4>2. Merged(r, db[op[r].ref]) \in Row
        BY <1>1, <3>2, <4>1, MergedFacts
      <4> QED
        BY <1>2, <4>1, <4>2
    <3> QED
      BY <1>1, <1>12, <3>1, <3>2, AcceptedMoves
  <2>5. Placed'
    BY <1>1, <1>12, <2>2, <2>4, AcceptedMoves DEF Placed, Others, Locks, Committed
  <2> QED
    BY <2>1, <2>3, <2>5
<1>13. CASE Apply(r)
  <2>1. Chain!MutexInv' /\ UnderLock'
    BY <1>1, <1>13, ApplyMoves, ChainStep DEF UnderLock, Others, Locks, Finished
  <2>2. op[r].kind # "get"
    BY <1>1, <1>13, ApplyMoves DEF InHand
  <2>3. Placed'
    BY <1>1, <1>13, <2>2, ApplyMoves DEF Placed, Others, Locks, Committed, Finished
  <2>4. OwnId'
    <3>1. CASE op[r].kind # "delete"
      <4>1. row[r] \in Row
        BY <1>1, <1>13, <3>1, ApplyMoves DEF Placed, TypeOK
      <4> QED
        BY <1>1, <1>13, <3>1, <4>1, ApplyMoves, SetById DEF OwnId
    <3>2. CASE op[r].kind = "delete" /\ captured[r] # NoRow
      <4>1. captured[r] \in Row
        BY <1>1, <3>2 DEF TypeOK
      <4> QED
        BY <1>1, <1>13, <3>2, <4>1, ApplyMoves, DropById DEF OwnId
    <3>3. CASE op[r].kind = "delete" /\ captured[r] = NoRow
      BY <1>1, <1>13, <3>3, ApplyMoves DEF OwnId
    <3> QED
      BY <3>1, <3>2, <3>3
  <2> QED
    BY <2>1, <2>3, <2>4
<1>14. CASE DatabaseFails(r)
  <2>1. Chain!MutexInv' /\ UnderLock'
    BY <1>1, <1>14, DatabaseFailsMoves, ChainStep DEF UnderLock, Others, Locks, Finished
  <2>2. pc[r] = "apply" => op[r].kind # "get"
    BY <1>1 DEF InHand
  <2>3. Placed' /\ OwnId'
    BY <1>1, <1>14, <2>2, DatabaseFailsMoves DEF Placed, OwnId, Others, Locks, Committed, Finished
  <2> QED
    BY <2>1, <2>3
<1> QED
  BY <1>3, <1>4, <1>5, <1>6, <1>7, <1>8, <1>9, <1>10, <1>11, <1>12, <1>13, <1>14 DEF Arrive, Step

LEMMA PlaceNext ==
    ASSUME PlaceInv, [Next]_vars
    PROVE  PlaceInv'
<1>1. CASE UNCHANGED vars
  BY <1>1, PlaceStutter
<1>2. CASE Done
  BY <1>2, PlaceStutter DEF Done
<1>3. CASE \E r \in Request : Arrive(r) \/ Step(r) \/ DatabaseFails(r)
  <2>1. StoreInv'
    BY <1>3, StepHolds DEF PlaceInv, Next
  <2> QED
    BY <1>3, <2>1, PlaceStep DEF PlaceInv
<1> QED
  BY <1>1, <1>2, <1>3 DEF Next

\* A first row is stored under its id.
LEMMA FirstRow ==
    ASSUME Init, NEW i \in Id, db[i] # NoRow
    PROVE  db[i].id = i /\ db[i] \in FirstRows
<1> DEFINE has(j) == \E e \in FirstRows : e.id = j
           first(j) == CHOOSE e \in FirstRows : e.id = j
<1>1. db[i] = IF has(i) THEN first(i) ELSE NoRow
  BY DEF Init
<1>2. has(i) => first(i).id = i /\ first(i) \in FirstRows
  OBVIOUS
<1> HIDE DEF has, first
<1> QED
  BY <1>1, <1>2

LEMMA PlaceInit ==
    ASSUME Init
    PROVE  PlaceInv
<1>1. StoreInv /\ TypeOK
  BY InitHolds DEF StoreInv
<1>2. Placed
  BY <1>1 DEF Init, Placed, Committed
<1>3. OwnId
  <2>1. \A i \in Id : db[i] # NoRow => db[i].id = i
    BY FirstRow
  <2>2. cacheById = db \/ cacheById = NoRows
    BY DEF Init
  <2> QED
    BY <2>1, <2>2 DEF OwnId, NoRows
<1>4. UnderLock
  <2>1. ASSUME NEW r \in Request, Locks(r)
        PROVE  key[r] = op[r].ref /\ stage[r] = "idle" /\ pc[r] = "idle"
    BY <1>1, <2>1, OpFacts DEF Init, Locks
  <2> QED
    BY <2>1 DEF UnderLock
<1>5. Chain!MutexInv
  <2>1. NoRequest \notin Request
    BY DistinctNone
  <2>2. key \in [Request -> Id]
    BY <1>1 DEF TypeOK, Lock!MutexTypeOK
  <2>3. Chain!MutexInit
    BY <2>2 DEF Init, Chain!MutexInit
  <2> QED
    BY <2>1, <2>3, Chain!MutexInitInv
<1> QED
  BY <1>1, <1>2, <1>3, <1>4, <1>5 DEF PlaceInv

\* Where requests are, what they hold, and that the locked ones are where the
\* lock has them.
THEOREM PlacesHold == Spec => []PlaceInv
<1> QED
  BY PlaceInit, PlaceNext, PTL DEF Spec

\* Past its write, or over without one.
Past == {"apply", "unlock", "done"}

\* A method stands for the add that brought it: that add has been written.
Born(m) == m \in Request => pc[m] \in Past

\* The rows that somebody may read or still holds.
KnownRow(e) ==
    \/ \E i \in Id : e \in {db[i], cacheById[i]}
    \/ \E n \in Name : e = cacheByName[n]
    \/ \E r \in Request : e \in {row[r], captured[r]}

MethodsBorn ==
    /\ \A e \in Row : KnownRow(e) => \A m \in e.methods : Born(m)
    /\ \A r \in Request : \A m \in loaded[r] : Born(m)
    /\ \A r \in Request :
          op[r].kind = "remove" /\ (pc[r] \in {"read", "commit", "apply"} \/ Acked(r))
          => Born(op[r].method)

\* The keyed lock as add and remove use it is the lock of KeyedMutex: it starts
\* empty, and what a request does to it is an entry, a start or a finish of the
\* lock, with no other step of the store touching it.
THEOREM LockRefines == Spec => Lock!MutexInit /\ [][Lock!MutexNext]_lockVars
<1>1. Init => Lock!MutexInit
  <2> SUFFICES ASSUME Init
               PROVE  Lock!MutexInit
    OBVIOUS
  <2>1. key \in [Request -> Id]
    BY PlaceInit DEF PlaceInv, StoreInv, TypeOK, Lock!MutexTypeOK
  <2> QED
    BY <2>1 DEF Init, Lock!MutexInit
<1>2. StoreInv /\ [Next]_vars => [Lock!MutexNext]_lockVars
  <2> SUFFICES ASSUME StoreInv, [Next]_vars
               PROVE  Lock!MutexNext \/ UNCHANGED lockVars
    OBVIOUS
  <2>1. CASE UNCHANGED vars
    BY <2>1 DEF vars
  <2>2. CASE Done
    BY <2>2 DEF Done, vars
  <2>3. ASSUME NEW r \in Request, Arrive(r) \/ Step(r) \/ DatabaseFails(r)
        PROVE  Lock!MutexNext \/ UNCHANGED lockVars
    <3>1. CASE ArriveLocked(r)
      BY <3>1 DEF ArriveLocked, Lock!MutexNext
    <3>2. CASE LoadBlock(r)
      BY <3>2 DEF LoadBlock, Lock!MutexNext
    <3>3. CASE Unlock(r)
      <4>1. Lock!Finish(r, "resolved") \/ Lock!Finish(r, "rejected")
        BY <3>3 DEF Unlock
      <4> QED
        BY <4>1 DEF Lock!MutexNext
    <3> QED
      BY <2>3, <3>1, <3>2, <3>3 DEF Arrive, Step, ArriveGet, ArriveWrite, FillRead, FillApply,
         ReadRow, Commit, Apply, DatabaseFails
  <2> QED
    BY <2>1, <2>2, <2>3 DEF Next
<1> QED
  BY <1>1, <1>2, StoreInvariant, PTL DEF Spec

-----------------------------------------------------------------------------
(* What every step has in common                                            *)

\* A request that has arrived stays so, one whose write is done stays past it,
\* an answer is final, and the races that are on record stay there.
LEMMA Onward ==
    ASSUME PlaceInv, NEW r \in Request, Arrive(r) \/ Step(r) \/ DatabaseFails(r)
    PROVE  /\ Others(r) /\ op' = op
           /\ raced[r] \subseteq raced'[r]
           /\ pc[r] # "done" /\ pc'[r] # "idle"
           /\ pc[r] \in Past => pc'[r] \in Past
           /\ result[r] # "none" => result'[r] = result[r]
           /\ pc'[r] = "apply" => pc[r] = "commit" /\ Commit(r) /\ Accepts(r)
           /\ Locks(r) /\ result'[r] = "ok" => result[r] = "ok" \/ pc[r] = "apply"
<1>1. TypeOK /\ InHand /\ Placed
  BY DEF PlaceInv, StoreInv
<1>2. CASE ArriveGet(r)
  BY <1>1, <1>2, ArriveGetMoves DEF Placed, Past
<1>3. CASE FillRead(r)
  BY <1>1, <1>3, FillReadMoves DEF Placed, Past, Finished
<1>4. CASE FillApply(r)
  BY <1>1, <1>4, FillApplyMoves DEF Placed, Past
<1>5. CASE ArriveLocked(r)
  BY <1>1, <1>5, ArriveLockedMoves DEF Placed, Past
<1>6. CASE LoadBlock(r)
  BY <1>1, <1>6, LoadBlockMoves DEF Placed, Past
<1>7. CASE Unlock(r)
  BY <1>1, <1>7, UnlockMoves DEF Placed, Past
<1>8. CASE ArriveWrite(r)
  BY <1>1, <1>8, ArriveWriteMoves DEF Placed, Past
<1>9. CASE ReadRow(r)
  BY <1>1, <1>9, ReadRowMoves DEF Placed, Past, Finished
<1>10. CASE Commit(r) /\ ~Accepts(r)
  BY <1>1, <1>10, RefusedMoves DEF Placed, Past, Finished
<1>11. CASE Commit(r) /\ Accepts(r)
  BY <1>1, <1>11, AcceptedMoves DEF Placed, Past, PlaceInv
<1>12. CASE Apply(r)
  BY <1>1, <1>12, ApplyMoves DEF Placed, Past, Finished
<1>13. CASE DatabaseFails(r)
  BY <1>1, <1>13, DatabaseFailsMoves DEF Placed, Past, Finished
<1> QED
  BY <1>2, <1>3, <1>4, <1>5, <1>6, <1>7, <1>8, <1>9, <1>10, <1>11, <1>12, <1>13 DEF Arrive, Step

\* A step brings no row into the system but the one a write stores.
LEMMA KnownStep ==
    ASSUME PlaceInv, NEW r \in Request, Arrive(r) \/ Step(r) \/ DatabaseFails(r),
           NEW e \in Row, KnownRow(e)'
    PROVE  KnownRow(e) \/ (Commit(r) /\ Accepts(r) /\ e = RowAfter(r))
<1>1. TypeOK /\ InHand /\ Placed /\ OwnId
  BY DEF PlaceInv, StoreInv
<1>2. NoRow \notin Row
  BY OperationAssumption
<1>3. CASE ArriveGet(r)
  BY <1>1, <1>3, ArriveGetMoves DEF KnownRow
<1>4. CASE FillRead(r)
  <2>1. Find(op[r].ref) # NoRow => \E i \in Id : Find(op[r].ref) = db[i]
    BY <1>1, FoundOwnId
  <2> QED
    BY <1>1, <1>2, <1>4, <2>1, FillReadMoves DEF KnownRow, Others
<1>5. CASE FillApply(r)
  BY <1>1, <1>2, <1>5, FillApplyMoves, SetById DEF KnownRow
<1>6. CASE ArriveLocked(r)
  BY <1>1, <1>6, ArriveLockedMoves DEF KnownRow
<1>7. CASE LoadBlock(r)
  BY <1>1, <1>7, LoadBlockMoves DEF KnownRow
<1>8. CASE Unlock(r)
  BY <1>1, <1>8, UnlockMoves DEF KnownRow
<1>9. CASE ArriveWrite(r)
  <2>1. op[r].ref \in Id
    BY <1>1, <1>9, OpFacts, ArriveWriteMoves
  <2> QED
    BY <1>1, <1>2, <1>9, <2>1, ArriveWriteMoves DEF KnownRow, Others
<1>10. CASE ReadRow(r)
  <2>1. FindByName(op[r].name) # NoRow => \E i \in Id : FindByName(op[r].name) = db[i]
    BY <1>1, ByNameFacts DEF TypeOK
  <2> QED
    BY <1>1, <1>2, <1>10, <2>1, ReadRowMoves DEF KnownRow, Others
<1>11. CASE Commit(r) /\ ~Accepts(r)
  BY <1>1, <1>11, RefusedMoves DEF KnownRow
<1>12. CASE Commit(r) /\ Accepts(r)
  BY <1>1, <1>12, AcceptedMoves DEF KnownRow, Others, PlaceInv
<1>13. CASE Apply(r)
  <2>1. CASE op[r].kind # "delete"
    <3>1. row[r] \in Row /\ CacheSet(row[r])
      BY <1>1, <1>13, <2>1, ApplyMoves DEF Placed, TypeOK
    <3> QED
      BY <1>1, <1>2, <1>13, <3>1, ApplyMoves, SetById DEF KnownRow
  <2>2. CASE op[r].kind = "delete" /\ captured[r] # NoRow
    <3>1. captured[r] \in Row /\ CacheDelete(captured[r])
      BY <1>1, <1>13, <2>2, ApplyMoves DEF TypeOK
    <3> QED
      BY <1>1, <1>2, <1>13, <3>1, ApplyMoves, DropById DEF KnownRow
  <2>3. CASE op[r].kind = "delete" /\ captured[r] = NoRow
    BY <1>1, <1>13, <2>3, ApplyMoves DEF KnownRow
  <2> QED
    BY <2>1, <2>2, <2>3
<1>14. CASE DatabaseFails(r)
  BY <1>1, <1>14, DatabaseFailsMoves DEF KnownRow
<1> QED
  BY <1>3, <1>4, <1>5, <1>6, <1>7, <1>8, <1>9, <1>10, <1>11, <1>12, <1>13, <1>14 DEF Arrive, Step

\* At first only rows of the table are known, cached or not.
LEMMA FirstKnown ==
    ASSUME Init, NEW e \in Row, KnownRow(e)
    PROVE  e.id \in Id /\ e = db[e.id]
<1>1. TypeOK /\ OwnId /\ NoRow \notin Row
  BY PlaceInit, OperationAssumption DEF PlaceInv, StoreInv
<1>2. e \notin {row[r] : r \in Request} \cup {captured[r] : r \in Request}
  BY <1>1 DEF Init
<1>3. \E i \in Id : e = db[i]
  <2>1. CASE cacheById = db /\ cacheByName = [n \in Name |-> FindByName(n)]
    <3>1. \A n : FindByName(n) # NoRow => \E i \in Id : FindByName(n) = db[i]
      BY <1>1, ByNameFacts DEF TypeOK
    <3> QED
      BY <1>1, <1>2, <2>1, <3>1 DEF KnownRow
  <2>2. CASE cacheById = NoRows /\ cacheByName = [n \in Name |-> NoRow]
    BY <1>1, <1>2, <2>2 DEF KnownRow, NoRows
  <2> QED
    BY <2>1, <2>2 DEF Init
<1> QED
  BY <1>1, <1>3 DEF OwnId

-----------------------------------------------------------------------------
(* The methods: nobody holds one whose add has not been written             *)

LEMMA BornStays ==
    ASSUME PlaceInv, NEW r \in Request, Arrive(r) \/ Step(r) \/ DatabaseFails(r), NEW m, Born(m)
    PROVE  Born(m)'
BY Onward DEF Born, Others

LEMMA MergedMethods ==
    ASSUME TypeOK, NEW r \in Request, NEW current \in Row, row[r] \in Row,
           op[r].kind \in {"settings", "columns", "add", "remove"}
    PROVE  /\ op[r].kind = "columns" => Merged(r, current).methods = current.methods
           /\ op[r].kind = "settings" => Merged(r, current).methods = row[r].methods
           /\ op[r].kind = "add" => Merged(r, current).methods = loaded[r] \cup {r}
           /\ op[r].kind = "remove" => Merged(r, current).methods = loaded[r] \ {op[r].method}
BY DEF Merged, Row

LEMMA BornStep ==
    ASSUME PlaceInv, MethodsBorn, NEW r \in Request, Arrive(r) \/ Step(r) \/ DatabaseFails(r)
    PROVE  MethodsBorn'
<1>1. StoreInv /\ TypeOK /\ InHand /\ Placed /\ OwnId
  BY DEF PlaceInv, StoreInv
<1>2. NoRow \notin Row
  BY OperationAssumption
<1>3. Others(r) /\ op' = op
  BY Onward
<1>4. ASSUME NEW e \in Row, KnownRow(e)', NEW m \in e.methods
      PROVE  Born(m)'
  <2>1. CASE KnownRow(e)
    BY <1>4, <2>1, BornStays DEF MethodsBorn
  <2>2. CASE Commit(r) /\ Accepts(r) /\ e = RowAfter(r)
    <3>1. CASE op[r].kind = "create"
      BY <1>1, <1>4, <2>2, <3>1, AcceptedMoves DEF NewRow
    <3>2. CASE op[r].kind = "delete"
      BY <1>1, <1>2, <1>4, <2>2, <3>2, AcceptedMoves
    <3>3. CASE op[r].kind \in {"settings", "columns", "add", "remove"}
      <4>1. /\ row[r] \in Row /\ db[op[r].ref] \in Row /\ op[r].ref \in Id
            /\ e = Merged(r, db[op[r].ref]) /\ pc'[r] = "apply"
        BY <1>1, <2>2, <3>3, AcceptedMoves
      <4>2. KnownRow(row[r]) /\ KnownRow(db[op[r].ref])
        BY <4>1 DEF KnownRow
      <4>3. m \in row[r].methods \/ m \in db[op[r].ref].methods \/ m \in loaded[r] \/ m = r
        BY <1>1, <1>4, <3>3, <4>1, MergedMethods
      <4>4. Born(m) \/ m = r
        BY <4>1, <4>2, <4>3 DEF MethodsBorn
      <4>5. Born(r)'
        BY <4>1 DEF Born, Past
      <4> QED
        BY <4>4, <4>5, BornStays
    <3> QED
      BY <1>1, <2>2, <3>1, <3>2, <3>3, AcceptedMoves
  <2> QED
    BY <1>4, <2>1, <2>2, KnownStep
<1>5. ASSUME NEW q \in Request, NEW m \in loaded'[q]
      PROVE  Born(m)'
  <2>1. CASE loaded'[q] = loaded[q]
    BY <1>5, <2>1, BornStays DEF MethodsBorn
  <2>2. CASE q = r /\ FillApply(r)
    <3>1. m \in loaded[r] \/ m \in row[r].methods
      BY <1>1, <1>5, <2>2, FillApplyMoves
    <3>2. row[r] \in Row /\ KnownRow(row[r])
      BY <1>1, <2>2, FillApplyMoves DEF KnownRow
    <3> QED
      BY <3>1, <3>2, BornStays DEF MethodsBorn
  <2>3. CASE q = r /\ LoadBlock(r)
    <3>1. m \in loaded[r] \/ (cacheById[op[r].ref] # NoRow /\ m \in cacheById[op[r].ref].methods)
      BY <1>1, <1>5, <2>3, LoadBlockMoves
    <3>2. op[r].ref \in Id /\ cacheById[op[r].ref] \in Row \cup {NoRow}
      BY <1>1, <2>3, LoadBlockMoves DEF TypeOK
    <3>3. cacheById[op[r].ref] # NoRow => KnownRow(cacheById[op[r].ref])
      BY <3>2 DEF KnownRow
    <3> QED
      BY <3>1, <3>2, <3>3, BornStays DEF MethodsBorn
  <2> QED
    <3>1. q # r => loaded'[q] = loaded[q]
      BY <1>3 DEF Others
    <3>2. ~FillApply(r) /\ ~LoadBlock(r) => loaded' = loaded
      BY DEF Arrive, Step, ArriveGet, ArriveLocked, ArriveWrite, FillRead, Unlock, ReadRow,
             Commit, Apply, DatabaseFails
    <3> QED
      BY <2>1, <2>2, <2>3, <3>1, <3>2
<1>6. ASSUME NEW q \in Request, op[q].kind = "remove", NEW m, m = op[q].method,
             pc'[q] \in {"read", "commit", "apply"} \/ result'[q] = "ok"
      PROVE  Born(m)'
  <2>1. CASE pc[q] \in {"read", "commit", "apply"} \/ result[q] = "ok"
    BY <1>6, <2>1, BornStays DEF MethodsBorn, Acked
  <2>2. CASE ~(pc[q] \in {"read", "commit", "apply"} \/ result[q] = "ok")
    <3>1. q = r /\ Locks(r)
      BY <1>3, <1>6, <2>2 DEF Others, Locks
    <3>2. result'[r] # "ok"
      BY <2>2, <3>1, Onward
    <3>3. pc'[r] \in {"read", "commit"}
      BY <1>6, <2>2, <3>1, <3>2, Onward
    <3>4. FillApply(r) \/ LoadBlock(r)
      <4>1. ~(Arrive(r) \/ DatabaseFails(r) \/ FillRead(r) \/ Unlock(r) \/ ReadRow(r) \/ Commit(r) \/ Apply(r))
        BY <1>1, <2>2, <3>1, <3>3, ArriveGetMoves, ArriveLockedMoves, ArriveWriteMoves, FillReadMoves,
           UnlockMoves, ReadRowMoves, RefusedMoves, AcceptedMoves, ApplyMoves, DatabaseFailsMoves
           DEF Arrive, Finished
      <4> QED
        BY <4>1 DEF Step
    <3>5. m \in loaded'[r]
      BY <1>1, <1>6, <3>1, <3>3, <3>4, FillApplyMoves, LoadBlockMoves
    <3> QED
      BY <1>5, <3>1, <3>5
  <2> QED
    BY <2>1, <2>2
<1> QED
  <2>1. \A q \in Request :
            op'[q].kind = "remove" /\ (pc'[q] \in {"read", "commit", "apply"} \/ Acked(q)')
            => Born(op[q].method)'
    BY <1>3, <1>6 DEF Acked, Born
  <2> QED
    BY <1>3, <1>4, <1>5, <2>1 DEF MethodsBorn, Acked

-----------------------------------------------------------------------------
(* The methods: a change of them that counts stays made                     *)

\* What the change that r asked for made of a set of methods.
Keeps(r, methods) ==
    /\ op[r].kind = "add" => r \in methods
    /\ op[r].kind = "remove" => op[r].method \notin methods

\* The change is in the database, nothing outside the lock had read the row
\* before it, the endpoint still exists and nobody has asked for its undoing.
Counts(r) ==
    /\ Locks(r) /\ (pc[r] = "apply" \/ Acked(r)) /\ Outsiders(r) = {}
    /\ op[r].kind = "add" => ~RemovalAsked(r)
    /\ db[op[r].ref] # NoRow

\* q holds a row of endpoint i that it will store or cache.
Carries(q, i) ==
    \/ pc[q] = "filled" /\ row[q].id = i
    \/ pc[q] = "commit" /\ op[q].kind = "settings" /\ op[q].ref = i
    \/ pc[q] = "apply" /\ op[q].kind # "delete" /\ op[q].ref = i

\* q holds the methods of endpoint i that its own change starts from.
Starts(q, i) == Locks(q) /\ op[q].ref = i /\ pc[q] \in {"read", "commit"}

MethodsKept ==
    \A r \in Request : Counts(r) =>
        /\ Keeps(r, db[op[r].ref].methods)
        /\ \A q \in Request : Carries(q, op[r].ref) => Keeps(r, row[q].methods)
        /\ \A q \in Request \ {r} : Starts(q, op[r].ref) => Keeps(r, loaded[q])
        /\ Acked(r) /\ cacheById[op[r].ref] # NoRow => Keeps(r, cacheById[op[r].ref].methods)

\* A change that counts after the step of another request counted before it.
LEMMA CountedBefore ==
    ASSUME PlaceInv, NEW r \in Request, Arrive(r) \/ Step(r) \/ DatabaseFails(r),
           NEW p \in Request, Counts(p)', ~(p = r /\ Commit(r) /\ Accepts(r))
    PROVE  /\ Counts(p) /\ op[p].ref \in Id /\ op'[p] = op[p] /\ db'[op[p].ref] # NoRow
           /\ Acked(p)' => Acked(p) \/ (p = r /\ pc[r] = "apply")
           /\ op[p].kind \in {"add", "remove"}
<1>1. StoreInv /\ TypeOK /\ Placed
  BY DEF PlaceInv, StoreInv
<1>2. Others(r) /\ op' = op
  BY Onward
<1>3. Locks(p) /\ op[p].ref \in Id /\ db'[op[p].ref] # NoRow /\ op[p].kind \in {"add", "remove"}
  BY <1>1, <1>2, OpFacts DEF Counts, Locks
<1>4. Outsiders(p) = {}
  <2>1. raced[p] \subseteq raced'[p]
    BY <1>2, Onward DEF Others
  <2> QED
    BY <1>2, <2>1 DEF Counts, Outsiders, Locks
<1>5. op[p].kind = "add" => ~RemovalAsked(p)
  <2>1. \A q \in Request : pc[q] # "idle" => pc'[q] # "idle"
    BY <1>2, Onward DEF Others
  <2> QED
    BY <1>2, <2>1 DEF Counts, RemovalAsked
<1>6. (pc[p] = "apply" \/ Acked(p)) /\ (Acked(p)' => Acked(p) \/ (p = r /\ pc[r] = "apply"))
  <2>1. CASE p = r
    BY <1>2, <1>3, <2>1, Onward DEF Counts, Acked
  <2>2. CASE p # r
    BY <1>2, <2>2 DEF Counts, Acked, Others
  <2> QED
    BY <2>1, <2>2
<1>7. db[op[p].ref] # NoRow
  <2>1. CASE Commit(r) /\ Accepts(r)
    <3>1. op[p].ref \in generated
      BY <1>1, <1>3, <1>6 DEF Placed, Committed, Acked
    <3>2. CASE op[p].ref # op[r].ref
      BY <1>1, <1>3, <2>1, <3>2, AcceptedMoves
    <3>3. CASE op[p].ref = op[r].ref
      <4>1. RowAfter(r) # NoRow
        BY <1>1, <1>3, <2>1, <3>3, AcceptedMoves
      <4>2. db[op[r].ref] \in Row
        BY <1>1, <2>1, <3>1, <3>3, <4>1, AcceptedMoves
      <4> QED
        BY <3>3, <4>2, OperationAssumption
    <3> QED
      BY <3>2, <3>3
  <2>2. CASE ~(Commit(r) /\ Accepts(r))
    <3>1. db' = db
      BY <2>2 DEF Arrive, Step, ArriveGet, ArriveLocked, ArriveWrite, FillRead, FillApply, LoadBlock,
             Unlock, ReadRow, Commit, Apply, DatabaseFails
    <3> QED
      BY <1>3, <3>1
  <2> QED
    BY <2>1, <2>2
<1> QED
  BY <1>2, <1>3, <1>4, <1>5, <1>6, <1>7 DEF Counts

\* What is kept before a step and after it.
LEMMA KeptFacts ==
    ASSUME MethodsKept, NEW p \in Request, Counts(p)
    PROVE  /\ Keeps(p, db[op[p].ref].methods)
           /\ \A q \in Request : Carries(q, op[p].ref) => Keeps(p, row[q].methods)
           /\ \A q \in Request \ {p} : Starts(q, op[p].ref) => Keeps(p, loaded[q])
           /\ Acked(p) /\ cacheById[op[p].ref] # NoRow => Keeps(p, cacheById[op[p].ref].methods)
BY DEF MethodsKept

\* The parts of the invariant a step has to establish for one change.
KeptAfter(p) ==
    /\ Keeps(p, db'[op[p].ref].methods)
    /\ \A q \in Request : Carries(q, op[p].ref)' => Keeps(p, row'[q].methods)
    /\ \A q \in Request \ {p} : Starts(q, op[p].ref)' => Keeps(p, loaded'[q])
    /\ Acked(p)' /\ cacheById'[op[p].ref] # NoRow => Keeps(p, cacheById'[op[p].ref].methods)

LEMMA KeptByAll ==
    ASSUME op' = op, \A p \in Request : Counts(p)' => KeptAfter(p)
    PROVE  MethodsKept'
<1> SUFFICES ASSUME NEW p \in Request, Counts(p)'
             PROVE  /\ Keeps(p, db[op[p].ref].methods)'
                    /\ \A q \in Request : Carries(q, op[p].ref)' => Keeps(p, row[q].methods)'
                    /\ \A q \in Request \ {p} : Starts(q, op[p].ref)' => Keeps(p, loaded[q])'
                    /\ Acked(p)' /\ cacheById'[op[p].ref] # NoRow
                          => Keeps(p, cacheById[op[p].ref].methods)'
  BY DEF MethodsKept
<1>1. KeptAfter(p)
  OBVIOUS
<1> QED
  BY <1>1 DEF KeptAfter, Keeps

\* A step that neither writes the table nor the cache, and after which a request
\* carries what it carried or the row as it is.
LEMMA KeptQuietly ==
    ASSUME PlaceInv, MethodsKept, NEW r \in Request, Arrive(r) \/ Step(r) \/ DatabaseFails(r),
           NEW p \in Request, Counts(p)', ~(Commit(r) /\ Accepts(r)), pc[r] # "apply",
           db' = db, cacheById' = cacheById,
           \A i \in Id : Carries(r, i)' =>
               (Carries(r, i) /\ row'[r] = row[r]) \/ (row'[r] # NoRow /\ row'[r] = db[i]),
           pc'[r] \in {"read", "commit"} /\ Locks(r) /\ p # r /\ op[r].ref = op[p].ref =>
               Keeps(p, loaded'[r])
    PROVE  KeptAfter(p)
<1>1. Counts(p) /\ op[p].ref \in Id /\ (Acked(p)' => Acked(p))
  BY CountedBefore
<1>2. Others(r) /\ op' = op
  BY Onward
<1>3. /\ Keeps(p, db[op[p].ref].methods)
      /\ \A q \in Request : Carries(q, op[p].ref) => Keeps(p, row[q].methods)
      /\ \A q \in Request \ {p} : Starts(q, op[p].ref) => Keeps(p, loaded[q])
      /\ Acked(p) /\ cacheById[op[p].ref] # NoRow => Keeps(p, cacheById[op[p].ref].methods)
  BY <1>1, KeptFacts
<1>4. ASSUME NEW q \in Request, Carries(q, op[p].ref)'
      PROVE  Keeps(p, row'[q].methods)
  <2>1. CASE q = r
    <3>1. \/ Carries(r, op[p].ref) /\ row'[r] = row[r]
          \/ row'[r] = db[op[p].ref]
      BY <1>1, <1>2, <1>4, <2>1 DEF Carries
    <3> QED
      BY <1>3, <2>1, <3>1
  <2>2. CASE q # r
    <3>1. Carries(q, op[p].ref) /\ row'[q] = row[q]
      BY <1>2, <1>4, <2>2 DEF Carries, Others
    <3> QED
      BY <1>3, <3>1
  <2> QED
    BY <2>1, <2>2
<1>5. ASSUME NEW q \in Request \ {p}, Starts(q, op[p].ref)'
      PROVE  Keeps(p, loaded'[q])
  <2>1. CASE q = r
    BY <1>2, <1>5, <2>1 DEF Starts, Locks
  <2>2. CASE q # r
    <3>1. Starts(q, op[p].ref) /\ loaded'[q] = loaded[q]
      BY <1>2, <1>5, <2>2 DEF Starts, Others, Locks
    <3> QED
      BY <1>3, <3>1
  <2> QED
    BY <2>1, <2>2
<1> QED
  BY <1>1, <1>3, <1>4, <1>5 DEF KeptAfter

LEMMA FillReadKeeps ==
    ASSUME PlaceInv, MethodsKept, NEW r \in Request, FillRead(r), NEW p \in Request, Counts(p)'
    PROVE  KeptAfter(p)
<1>1. TypeOK /\ OwnId /\ Step(r)
  BY DEF PlaceInv, StoreInv, Step
<1>2. ASSUME NEW i \in Id, Carries(r, i)'
      PROVE  row'[r] # NoRow /\ row'[r] = db[i]
  <2>1. pc'[r] = "filled" /\ row'[r].id = i /\ row'[r] = Find(op[r].ref) /\ row'[r] # NoRow
    BY <1>1, <1>2, FillReadMoves DEF Carries, Finished
  <2> QED
    BY <1>1, <2>1, FoundOwnId
<1>3. /\ db' = db /\ cacheById' = cacheById /\ pc[r] = "fill"
      /\ pc'[r] \in {"filled", "unlock", "done"}
  BY <1>1, FillReadMoves DEF Finished
<1>4. ~(Commit(r) /\ Accepts(r))
  BY <1>3 DEF Commit
<1> QED
  BY <1>1, <1>2, <1>3, <1>4, KeptQuietly

LEMMA FillApplyKeeps ==
    ASSUME PlaceInv, MethodsKept, NEW r \in Request, FillApply(r), NEW p \in Request, Counts(p)'
    PROVE  KeptAfter(p)
<1>1. TypeOK /\ InHand /\ Placed /\ Step(r)
  BY DEF PlaceInv, StoreInv, Step
<1>2. /\ Others(r) /\ op' = op /\ db' = db /\ pc[r] = "filled" /\ row[r] \in Row /\ row' = row
      /\ CacheSet(row[r]) /\ pc'[r] \in {"read", "unlock", "done"}
      /\ Locks(r) => loaded'[r] = row[r].methods
  BY <1>1, Onward, FillApplyMoves
<1>3. Counts(p) /\ op[p].ref \in Id /\ (Acked(p)' => Acked(p))
  BY <1>1, <1>2, CountedBefore DEF FillApply, Commit
<1>4. /\ Keeps(p, db[op[p].ref].methods)
      /\ \A q \in Request : Carries(q, op[p].ref) => Keeps(p, row[q].methods)
      /\ \A q \in Request \ {p} : Starts(q, op[p].ref) => Keeps(p, loaded[q])
      /\ Acked(p) /\ cacheById[op[p].ref] # NoRow => Keeps(p, cacheById[op[p].ref].methods)
  BY <1>3, KeptFacts
<1>5. ASSUME NEW q \in Request, Carries(q, op[p].ref)'
      PROVE  Keeps(p, row'[q].methods)
  <2>1. q # r /\ Carries(q, op[p].ref)
    BY <1>2, <1>5 DEF Carries, Others
  <2> QED
    BY <1>2, <1>4, <2>1
<1>6. row[r].id = op[p].ref => Keeps(p, row[r].methods)
  BY <1>2, <1>4 DEF Carries
<1>7. ASSUME NEW q \in Request \ {p}, Starts(q, op[p].ref)'
      PROVE  Keeps(p, loaded'[q])
  <2>1. CASE q = r
    BY <1>1, <1>2, <1>3, <1>6, <1>7, <2>1 DEF Starts, Locks, Placed
  <2>2. CASE q # r
    <3>1. Starts(q, op[p].ref) /\ loaded'[q] = loaded[q]
      BY <1>2, <1>7, <2>2 DEF Starts, Others, Locks
    <3> QED
      BY <1>4, <3>1
  <2> QED
    BY <2>1, <2>2
<1>8. ASSUME Acked(p)', cacheById'[op[p].ref] # NoRow
      PROVE  Keeps(p, cacheById'[op[p].ref].methods)
  BY <1>1, <1>2, <1>3, <1>4, <1>6, <1>8, SetById
<1> QED
  BY <1>2, <1>4, <1>5, <1>7, <1>8 DEF KeptAfter

LEMMA LoadBlockKeeps ==
    ASSUME PlaceInv, MethodsKept, NEW r \in Request, LoadBlock(r), NEW p \in Request, Counts(p)'
    PROVE  KeptAfter(p)
<1>1. TypeOK /\ InHand /\ Placed /\ UnderLock /\ Chain!MutexInv /\ Step(r)
  BY DEF PlaceInv, StoreInv, Step
<1>2. /\ Others(r) /\ op' = op /\ db' = db /\ cacheById' = cacheById /\ pc[r] = "locked"
      /\ Locks(r) /\ Lock!Start(r) /\ pc'[r] \in {"fill", "read", "unlock"}
      /\ pc'[r] # "fill" => /\ cacheById[op[r].ref] # NoRow
                            /\ loaded'[r] = cacheById[op[r].ref].methods
  BY <1>1, Onward, LoadBlockMoves
<1>3. /\ Counts(p) /\ op[p].ref \in Id /\ Locks(p) /\ ~(Commit(r) /\ Accepts(r))
  BY <1>1, <1>2, CountedBefore DEF Commit, Locks
<1>4. Acked(p) \/ op[p].ref # op[r].ref \/ p = r
  <2> SUFFICES ASSUME pc[p] = "apply", op[p].ref = op[r].ref, p # r
               PROVE  FALSE
    BY <1>3 DEF Counts
  <2>1. stage[p] = "running" /\ key[p] = op[p].ref /\ key[r] = op[r].ref
    BY <1>1, <1>2, <1>3 DEF UnderLock
  <2>2. Chain!MutexInv' /\ key' = key /\ stage'[p] = "running" /\ stage'[r] = "running"
    BY <1>1, <1>2, <2>1, ChainStep
  <2> QED
    BY <2>1, <2>2 DEF Chain!MutexInv, Chain!OneEligible
<1>5. ASSUME pc'[r] \in {"read", "commit"}, p # r, op[r].ref = op[p].ref
      PROVE  Keeps(p, loaded'[r])
  BY <1>2, <1>3, <1>4, <1>5, KeptFacts
<1>6. \A i \in Id : ~Carries(r, i)'
  BY <1>2 DEF Carries
<1> QED
  BY <1>1, <1>2, <1>3, <1>5, <1>6, KeptQuietly

LEMMA ReadRowKeeps ==
    ASSUME PlaceInv, MethodsKept, NEW r \in Request, ReadRow(r), NEW p \in Request, Counts(p)'
    PROVE  KeptAfter(p)
<1>1. TypeOK /\ InHand /\ Placed /\ Step(r)
  BY DEF PlaceInv, StoreInv, Step
<1>2. /\ Others(r) /\ op' = op /\ db' = db /\ cacheById' = cacheById /\ pc[r] = "read"
      /\ loaded' = loaded /\ pc'[r] \in {"commit", "unlock", "done"}
      /\ pc'[r] = "commit" /\ op[r].kind # "create" => row'[r] # NoRow /\ row'[r] = db[op[r].ref]
  BY <1>1, Onward, ReadRowMoves DEF Finished
<1>3. Counts(p) /\ ~(Commit(r) /\ Accepts(r))
  BY <1>1, <1>2, CountedBefore DEF Commit
<1>4. \A i \in Id : Carries(r, i)' => row'[r] # NoRow /\ row'[r] = db[i]
  BY <1>2 DEF Carries
<1>5. Locks(r) /\ p # r /\ op[r].ref = op[p].ref => Keeps(p, loaded'[r])
  BY <1>2, <1>3, KeptFacts DEF Starts
<1> QED
  BY <1>1, <1>2, <1>3, <1>4, <1>5, KeptQuietly

LEMMA ApplyKeeps ==
    ASSUME PlaceInv, MethodsKept, NEW r \in Request, Apply(r), NEW p \in Request, Counts(p)'
    PROVE  KeptAfter(p)
<1>1. TypeOK /\ InHand /\ Placed /\ Step(r)
  BY DEF PlaceInv, StoreInv, Step
<1>2. /\ Others(r) /\ op' = op /\ db' = db /\ row' = row /\ loaded' = loaded
      /\ pc[r] = "apply" /\ pc'[r] \in {"unlock", "done"}
      /\ op[r].kind # "delete" => CacheSet(row[r])
      /\ op[r].kind = "delete" /\ captured[r] # NoRow => CacheDelete(captured[r])
      /\ op[r].kind = "delete" /\ captured[r] = NoRow => cacheById' = cacheById
  BY <1>1, Onward, ApplyMoves DEF Finished
<1>3. /\ Counts(p) /\ op[p].ref \in Id /\ (Acked(p)' => Acked(p) \/ p = r)
      /\ op[p].kind \in {"add", "remove"}
  BY <1>1, <1>2, CountedBefore DEF Commit
<1>4. /\ Keeps(p, db[op[p].ref].methods)
      /\ \A q \in Request : Carries(q, op[p].ref) => Keeps(p, row[q].methods)
      /\ \A q \in Request \ {p} : Starts(q, op[p].ref) => Keeps(p, loaded[q])
      /\ Acked(p) /\ cacheById[op[p].ref] # NoRow => Keeps(p, cacheById[op[p].ref].methods)
  BY <1>3, KeptFacts
<1>5. ASSUME NEW q \in Request, Carries(q, op[p].ref)'
      PROVE  Keeps(p, row'[q].methods)
  <2>1. q # r /\ Carries(q, op[p].ref)
    BY <1>2, <1>5 DEF Carries, Others
  <2> QED
    BY <1>2, <1>4, <2>1
<1>6. ASSUME NEW q \in Request \ {p}, Starts(q, op[p].ref)'
      PROVE  Keeps(p, loaded'[q])
  <2>1. q # r /\ Starts(q, op[p].ref)
    BY <1>2, <1>6 DEF Starts, Others, Locks
  <2> QED
    BY <1>2, <1>4, <2>1
<1>7. ASSUME Acked(p)', cacheById'[op[p].ref] # NoRow
      PROVE  Keeps(p, cacheById'[op[p].ref].methods)
  <2>1. CASE op[r].kind # "delete"
    <3>1. row[r] \in Row /\ row[r].id = op[r].ref
      BY <1>1, <1>2, <2>1 DEF Placed, TypeOK
    <3>2. op[r].ref = op[p].ref => Keeps(p, row[r].methods)
      BY <1>2, <1>4, <2>1 DEF Carries
    <3>3. CASE op[r].ref = op[p].ref
      BY <1>1, <1>2, <2>1, <3>1, <3>2, <3>3, SetById
    <3>4. CASE op[r].ref # op[p].ref
      BY <1>1, <1>2, <1>3, <1>4, <1>7, <2>1, <3>1, <3>4, SetById
    <3> QED
      BY <3>3, <3>4
  <2>2. CASE op[r].kind = "delete"
    <3>1. Acked(p)
      BY <1>3, <1>7, <2>2
    <3>2. cacheById'[op[p].ref] = cacheById[op[p].ref]
      <4>1. CASE captured[r] = NoRow
        BY <1>2, <2>2, <4>1
      <4>2. CASE captured[r] # NoRow
        <5>1. captured[r] \in Row
          BY <1>1, <4>2 DEF TypeOK
        <5> QED
          BY <1>1, <1>2, <1>3, <1>7, <2>2, <4>2, <5>1, DropById
      <4> QED
        BY <4>1, <4>2
    <3> QED
      BY <1>4, <1>7, <3>1, <3>2
  <2> QED
    BY <2>1, <2>2
<1> QED
  BY <1>2, <1>4, <1>5, <1>6, <1>7 DEF KeptAfter

\* The other steps.
LEMMA OtherKeeps ==
    ASSUME PlaceInv, MethodsKept, NEW r \in Request, NEW p \in Request, Counts(p)',
           \/ Arrive(r) \/ Unlock(r) \/ DatabaseFails(r)
           \/ Commit(r) /\ ~Accepts(r)
    PROVE  KeptAfter(p)
<1>1. TypeOK /\ InHand /\ Placed /\ (Arrive(r) \/ Step(r) \/ DatabaseFails(r))
  BY DEF PlaceInv, StoreInv, Step
<1>2. /\ db' = db /\ cacheById' = cacheById
      /\ pc'[r] \in {"fill", "done", "locked", "unlock", "read"}
      /\ pc'[r] = "read" => ~Locks(r)
  BY <1>1, ArriveGetMoves, ArriveLockedMoves, ArriveWriteMoves, UnlockMoves, RefusedMoves,
     DatabaseFailsMoves DEF Arrive, Finished
<1>3. ~(Commit(r) /\ Accepts(r))
  BY <1>1, <1>2, AcceptedMoves DEF PlaceInv
<1>4. \A i \in Id : ~Carries(r, i)'
  BY <1>2 DEF Carries
<1>5. CASE pc[r] # "apply"
  BY <1>1, <1>2, <1>3, <1>4, <1>5, KeptQuietly
<1>6. CASE pc[r] = "apply"
  <2>1. result'[r] = "lost" /\ Others(r) /\ op' = op /\ row' = row /\ loaded' = loaded /\ pc'[r] # "apply"
    BY <1>1, <1>6, DatabaseFailsMoves, ArriveGetMoves, ArriveLockedMoves, ArriveWriteMoves,
       UnlockMoves, RefusedMoves DEF Arrive, Finished
  <2>2. p # r
    BY <2>1 DEF Counts, Acked
  <2>3. Counts(p) /\ (Acked(p)' => Acked(p)) /\ op[p].ref \in Id
    BY <1>1, <1>3, <2>2, CountedBefore
  <2>4. /\ Keeps(p, db[op[p].ref].methods)
        /\ \A q \in Request : Carries(q, op[p].ref) => Keeps(p, row[q].methods)
        /\ \A q \in Request \ {p} : Starts(q, op[p].ref) => Keeps(p, loaded[q])
        /\ Acked(p) /\ cacheById[op[p].ref] # NoRow => Keeps(p, cacheById[op[p].ref].methods)
    BY <2>3, KeptFacts
  <2>5. ASSUME NEW q \in Request, Carries(q, op[p].ref)'
        PROVE  Carries(q, op[p].ref)
    BY <1>2, <1>4, <2>1, <2>5 DEF Carries, Others
  <2>6. ASSUME NEW q \in Request, Starts(q, op[p].ref)'
        PROVE  Starts(q, op[p].ref)
    BY <1>2, <2>1, <2>6 DEF Starts, Others, Locks
  <2> QED
    BY <1>2, <2>1, <2>3, <2>4, <2>5, <2>6 DEF KeptAfter
<1> QED
  BY <1>5, <1>6

\* The write itself: what its own change leaves, and what it leaves of another.
LEMMA AcceptedKeeps ==
    ASSUME PlaceInv, MethodsKept, MethodsBorn, NEW r \in Request, Commit(r), Accepts(r),
           NEW p \in Request, Counts(p)'
    PROVE  KeptAfter(p)
<1> DEFINE at == op[r].ref
<1>1. /\ StoreInv /\ TypeOK /\ InHand /\ Placed /\ UnderLock /\ Chain!MutexInv /\ Step(r)
      /\ NoRow \notin Row
  BY OperationAssumption DEF PlaceInv, StoreInv, Step
<1>2. /\ Others(r) /\ op' = op /\ pc[r] = "commit" /\ pc'[r] = "apply" /\ result' = result
      /\ at \in Id /\ Overlapping(r) \subseteq raced'[r]
      /\ row'[r] = RowAfter(r) /\ db'[at] = RowAfter(r)
      /\ \A i \in Id \ {at} : db'[i] = db[i]
      /\ cacheById' = cacheById /\ loaded' = loaded
  BY <1>1, AcceptedMoves, Onward
<1>3. \/ op[r].kind = "create" /\ at \notin generated
      \/ op[r].kind = "delete" /\ RowAfter(r) = NoRow
      \/ /\ op[r].kind \in {"settings", "columns", "add", "remove"}
         /\ row[r] \in Row /\ db[at] \in Row /\ RowAfter(r) = Merged(r, db[at])
  BY <1>1, AcceptedMoves
<1>4. Locks(p) /\ op[p].ref \in Id /\ db'[op[p].ref] # NoRow /\ op[p].kind \in {"add", "remove"}
  BY <1>1, <1>2, OpFacts DEF Counts, Locks
<1>5. CASE p = r
  <2>1. row[r] \in Row /\ db[at] \in Row /\ RowAfter(r) = Merged(r, db[at])
    BY <1>3, <1>4, <1>5
  <2>2. Keeps(r, RowAfter(r).methods)
    BY <1>1, <1>4, <1>5, <2>1, MergedMethods DEF Keeps
  <2>3. ASSUME NEW q \in Request \ {r}, Carries(q, at)' \/ Starts(q, at)'
        PROVE  FALSE
    <3>1. pc'[q] = pc[q] /\ row'[q] = row[q]
      BY <1>2 DEF Others
    <3>2. CASE Locks(q)
      <4>1. op[q].ref \in Id /\ op[q].kind # "get"
        BY <1>1, <3>2, OpFacts DEF Locks
      <4>2. op[q].ref = at /\ pc[q] \in {"filled", "read", "commit", "apply"}
        BY <1>1, <1>2, <2>3, <3>1, <4>1 DEF Carries, Starts, Placed
      <4>3. stage[q] = "running" /\ key[q] = at /\ stage[r] = "running" /\ key[r] = at
        BY <1>1, <1>2, <1>4, <1>5, <3>2, <4>2 DEF UnderLock
      <4> QED
        BY <1>1, <4>3, Alone
    <3>3. CASE ~Locks(q)
      <4>1. Carries(q, at)'
        BY <1>2, <2>3, <3>3 DEF Starts, Locks
      <4>2. InWindow(q)
        BY <3>1, <4>1 DEF Carries, InWindow
      <4>3. About(q) = at
        BY <1>1, <1>2, <3>1, <4>1 DEF Carries, About, InHand, Placed
      <4>4. q \in Overlapping(r)
        BY <1>2, <4>2, <4>3 DEF Overlapping, About
      <4>5. q \in Outsiders(p)'
        BY <1>2, <1>5, <3>3, <4>4 DEF Outsiders, Locks
      <4> QED
        BY <4>5 DEF Counts
    <3> QED
      BY <3>2, <3>3
  <2>4. result[r] # "ok"
    BY <1>1, <1>2 DEF Placed
  <2>5. ASSUME NEW q \in Request, Carries(q, op[p].ref)'
        PROVE  Keeps(p, row'[q].methods)
    <3>1. CASE q = r
      BY <1>2, <1>5, <2>2, <3>1
    <3>2. CASE q # r
      <4>1. Carries(q, at)'
        BY <1>2, <1>5, <2>5 DEF Carries
      <4> QED
        BY <2>3, <3>2, <4>1
    <3> QED
      BY <3>1, <3>2
  <2>6. ASSUME NEW q \in Request \ {p}, Starts(q, op[p].ref)'
        PROVE  FALSE
    <3>1. Starts(q, at)'
      BY <1>2, <1>5, <2>6 DEF Starts, Locks
    <3> QED
      BY <1>5, <2>3, <2>6, <3>1
  <2> QED
    BY <1>2, <1>5, <2>2, <2>4, <2>5, <2>6 DEF KeptAfter, Acked
<1>6. CASE p # r
  <2>1. Counts(p) /\ (Acked(p)' => Acked(p))
    BY <1>1, <1>6, CountedBefore
  <2>2. /\ Keeps(p, db[op[p].ref].methods)
        /\ \A q \in Request : Carries(q, op[p].ref) => Keeps(p, row[q].methods)
        /\ \A q \in Request \ {p} : Starts(q, op[p].ref) => Keeps(p, loaded[q])
        /\ Acked(p) /\ cacheById[op[p].ref] # NoRow => Keeps(p, cacheById[op[p].ref].methods)
    BY <2>1, KeptFacts
  <2>3. op[p].ref = at => Keeps(p, RowAfter(r).methods)
    <3> SUFFICES ASSUME op[p].ref = at
                 PROVE  Keeps(p, RowAfter(r).methods)
      OBVIOUS
    <3>1. at \in generated /\ RowAfter(r) # NoRow
      BY <1>1, <1>2, <1>4, <2>1 DEF Counts, Placed, Committed, Acked
    <3>2. /\ op[r].kind \in {"settings", "columns", "add", "remove"}
          /\ row[r] \in Row /\ db[at] \in Row /\ RowAfter(r) = Merged(r, db[at])
      BY <1>3, <3>1
    <3>3. CASE op[r].kind = "columns"
      BY <1>1, <2>2, <3>2, <3>3, MergedMethods
    <3>4. CASE op[r].kind = "settings"
      <4>1. Carries(r, at)
        BY <1>2, <3>4 DEF Carries
      <4> QED
        BY <1>1, <2>2, <3>2, <3>4, <4>1, MergedMethods
    <3>5. CASE op[r].kind \in {"add", "remove"}
      <4>1. Keeps(p, loaded[r])
        <5>1. Starts(r, at)
          BY <1>2, <3>5 DEF Starts, Locks
        <5> QED
          BY <1>6, <2>2, <5>1
      <4>2. op[p].kind = "remove" => op[p].method # r
        <5>1. op[p].kind = "remove" => Born(op[p].method)
          BY <2>1 DEF MethodsBorn, Counts
        <5> QED
          BY <1>2, <5>1 DEF Born, Past
      <4>3. op[p].kind = "add" /\ op[r].kind = "remove" => op[r].method # p
        BY <1>2, <2>1 DEF Counts, RemovalAsked
      <4> QED
        BY <1>1, <3>2, <3>5, <4>1, <4>2, <4>3, MergedMethods DEF Keeps
    <3> QED
      BY <3>2, <3>3, <3>4, <3>5
  <2>4. Keeps(p, db'[op[p].ref].methods)
    BY <1>2, <1>4, <2>2, <2>3
  <2>5. ASSUME NEW q \in Request, Carries(q, op[p].ref)'
        PROVE  Keeps(p, row'[q].methods)
    <3>1. CASE q = r
      <4>1. op[p].ref = at
        BY <1>2, <2>5, <3>1 DEF Carries
      <4> QED
        BY <1>2, <2>3, <3>1, <4>1
    <3>2. CASE q # r
      <4>1. Carries(q, op[p].ref) /\ row'[q] = row[q]
        BY <1>2, <2>5, <3>2 DEF Carries, Others
      <4> QED
        BY <2>2, <4>1
    <3> QED
      BY <3>1, <3>2
  <2>6. ASSUME NEW q \in Request \ {p}, Starts(q, op[p].ref)'
        PROVE  Keeps(p, loaded'[q])
    <3>1. Starts(q, op[p].ref)
      BY <1>2, <2>6 DEF Starts, Others, Locks
    <3> QED
      BY <1>2, <2>2, <3>1
  <2> QED
    BY <1>2, <2>1, <2>2, <2>4, <2>5, <2>6 DEF KeptAfter
<1> QED
  BY <1>5, <1>6

LEMMA KeptStep ==
    ASSUME PlaceInv, MethodsKept, MethodsBorn, NEW r \in Request,
           Arrive(r) \/ Step(r) \/ DatabaseFails(r)
    PROVE  MethodsKept'
<1>1. op' = op
  BY Onward
<1>2. ASSUME NEW p \in Request, Counts(p)'
      PROVE  KeptAfter(p)
  BY <1>2, FillReadKeeps, FillApplyKeeps, LoadBlockKeeps, ReadRowKeeps, ApplyKeeps, OtherKeeps,
     AcceptedKeeps DEF Step
<1> QED
  BY <1>1, <1>2, KeptByAll

\* The inductive invariant behind the methods.
MethodInv == PlaceInv /\ MethodsBorn /\ MethodsKept

LEMMA MethodStutter ==
    ASSUME MethodInv, UNCHANGED vars
    PROVE  MethodInv'
<1>1. PlaceInv'
  BY PlaceStutter DEF MethodInv
<1>2. UNCHANGED <<db, cacheById, cacheByName, op, pc, row, loaded, captured, result, raced>>
  BY DEF vars, cacheVars
<1>3. MethodsBorn'
  BY <1>2 DEF MethodInv, MethodsBorn, Born, KnownRow, Acked
<1>4. MethodsKept'
  BY <1>2 DEF MethodInv, MethodsKept, Counts, Carries, Starts, Keeps, Locks, Acked, Outsiders, RemovalAsked
<1> QED
  BY <1>1, <1>3, <1>4 DEF MethodInv

LEMMA MethodNext ==
    ASSUME MethodInv, [Next]_vars
    PROVE  MethodInv'
<1>1. CASE UNCHANGED vars
  BY <1>1, MethodStutter
<1>2. CASE Done
  BY <1>2, MethodStutter DEF Done
<1>3. CASE \E r \in Request : Arrive(r) \/ Step(r) \/ DatabaseFails(r)
  BY <1>3, PlaceNext, BornStep, KeptStep DEF MethodInv
<1> QED
  BY <1>1, <1>2, <1>3 DEF Next

LEMMA MethodInit ==
    ASSUME Init
    PROVE  MethodInv
<1>1. PlaceInv /\ TypeOK
  BY PlaceInit DEF PlaceInv, StoreInv
<1>2. NoRow \notin Row /\ FirstMethod \notin Request
  BY OperationAssumption, DistinctNone
<1>3. MethodsBorn
  <2>1. ASSUME NEW e \in Row, KnownRow(e), NEW m \in e.methods
        PROVE  Born(m)
    <3>1. e \in FirstRows
      BY <1>2, <2>1, FirstKnown, FirstRow
    <3> QED
      BY <1>2, <2>1, <3>1, OperationAssumption DEF Born
  <2> QED
    BY <2>1 DEF Init, MethodsBorn, Acked
<1>4. MethodsKept
  BY DEF Init, MethodsKept, Counts, Acked
<1> QED
  BY <1>1, <1>3, <1>4 DEF MethodInv

\* An added method stays, and a removed one stays away, unless a request that
\* does not take the lock had read the endpoint before: the promise chain keeps
\* two adds or removes from reading the same methods.
THEOREM MethodChangesHold == Spec => []MethodChangesStand
<1>1. MethodInv => MethodChangesStand
  <2> SUFFICES ASSUME MethodInv, NEW r \in Request, Locks(r), Acked(r), Outsiders(r) = {},
                      db[op[r].ref] # NoRow
               PROVE  /\ op[r].kind = "add" => r \in db[op[r].ref].methods \/ RemovalAsked(r)
                      /\ op[r].kind = "remove" => op[r].method \notin db[op[r].ref].methods
    BY DEF MethodChangesStand
  <2>1. CASE op[r].kind = "add" /\ RemovalAsked(r)
    BY <2>1
  <2>2. CASE ~(op[r].kind = "add" /\ RemovalAsked(r))
    <3>1. Counts(r)
      BY <2>2 DEF Counts
    <3> QED
      BY <3>1, KeptFacts DEF MethodInv, Keeps
  <2> QED
    BY <2>1, <2>2
<1> QED
  BY <1>1, MethodInit, MethodNext, PTL DEF Spec

-----------------------------------------------------------------------------
(* The caches                                                               *)

\* Rows of one endpoint have one name, wherever they are held, and their ids
\* have been given out.
Alike ==
    /\ \A e \in Row : KnownRow(e) => e.id \in generated
    /\ \A d, e \in Row : KnownRow(d) /\ KnownRow(e) /\ d.id = e.id => d.name = e.name

\* The entries by name are entries by id.
ByName ==
    \A n \in Name : cacheByName[n] # NoRow =>
        /\ cacheByName[n].name = n
        /\ cacheById[cacheByName[n].id] = cacheByName[n]

\* q is about to cache a row of endpoint i.
WillCache(q, i) ==
    \/ pc[q] = "filled" /\ row[q].id = i
    \/ pc[q] = "apply" /\ op[q].kind # "delete" /\ op[q].ref = i

\* q deletes endpoint i and has seen no entry to drop.
Blind(q, i) ==
    /\ op[q].kind = "delete" /\ op[q].ref = i /\ captured[q] = NoRow
    /\ pc[q] \in {"read", "commit", "apply"}

\* q is about to bring the cache entry of endpoint i up to date.
WillMend(q, i) ==
    /\ pc[q] = "apply" /\ op[q].ref = i
    /\ op[q].kind = "delete" => captured[q] # NoRow

Follows(i) ==
    /\ \A q \in Request : WillCache(q, i) => row[q] = db[i]
    /\ \A q \in Request : Blind(q, i) => cacheById[i] = NoRow
    /\ cacheById[i] # NoRow => cacheById[i] = db[i] \/ \E q \in Request : WillMend(q, i)

CacheFollows == \A i \in Id : ~Disturbed(i) => Follows(i)

\* The inductive invariant behind the caches.
CacheInv == PlaceInv /\ Alike /\ ByName /\ CacheFollows

LEMMA AlikeStep ==
    ASSUME PlaceInv, Alike, NEW r \in Request, Arrive(r) \/ Step(r) \/ DatabaseFails(r)
    PROVE  Alike'
<1>1. StoreInv /\ TypeOK /\ OwnId
  BY DEF PlaceInv, StoreInv
<1>2. NoRow \notin Row
  BY OperationAssumption
<1>3. generated \subseteq generated'
  BY DEF Arrive, Step, ArriveGet, ArriveLocked, ArriveWrite, FillRead, FillApply, LoadBlock, Unlock,
         ReadRow, Commit, Apply, DatabaseFails
<1>4. ASSUME NEW e \in Row, Commit(r), Accepts(r), e = RowAfter(r)
      PROVE  /\ e.id \in generated'
             /\ \A d \in Row : KnownRow(d) /\ d.id = e.id => d.name = e.name
  <2>1. e.id = op[r].ref /\ op[r].ref \in Id /\ op[r].ref \in generated'
    BY <1>1, <1>2, <1>4, WrittenOwnId, AcceptedMoves
  <2>2. CASE op[r].kind = "create"
    <3>1. op[r].ref \notin generated
      BY <1>1, <1>4, <2>2, AcceptedMoves
    <3> QED
      BY <2>1, <3>1 DEF Alike
  <2>3. CASE op[r].kind # "create"
    <3>1. db[op[r].ref] # NoRow /\ e.name = db[op[r].ref].name
      BY <1>1, <1>2, <1>4, <2>3, WrittenOwnId
    <3>2. db[op[r].ref] \in Row /\ KnownRow(db[op[r].ref]) /\ db[op[r].ref].id = op[r].ref
      BY <1>1, <2>1, <3>1 DEF TypeOK, KnownRow, OwnId
    <3> QED
      BY <2>1, <3>1, <3>2 DEF Alike
  <2> QED
    BY <2>2, <2>3
<1>5. ASSUME NEW e \in Row, KnownRow(e)'
      PROVE  e.id \in generated'
  BY <1>3, <1>4, <1>5, KnownStep DEF Alike
<1>6. ASSUME NEW d \in Row, NEW e \in Row, KnownRow(d)', KnownRow(e)', d.id = e.id
      PROVE  d.name = e.name
  <2>1. KnownRow(d) \/ (Commit(r) /\ Accepts(r) /\ d = RowAfter(r))
    BY <1>6, KnownStep
  <2>2. KnownRow(e) \/ (Commit(r) /\ Accepts(r) /\ e = RowAfter(r))
    BY <1>6, KnownStep
  <2> QED
    BY <1>4, <1>6, <2>1, <2>2 DEF Alike
<1> QED
  BY <1>5, <1>6 DEF Alike

LEMMA ByNameStep ==
    ASSUME PlaceInv, Alike, ByName, NEW r \in Request, Arrive(r) \/ Step(r) \/ DatabaseFails(r)
    PROVE  ByName'
<1>1. TypeOK /\ InHand /\ Placed
  BY DEF PlaceInv, StoreInv
<1>2. NoRow \notin Row
  BY OperationAssumption
<1>3. ASSUME NEW n \in Name, cacheByName[n] # NoRow
      PROVE  cacheByName[n] \in Row /\ KnownRow(cacheByName[n]) /\ cacheByName[n].id \in Id
  BY <1>1, <1>3 DEF TypeOK, KnownRow, Row
<1>4. ASSUME NEW e \in Row, KnownRow(e), CacheSet(e)
      PROVE  ByName'
  <2> SUFFICES ASSUME NEW n \in Name, cacheByName'[n] # NoRow
               PROVE  /\ cacheByName'[n].name = n
                      /\ cacheById'[cacheByName'[n].id] = cacheByName'[n]
    BY DEF ByName
  <2>1. CASE n = e.name
    BY <1>1, <1>4, <2>1, SetById
  <2>2. CASE n # e.name
    <3>1. cacheByName'[n] = cacheByName[n]
      BY <1>1, <1>4, <2>2, SetById
    <3>2. cacheByName[n].name = n /\ cacheById[cacheByName[n].id] = cacheByName[n]
      BY <3>1 DEF ByName
    <3>3. cacheByName[n].id # e.id /\ cacheByName[n].id \in Id
      BY <1>3, <1>4, <2>2, <3>1, <3>2 DEF Alike
    <3> QED
      BY <1>1, <1>4, <3>1, <3>2, <3>3, SetById
  <2> QED
    BY <2>1, <2>2
<1>5. ASSUME NEW e \in Row, KnownRow(e), CacheDelete(e)
      PROVE  ByName'
  <2> SUFFICES ASSUME NEW n \in Name, cacheByName'[n] # NoRow
               PROVE  /\ cacheByName'[n].name = n
                      /\ cacheById'[cacheByName'[n].id] = cacheByName'[n]
    BY DEF ByName
  <2>1. n # e.name /\ cacheByName'[n] = cacheByName[n]
    BY <1>1, <1>5, DropById
  <2>2. cacheByName[n].name = n /\ cacheById[cacheByName[n].id] = cacheByName[n]
    BY <2>1 DEF ByName
  <2>3. cacheByName[n].id # e.id /\ cacheByName[n].id \in Id
    BY <1>3, <1>5, <2>1, <2>2 DEF Alike
  <2> QED
    BY <1>1, <1>5, <2>1, <2>2, <2>3, DropById
<1>6. CASE UNCHANGED <<cacheById, cacheByName>>
  BY <1>6 DEF ByName
<1>7. CASE FillApply(r)
  BY <1>1, <1>4, <1>7, FillApplyMoves DEF KnownRow
<1>8. CASE Apply(r)
  <2>1. CASE op[r].kind # "delete"
    <3>1. row[r] \in Row /\ KnownRow(row[r]) /\ CacheSet(row[r])
      BY <1>1, <1>8, <2>1, ApplyMoves DEF Placed, TypeOK, KnownRow
    <3> QED
      BY <1>4, <3>1
  <2>2. CASE op[r].kind = "delete" /\ captured[r] # NoRow
    <3>1. captured[r] \in Row /\ KnownRow(captured[r]) /\ CacheDelete(captured[r])
      BY <1>1, <1>8, <2>2, ApplyMoves DEF TypeOK, KnownRow
    <3> QED
      BY <1>5, <3>1
  <2>3. CASE op[r].kind = "delete" /\ captured[r] = NoRow
    BY <1>1, <1>6, <1>8, <2>3, ApplyMoves
  <2> QED
    BY <2>1, <2>2, <2>3
<1> QED
  <2>1. FillApply(r) \/ Apply(r) \/ UNCHANGED <<cacheById, cacheByName>>
    BY DEF Arrive, Step, ArriveGet, ArriveLocked, ArriveWrite, FillRead, LoadBlock, Unlock,
           ReadRow, Commit, DatabaseFails, cacheVars
  <2> QED
    BY <1>6, <1>7, <1>8, <2>1

\* A race on record stays on record.
LEMMA DisturbedStays ==
    ASSUME PlaceInv, NEW r \in Request, Arrive(r) \/ Step(r) \/ DatabaseFails(r),
           NEW i \in Id, Disturbed(i)
    PROVE  Disturbed(i)'
<1>1. TypeOK /\ Placed
  BY DEF PlaceInv, StoreInv
<1>2. Others(r) /\ op' = op /\ pc[r] # "done" /\ raced[r] \subseteq raced'[r]
      /\ (result[r] # "none" => result'[r] = result[r])
  BY Onward
<1>3. PICK q \in Request : About(q) = i /\ (raced[q] # {} \/ result[q] = "lost")
  BY DEF Disturbed
<1>4. About(q)' = About(q)
  <2>1. CASE op[q].ref \in Id
    BY <1>2, <2>1 DEF About
  <2>2. CASE op[q].ref \notin Id
    <3>1. op[q].kind = "get"
      BY <1>1, <2>2, OpFacts
    <3>2. q # r
      BY <1>1, <1>2, <1>3, <3>1 DEF Placed
    <3> QED
      BY <1>2, <3>2 DEF About, Others
  <2> QED
    BY <2>1, <2>2
<1>5. raced'[q] # {} \/ result'[q] = "lost"
  BY <1>2, <1>3 DEF Others
<1> QED
  BY <1>3, <1>4, <1>5 DEF Disturbed

\* A step that neither writes the table nor the cache.
LEMMA FollowsQuietly ==
    ASSUME PlaceInv, CacheFollows, NEW r \in Request, Arrive(r) \/ Step(r) \/ DatabaseFails(r),
           NEW i \in Id, ~Disturbed(i)', db' = db, cacheById' = cacheById,
           WillCache(r, i)' => row'[r] = db[i],
           Blind(r, i)' => Blind(r, i) \/ cacheById[i] = NoRow,
           ~WillMend(r, i)
    PROVE  Follows(i)'
<1>1. Others(r) /\ op' = op
  BY Onward
<1>2. Follows(i)
  BY DisturbedStays DEF CacheFollows
<1>3. ASSUME NEW q \in Request, WillCache(q, i)'
      PROVE  row'[q] = db'[i]
  <2>1. CASE q = r
    BY <1>3, <2>1
  <2>2. CASE q # r
    <3>1. WillCache(q, i) /\ row'[q] = row[q]
      BY <1>1, <1>3, <2>2 DEF WillCache, Others
    <3> QED
      BY <1>2, <3>1 DEF Follows
  <2> QED
    BY <2>1, <2>2
<1>4. ASSUME NEW q \in Request, Blind(q, i)'
      PROVE  cacheById'[i] = NoRow
  <2>1. CASE q = r
    BY <1>2, <1>4, <2>1 DEF Follows
  <2>2. CASE q # r
    <3>1. Blind(q, i)
      BY <1>1, <1>4, <2>2 DEF Blind, Others
    <3> QED
      BY <1>2, <3>1 DEF Follows
  <2> QED
    BY <2>1, <2>2
<1>5. ASSUME cacheById'[i] # NoRow
      PROVE  cacheById'[i] = db'[i] \/ \E q \in Request : WillMend(q, i)'
  <2>1. CASE cacheById[i] = db[i]
    BY <2>1
  <2>2. CASE cacheById[i] # db[i]
    <3>1. PICK q \in Request : WillMend(q, i)
      BY <1>2, <1>5, <2>2 DEF Follows
    <3>2. WillMend(q, i)'
      BY <1>1, <3>1 DEF WillMend, Others
    <3> QED
      BY <3>2
  <2> QED
    BY <2>1, <2>2
<1> QED
  BY <1>3, <1>4, <1>5 DEF Follows

LEMMA QuietSteps ==
    ASSUME PlaceInv, CacheFollows, NEW r \in Request,
           \/ Arrive(r) \/ FillRead(r) \/ LoadBlock(r) \/ Unlock(r) \/ ReadRow(r)
           \/ DatabaseFails(r)
           \/ Commit(r) /\ ~Accepts(r),
           NEW i \in Id, ~Disturbed(i)'
    PROVE  Follows(i)'
<1>1. TypeOK /\ InHand /\ OwnId /\ (Arrive(r) \/ Step(r) \/ DatabaseFails(r))
  BY DEF PlaceInv, StoreInv, Step
<1>2. db' = db /\ cacheById' = cacheById
  BY DEF Arrive, ArriveGet, ArriveLocked, ArriveWrite, FillRead, LoadBlock, Unlock, ReadRow,
         DatabaseFails, Commit, Answer, cacheVars
<1>3. Others(r) /\ op' = op
  BY <1>1, Onward
<1>4. pc'[r] # "apply"
  BY <1>1, ArriveGetMoves, ArriveLockedMoves, ArriveWriteMoves, FillReadMoves, LoadBlockMoves,
     UnlockMoves, ReadRowMoves, RefusedMoves, DatabaseFailsMoves DEF Arrive, Finished
<1>5. ASSUME WillCache(r, i)'
      PROVE  row'[r] = db[i]
  <2>1. pc'[r] = "filled" /\ row'[r].id = i
    BY <1>4, <1>5 DEF WillCache
  <2>2. FillRead(r)
    BY <1>1, <2>1, ArriveGetMoves, ArriveLockedMoves, ArriveWriteMoves, LoadBlockMoves,
       UnlockMoves, ReadRowMoves, RefusedMoves, DatabaseFailsMoves DEF Arrive, Finished
  <2>3. row'[r] = Find(op[r].ref) /\ row'[r] # NoRow
    BY <1>1, <2>1, <2>2, FillReadMoves DEF Finished
  <2> QED
    BY <1>1, <2>1, <2>3, FoundOwnId
<1>6. ASSUME Blind(r, i)'
      PROVE  Blind(r, i) \/ cacheById[i] = NoRow
  <2>1. op[r].kind = "delete" /\ op[r].ref = i /\ ~Locks(r) /\ captured'[r] = NoRow
        /\ pc'[r] \in {"read", "commit"}
    BY <1>3, <1>4, <1>6 DEF Blind, Locks
  <2>2. CASE ArriveWrite(r)
    BY <1>1, <2>1, <2>2, ArriveWriteMoves
  <2>3. CASE ReadRow(r)
    BY <1>1, <2>1, <2>3, ReadRowMoves DEF Blind
  <2>4. CASE ~ArriveWrite(r) /\ ~ReadRow(r)
    BY <1>1, <2>1, <2>4, ArriveGetMoves, ArriveLockedMoves, FillReadMoves, LoadBlockMoves,
       UnlockMoves, RefusedMoves, DatabaseFailsMoves DEF Arrive, Finished
  <2> QED
    BY <2>2, <2>3, <2>4
<1>7. ~WillMend(r, i)
  <2> SUFFICES ASSUME WillMend(r, i)
               PROVE  FALSE
    OBVIOUS
  <2>1. pc[r] = "apply" /\ op[r].ref = i
    BY DEF WillMend
  <2>2. result'[r] = "lost"
    BY <1>1, <2>1, ArriveGetMoves, ArriveLockedMoves, ArriveWriteMoves, FillReadMoves, LoadBlockMoves,
       UnlockMoves, ReadRowMoves, RefusedMoves, DatabaseFailsMoves DEF Arrive
  <2>3. About(r)' = i
    BY <1>3, <2>1 DEF About
  <2> QED
    BY <2>2, <2>3 DEF Disturbed
<1> QED
  BY <1>1, <1>2, <1>5, <1>6, <1>7, FollowsQuietly

LEMMA AcceptedFollows ==
    ASSUME PlaceInv, CacheFollows, NEW r \in Request, Commit(r), Accepts(r),
           NEW i \in Id, ~Disturbed(i)'
    PROVE  Follows(i)'
<1> DEFINE at == op[r].ref
<1>1. StoreInv /\ TypeOK /\ InHand /\ Placed /\ (Arrive(r) \/ Step(r) \/ DatabaseFails(r))
  BY DEF PlaceInv, StoreInv, Step
<1>2. /\ Others(r) /\ op' = op /\ pc[r] = "commit" /\ pc'[r] = "apply"
      /\ at \in Id /\ Overlapping(r) \subseteq raced'[r] /\ row'[r] = db'[at]
      /\ \A j \in Id \ {at} : db'[j] = db[j]
      /\ cacheById' = cacheById /\ captured' = captured
  BY <1>1, AcceptedMoves, Onward
<1>3. Follows(i)
  BY <1>1, DisturbedStays DEF CacheFollows
<1>4. i = at => Overlapping(r) = {}
  <2>1. About(r)' = at
    BY <1>2 DEF About
  <2> QED
    BY <1>2, <2>1 DEF Disturbed
<1>5. ASSUME NEW q \in Request, WillCache(q, i)'
      PROVE  row'[q] = db'[i]
  <2>1. CASE q = r
    BY <1>2, <1>5, <2>1 DEF WillCache
  <2>2. CASE q # r
    <3>1. WillCache(q, i) /\ row'[q] = row[q]
      BY <1>2, <1>5, <2>2 DEF WillCache, Others
    <3>2. i # at
      <4> SUFFICES ASSUME i = at
                   PROVE  FALSE
        OBVIOUS
      <4>1. InWindow(q)
        BY <3>1 DEF WillCache, InWindow
      <4>2. About(q) = at
        BY <1>1, <3>1 DEF WillCache, About, InHand, Placed
      <4> QED
        BY <1>2, <1>4, <2>2, <4>1, <4>2 DEF Overlapping, About
    <3> QED
      BY <1>2, <1>3, <3>1, <3>2 DEF Follows
  <2> QED
    BY <2>1, <2>2
<1>6. ASSUME NEW q \in Request, Blind(q, i)'
      PROVE  cacheById'[i] = NoRow
  <2>1. Blind(q, i)
    BY <1>2, <1>6 DEF Blind, Others
  <2> QED
    BY <1>2, <1>3, <2>1 DEF Follows
<1>7. ASSUME cacheById'[i] # NoRow
      PROVE  cacheById'[i] = db'[i] \/ \E q \in Request : WillMend(q, i)'
  <2>1. CASE i = at
    <3>1. ~Blind(r, i)
      BY <1>2, <1>3, <1>7 DEF Follows
    <3>2. WillMend(r, i)'
      BY <1>2, <2>1, <3>1 DEF WillMend, Blind
    <3> QED
      BY <3>2
  <2>2. CASE i # at
    <3>1. CASE cacheById[i] = db[i]
      BY <1>2, <2>2, <3>1
    <3>2. CASE cacheById[i] # db[i]
      <4>1. PICK q \in Request : WillMend(q, i)
        BY <1>2, <1>3, <1>7, <3>2 DEF Follows
      <4>2. WillMend(q, i)'
        BY <1>2, <4>1 DEF WillMend, Others
      <4> QED
        BY <4>2
    <3> QED
      BY <3>1, <3>2
  <2> QED
    BY <2>1, <2>2
<1> QED
  BY <1>5, <1>6, <1>7 DEF Follows

\* A step that puts a row of endpoint j in the cache, in a window no delete of
\* the endpoint overlaps, if it is not on record.
LEMMA SetFollows ==
    ASSUME PlaceInv, CacheFollows, NEW r \in Request, FillApply(r) \/ Apply(r),
           NEW i \in Id, ~Disturbed(i)',
           row[r] \in Row, CacheSet(row[r]), WillCache(r, row[r].id), db' = db, row' = row,
           captured' = captured, About(r) = row[r].id,
           {q \in Overlapping(r) : op[q].kind = "delete"} \subseteq raced'[r],
           pc'[r] \in {"unlock", "done", "read"}, op[r].kind # "delete"
    PROVE  Follows(i)'
<1> DEFINE j == row[r].id
<1>1. TypeOK /\ InHand /\ Placed /\ (Arrive(r) \/ Step(r) \/ DatabaseFails(r))
  BY DEF PlaceInv, StoreInv, Step
<1>2. Others(r) /\ op' = op
  BY <1>1, Onward
<1>3. Follows(i)
  BY <1>1, DisturbedStays DEF CacheFollows
<1>4. cacheById'[j] = row[r] /\ \A k \in Id \ {j} : cacheById'[k] = cacheById[k]
  BY <1>1, SetById
<1>5. ASSUME NEW q \in Request, WillCache(q, i)'
      PROVE  row'[q] = db'[i]
  <2>1. q # r /\ WillCache(q, i)
    BY <1>2, <1>5 DEF WillCache, Others
  <2> QED
    BY <1>3, <2>1 DEF Follows
<1>6. ASSUME NEW q \in Request, Blind(q, i)'
      PROVE  cacheById'[i] = NoRow
  <2>1. q # r /\ Blind(q, i)
    BY <1>2, <1>6 DEF Blind, Others
  <2>2. i # j
    <3> SUFFICES ASSUME i = j
                 PROVE  FALSE
      OBVIOUS
    <3>1. q \in Overlapping(r) /\ op[q].kind = "delete"
      BY <2>1 DEF Blind, Overlapping, InWindow, About
    <3>2. About(r)' = i
      BY <1>2 DEF About
    <3> QED
      BY <3>1, <3>2 DEF Disturbed
  <2> QED
    BY <1>3, <1>4, <2>1, <2>2 DEF Follows
<1>7. ASSUME cacheById'[i] # NoRow
      PROVE  cacheById'[i] = db'[i] \/ \E q \in Request : WillMend(q, i)'
  <2>1. CASE i = j
    BY <1>3, <1>4, <2>1 DEF Follows
  <2>2. CASE i # j
    <3>1. CASE cacheById[i] = db[i]
      BY <1>4, <2>2, <3>1
    <3>2. CASE cacheById[i] # db[i]
      <4>1. PICK q \in Request : WillMend(q, i)
        BY <1>3, <1>4, <1>7, <2>2, <3>2 DEF Follows
      <4>2. q # r
        BY <1>1, <2>2, <4>1 DEF WillMend, Placed, WillCache
      <4>3. WillMend(q, i)'
        BY <1>2, <4>1, <4>2 DEF WillMend, Others
      <4> QED
        BY <4>3
    <3> QED
      BY <3>1, <3>2
  <2> QED
    BY <2>1, <2>2
<1> QED
  BY <1>5, <1>6, <1>7 DEF Follows

LEMMA FillApplyFollows ==
    ASSUME PlaceInv, CacheFollows, NEW r \in Request, FillApply(r), NEW i \in Id, ~Disturbed(i)'
    PROVE  Follows(i)'
<1>1. TypeOK /\ InHand /\ Placed
  BY DEF PlaceInv, StoreInv
<1>2. /\ pc[r] = "filled" /\ row[r] \in Row /\ row[r] # NoRow /\ CacheSet(row[r]) /\ db' = db
      /\ row' = row /\ captured' = captured /\ Overlapping(r) \subseteq raced'[r]
      /\ pc'[r] \in {"unlock", "done", "read"}
  BY <1>1, OperationAssumption, FillApplyMoves
<1>3. About(r) = row[r].id /\ WillCache(r, row[r].id)
  BY <1>1, <1>2 DEF About, Placed, WillCache
<1>4. op[r].kind # "delete"
  BY <1>1, <1>2 DEF InHand, Locks
<1> QED
  BY <1>2, <1>3, <1>4, SetFollows

LEMMA ApplyFollows ==
    ASSUME PlaceInv, CacheFollows, NEW r \in Request, Apply(r), NEW i \in Id, ~Disturbed(i)'
    PROVE  Follows(i)'
<1>1. TypeOK /\ InHand /\ Placed /\ (Arrive(r) \/ Step(r) \/ DatabaseFails(r))
  BY DEF PlaceInv, StoreInv, Step
<1>2. /\ pc[r] = "apply" /\ pc'[r] \in {"unlock", "done"} /\ db' = db /\ row' = row
      /\ captured' = captured /\ op[r].ref \in Id
      /\ {q \in Overlapping(r) : op[q].kind = "delete"} \subseteq raced'[r]
  BY <1>1, ApplyMoves, OpFacts DEF Finished, InHand
<1>3. CASE op[r].kind # "delete"
  <2>1. row[r] \in Row /\ CacheSet(row[r]) /\ row[r].id = op[r].ref
    BY <1>1, <1>2, <1>3, ApplyMoves DEF Placed, TypeOK
  <2>2. About(r) = row[r].id /\ WillCache(r, row[r].id)
    BY <1>2, <1>3, <2>1 DEF About, WillCache
  <2> QED
    BY <1>2, <1>3, <2>1, <2>2, SetFollows
<1>4. CASE op[r].kind = "delete"
  <2>1. Others(r) /\ op' = op
    BY <1>1, Onward
  <2>2. Follows(i)
    BY <1>1, DisturbedStays DEF CacheFollows
  <2>3. /\ i = op[r].ref /\ captured[r] # NoRow => cacheById'[i] = NoRow
        /\ i # op[r].ref \/ captured[r] = NoRow => cacheById'[i] = cacheById[i]
    <3>1. CASE captured[r] = NoRow
      BY <1>1, <1>4, <3>1, ApplyMoves
    <3>2. CASE captured[r] # NoRow
      <4>1. captured[r] \in Row /\ captured[r].id = op[r].ref /\ CacheDelete(captured[r])
        BY <1>1, <1>4, <3>2, ApplyMoves DEF Placed, TypeOK
      <4> QED
        BY <1>1, <3>2, <4>1, DropById
    <3> QED
      BY <3>1, <3>2
  <2>4. ASSUME NEW q \in Request, WillCache(q, i)'
        PROVE  row'[q] = db'[i]
    <3>1. q # r /\ WillCache(q, i)
      BY <1>2, <2>1, <2>4 DEF WillCache, Others
    <3> QED
      BY <1>2, <2>2, <3>1 DEF Follows
  <2>5. ASSUME NEW q \in Request, Blind(q, i)'
        PROVE  cacheById'[i] = NoRow
    <3>1. Blind(q, i)
      BY <1>2, <2>1, <2>5 DEF Blind, Others
    <3> QED
      BY <2>2, <2>3, <3>1 DEF Follows
  <2>6. ASSUME cacheById'[i] # NoRow
        PROVE  cacheById'[i] = db'[i] \/ \E q \in Request : WillMend(q, i)'
    <3>1. cacheById'[i] = cacheById[i] /\ (i # op[r].ref \/ captured[r] = NoRow)
      BY <2>3, <2>6
    <3>2. CASE cacheById[i] = db[i]
      BY <1>2, <3>1, <3>2
    <3>3. CASE cacheById[i] # db[i]
      <4>1. PICK q \in Request : WillMend(q, i)
        BY <2>2, <2>6, <3>1, <3>3 DEF Follows
      <4>2. q # r
        BY <1>4, <3>1, <4>1 DEF WillMend
      <4>3. WillMend(q, i)'
        BY <1>2, <2>1, <4>1, <4>2 DEF WillMend, Others
      <4> QED
        BY <4>3
    <3> QED
      BY <3>2, <3>3
  <2> QED
    BY <2>4, <2>5, <2>6 DEF Follows
<1> QED
  BY <1>3, <1>4

LEMMA FollowsStep ==
    ASSUME PlaceInv, CacheFollows, NEW r \in Request, Arrive(r) \/ Step(r) \/ DatabaseFails(r)
    PROVE  CacheFollows'
<1> SUFFICES ASSUME NEW i \in Id, ~Disturbed(i)'
             PROVE  Follows(i)'
  BY DEF CacheFollows
<1> QED
  BY QuietSteps, AcceptedFollows, FillApplyFollows, ApplyFollows DEF Step

LEMMA CacheStutter ==
    ASSUME CacheInv, UNCHANGED vars
    PROVE  CacheInv'
<1>1. PlaceInv'
  BY PlaceStutter DEF CacheInv
<1>2. UNCHANGED <<db, generated, cacheById, cacheByName, op, pc, row, captured, result, raced>>
  BY DEF vars, cacheVars
<1>3. Alike' /\ ByName'
  BY <1>2 DEF CacheInv, Alike, KnownRow, ByName
<1>4. CacheFollows'
  BY <1>2 DEF CacheInv, CacheFollows, Follows, Disturbed, About, WillCache, Blind, WillMend
<1> QED
  BY <1>1, <1>3, <1>4 DEF CacheInv

LEMMA CacheNext ==
    ASSUME CacheInv, [Next]_vars
    PROVE  CacheInv'
<1>1. CASE UNCHANGED vars
  BY <1>1, CacheStutter
<1>2. CASE Done
  BY <1>2, CacheStutter DEF Done
<1>3. CASE \E r \in Request : Arrive(r) \/ Step(r) \/ DatabaseFails(r)
  BY <1>3, PlaceNext, AlikeStep, ByNameStep, FollowsStep DEF CacheInv
<1> QED
  BY <1>1, <1>2, <1>3 DEF Next

LEMMA CacheInit ==
    ASSUME Init
    PROVE  CacheInv
<1>1. PlaceInv /\ TypeOK /\ OwnId /\ GivenOut /\ NoRow \notin Row
  BY PlaceInit, OperationAssumption DEF PlaceInv, StoreInv
<1>2. Alike
  <2>1. \A e \in Row : KnownRow(e) => e.id \in Id /\ e = db[e.id]
    BY FirstKnown
  <2> QED
    BY <1>1, <2>1 DEF Alike, GivenOut
<1>3. ByName
  <2>1. CASE cacheById = db /\ cacheByName = [n \in Name |-> FindByName(n)]
    <3> SUFFICES ASSUME NEW n \in Name, FindByName(n) # NoRow
                 PROVE  /\ FindByName(n).name = n
                        /\ db[FindByName(n).id] = FindByName(n)
      BY <2>1 DEF ByName
    <3>1. PICK i \in Id : db[i] # NoRow /\ db[i].name = n /\ FindByName(n) = db[i]
      BY <1>1, ByNameFacts DEF TypeOK
    <3> QED
      BY <1>1, <3>1 DEF OwnId
  <2>2. CASE cacheById = NoRows /\ cacheByName = [n \in Name |-> NoRow]
    BY <2>2 DEF ByName
  <2> QED
    BY <2>1, <2>2 DEF Init
<1>4. CacheFollows
  <2>1. cacheById = db \/ cacheById = NoRows
    BY DEF Init
  <2>2. \A q \in Request : pc[q] = "idle"
    BY DEF Init
  <2> QED
    BY <2>1, <2>2 DEF CacheFollows, Follows, WillCache, Blind, WillMend, NoRows
<1> QED
  BY <1>1, <1>2, <1>3, <1>4 DEF CacheInv

\* When nothing is in flight the cached rows are the rows of the table, for
\* every endpoint on which no two windows overlapped and no answer was lost.
THEOREM CacheAgrees == Spec => []CacheAgreesAtRest
<1>1. CacheInv => CacheAgreesAtRest
  <2> SUFFICES ASSUME CacheInv, AtRest,
                      NEW e \in {cacheById[i] : i \in Id} \cup {cacheByName[n] : n \in Name},
                      e # NoRow, ~Disturbed(e.id)
               PROVE  e = db[e.id]
    BY DEF CacheAgreesAtRest
  <2>1. TypeOK /\ OwnId /\ ByName /\ CacheFollows
    BY DEF CacheInv, PlaceInv, StoreInv
  <2>2. e.id \in Id /\ cacheById[e.id] = e
    <3>1. CASE \E i \in Id : e = cacheById[i]
      BY <2>1, <3>1 DEF OwnId
    <3>2. CASE \E n \in Name : e = cacheByName[n]
      BY <2>1, <3>2 DEF ByName, TypeOK, Row
    <3> QED
      BY <3>1, <3>2
  <2>3. \A q \in Request : ~WillMend(q, e.id)
    BY DEF AtRest, WillMend
  <2> QED
    BY <2>1, <2>2, <2>3 DEF CacheFollows, Follows
<1> QED
  BY <1>1, CacheInit, CacheNext, PTL DEF Spec

=============================================================================
