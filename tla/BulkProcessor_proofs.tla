------------------------- MODULE BulkProcessor_proofs -------------------------
(***************************************************************************)
(* Proofs about bulk requests, for every set of requests, plans of any     *)
(* length, thresholds, bulkIds, names, configurations and resources at the *)
(* start: references are what the client meant, the results tell the       *)
(* table, the threshold stops, and a PATCH does what its operations say.   *)
(*                                                                         *)
(* The argument: a request is described by itself (RequestOK: its map of   *)
(* bulkIds is what its results say, the operation it is at is the one the  *)
(* client sent with its references replaced, and has read what its next    *)
(* query needs) and by the resources it was to make (Made). A turn of a    *)
(* request keeps its own description, and nobody else's turn takes a row   *)
(* that was not deleted or makes one that is not its own (Turn, Table).    *)
(* What a PATCH does is a fold, so that its proof is an induction over its *)
(* operations; the induction is that over finite sets.                     *)
(***************************************************************************)
EXTENDS BulkProcessor, FiniteSetTheorems, SequenceTheorems, TLAPS

-----------------------------------------------------------------------------
(* Induction                                                                *)

\* A set is in Good when all its proper subsets are.
Hereditary(Good, D) ==
    \A T \in SUBSET D : (\A U \in SUBSET T : U # T => U \in Good) => T \in Good

\* Induction over the subsets of a finite set.
LEMMA SubsetInduction ==
    ASSUME NEW D, IsFiniteSet(D), NEW Good,
           Hereditary(Good, D)
    PROVE  SUBSET D \subseteq Good
<1> DEFINE Bad == {T \in SUBSET D : T \notin Good}
<1>1. SUFFICES ASSUME Bad # {} PROVE FALSE
  OBVIOUS
<1>2. IsWellFoundedOn(StrictSubsetOrdering(D), FiniteSubsetsOf(D))
  BY FS_StrictSubsetOrderingWellFounded
<1>3. FiniteSubsetsOf(D) = SUBSET D
  BY FS_FiniteSubsetsOfFinite
<1>4. Bad \subseteq FiniteSubsetsOf(D)
  BY <1>3
<1> HIDE DEF Bad
<1>5. \E x \in Bad : \A y \in Bad : ~ (<<y, x>> \in StrictSubsetOrdering(D))
  BY <1>1, <1>2, <1>4, WFMin
<1>6. PICK T \in Bad : \A y \in Bad : ~ (<<y, T>> \in StrictSubsetOrdering(D))
  BY <1>5
<1> USE DEF Bad
<1>7. ASSUME NEW U \in SUBSET T, U # T PROVE U \in Good
  BY <1>6, <1>7 DEF StrictSubsetOrdering
<1>8. QED
  BY <1>6, <1>7 DEF Hereditary

\* Induction over the numbers up to n.
LEMMA UpTo ==
    ASSUME NEW n \in Nat, NEW Good, 0 \in Good,
           \A k \in 0 .. n : k < n /\ k \in Good => k + 1 \in Good
    PROVE  0 .. n \subseteq Good
<1> DEFINE Cuts == {T \in SUBSET (1 .. n) : \A k \in 0 .. n : T = 1 .. k => k \in Good}
<1>1. IsFiniteSet(1 .. n)
  BY FS_Interval
<1>2. Hereditary(Cuts, 1 .. n)
  <2> SUFFICES ASSUME NEW T \in SUBSET (1 .. n), \A U \in SUBSET T : U # T => U \in Cuts
               PROVE  T \in Cuts
    BY DEF Hereditary
  <2> SUFFICES ASSUME NEW k \in 0 .. n, T = 1 .. k PROVE k \in Good
    OBVIOUS
  <2>1. CASE k = 0
    BY <2>1
  <2>2. CASE k # 0
    <3>1. k - 1 \in 0 .. n /\ k - 1 < n /\ k = (k - 1) + 1
      BY <2>2
    <3>2. 1 .. (k - 1) \in SUBSET T /\ 1 .. (k - 1) # T
      BY <2>2
    <3>3. 1 .. (k - 1) \in Cuts
      BY <3>2
    <3>4. k - 1 \in Good
      BY <3>1, <3>3
    <3>5. QED
      BY <3>1, <3>4
  <2>3. QED
    BY <2>1, <2>2
<1> HIDE DEF Cuts
<1>3. SUBSET (1 .. n) \subseteq Cuts
  BY <1>1, <1>2, SubsetInduction
<1> USE DEF Cuts
<1>4. ASSUME NEW k \in 0 .. n PROVE k \in Good
  <2>1. 1 .. k \in SUBSET (1 .. n)
    OBVIOUS
  <2>2. QED
    BY <1>3, <2>1
<1>5. QED
  BY <1>4

-----------------------------------------------------------------------------
(* The fold of a PATCH: FoldLeft chooses a function on the subsets of the   *)
(* positions, of which there is only one, and goes through them upwards.    *)

Start(name, members) == [ok |-> TRUE, name |-> name, members |-> members]

OneMore(ops, start, cf, g, s) ==
    IF s = {} THEN start ELSE Applied(ops[Max(s)], g[s \ {Max(s)}], cf)
IsFold(ops, start, cf, g, D) ==
    g = [s \in SUBSET D |-> OneMore(ops, start, cf, g, s)]

\* The fold of the community modules, spelled out.
LEMMA PatchedIsFold ==
    ASSUME NEW ops, NEW name, NEW members, NEW cf
    PROVE  LET iter == CHOOSE g : IsFold(ops, Start(name, members), cf, g, DOMAIN ops) IN
           Patched(ops, name, members, cf) = iter[DOMAIN ops]
BY DEF Patched, FoldLeft, MapThenFoldSet, IsFold, OneMore, Start

\* A set of positions that is not empty has a last one.
LEMMA MaxIn ==
    ASSUME NEW n \in Nat, NEW T \in SUBSET (1 .. n), T # {}
    PROVE  /\ Max(T) \in T
           /\ \A y \in T : y <= Max(T)
<1> DEFINE HasMax(S) == \E x \in S : \A y \in S : x >= y
           Good == {k \in 0 .. n : \A S \in SUBSET (1 .. k) : S # {} => HasMax(S)}
<1>1. 0 \in Good
  <2>1. 1 .. 0 = {}
    OBVIOUS
  <2>2. \A S \in SUBSET (1 .. 0) : S = {}
    BY <2>1
  <2>3. 0 \in 0 .. n
    OBVIOUS
  <2> HIDE DEF HasMax
  <2>4. QED
    BY <2>2, <2>3
<1>2. ASSUME NEW k \in 0 .. n, k < n, k \in Good PROVE k + 1 \in Good
  <2> SUFFICES ASSUME NEW S \in SUBSET (1 .. (k + 1)), S # {} PROVE HasMax(S)
    BY <1>2
  <2>1. CASE k + 1 \in S
    BY <2>1
  <2>2. CASE k + 1 \notin S
    <3>1. S \in SUBSET (1 .. k)
      BY <2>2
    <3>2. QED
      BY <1>2, <3>1
  <2>3. QED
    BY <2>1, <2>2
<1>3. \A k \in 0 .. n : k < n /\ k \in Good => k + 1 \in Good
  BY <1>2
<1> HIDE DEF Good
<1>4. n \in Good
  <2>1. 0 .. n \subseteq Good
    BY <1>1, <1>3, UpTo
  <2>2. QED
    BY <2>1
<1> USE DEF Good
<1>5. HasMax(T)
  BY <1>4
<1>6. QED
  BY <1>5 DEF Max

Agree(g, T, h, U) == \A s \in SUBSET (T \cap U) : g[s] = h[s]

\* Two such functions agree wherever both are defined.
LEMMA FoldsAgree ==
    ASSUME NEW ops, NEW start, NEW cf, NEW n \in Nat,
           NEW T \in SUBSET (1 .. n), NEW U \in SUBSET (1 .. n), NEW g, NEW h,
           IsFold(ops, start, cf, g, T), IsFold(ops, start, cf, h, U)
    PROVE  Agree(g, T, h, U)
<1> DEFINE Same == {s \in SUBSET (T \cap U) : g[s] = h[s]}
<1>1. IsFiniteSet(T \cap U)
  <2>1. IsFiniteSet(1 .. n)
    BY FS_Interval
  <2>2. QED
    BY <2>1, FS_Subset
<1>2. ASSUME NEW s \in SUBSET (T \cap U), \A u \in SUBSET s : u # s => u \in Same
      PROVE  s \in Same
  <2>1. /\ g[s] = OneMore(ops, start, cf, g, s)
        /\ h[s] = OneMore(ops, start, cf, h, s)
    <3>1. s \in SUBSET T /\ s \in SUBSET U
      OBVIOUS
    <3>2. g = [r \in SUBSET T |-> OneMore(ops, start, cf, g, r)]
      BY DEF IsFold
    <3>3. h = [r \in SUBSET U |-> OneMore(ops, start, cf, h, r)]
      BY DEF IsFold
    <3>4. g[s] = OneMore(ops, start, cf, g, s)
      BY <3>1, <3>2
    <3>5. h[s] = OneMore(ops, start, cf, h, s)
      BY <3>1, <3>3
    <3>6. QED
      BY <3>4, <3>5
  <2>2. CASE s = {}
    BY <2>1, <2>2 DEF OneMore
  <2>3. CASE s # {}
    <3>1. Max(s) \in s
      <4>1. s \in SUBSET (1 .. n)
        OBVIOUS
      <4>2. QED
        BY <2>3, <4>1, MaxIn
    <3>2. g[s \ {Max(s)}] = h[s \ {Max(s)}]
      BY <1>2, <3>1
    <3>3. QED
      BY <2>1, <2>3, <3>2 DEF OneMore
  <2>4. QED
    BY <2>2, <2>3
<1>3. Hereditary(Same, T \cap U)
  BY <1>2 DEF Hereditary
<1> HIDE DEF Same
<1>4. SUBSET (T \cap U) \subseteq Same
  BY <1>1, <1>3, SubsetInduction
<1> USE DEF Same
<1>5. QED
  BY <1>4 DEF Agree

\* There is such a function on any number of positions.
LEMMA FoldExists ==
    ASSUME NEW ops, NEW start, NEW cf, NEW n \in Nat
    PROVE  \A T \in SUBSET (1 .. n) : \E g : IsFold(ops, start, cf, g, T)
<1> DEFINE Fold(T) == CHOOSE g : IsFold(ops, start, cf, g, T)
           Behind(s) == s \ {Max(s)}
           Good == {T \in SUBSET (1 .. n) : \E g : IsFold(ops, start, cf, g, T)}
<1>1. IsFiniteSet(1 .. n)
  BY FS_Interval
<1>a. \A T, U \in SUBSET (1 .. n) : \A g, h :
         IsFold(ops, start, cf, g, T) /\ IsFold(ops, start, cf, h, U)
            => Agree(g, T, h, U)
  BY FoldsAgree
<1>2. ASSUME NEW T \in SUBSET (1 .. n), \A U \in SUBSET T : U # T => U \in Good
      PROVE  T \in Good
  <2> DEFINE value(s) == IF s = {} THEN start ELSE Applied(ops[Max(s)], Fold(Behind(s))[Behind(s)], cf)
             G == [s \in SUBSET T |-> value(s)]
  <2>1. ASSUME NEW s \in SUBSET T, s # {}
        PROVE  Behind(s) \in SUBSET T /\ Behind(s) # T /\ IsFold(ops, start, cf, Fold(Behind(s)), Behind(s))
    <3>1. Max(s) \in s
      <4>1. s \in SUBSET (1 .. n)
        OBVIOUS
      <4>2. QED
        BY <2>1, <4>1, MaxIn
    <3>2. Behind(s) \in SUBSET T /\ Behind(s) # T
      BY <3>1
    <3>3. \E g : IsFold(ops, start, cf, g, Behind(s))
      BY <1>2, <3>2
    <3>4. QED
      BY <3>2, <3>3
  <2>2. ASSUME NEW s \in SUBSET T PROVE value(s) = OneMore(ops, start, cf, G, s)
    <3>1. CASE s = {}
      BY <3>1 DEF OneMore
    <3>2. CASE s # {}
      <4> DEFINE u == Behind(s)
      <4>1. /\ u \in SUBSET T /\ u # T
            /\ IsFold(ops, start, cf, Fold(u), u)
        BY <2>1, <3>2
      <4>2. Fold(u)[u] = OneMore(ops, start, cf, Fold(u), u)
        <5>1. Fold(u) = [r \in SUBSET u |-> OneMore(ops, start, cf, Fold(u), r)]
          BY <4>1 DEF IsFold
        <5> HIDE DEF Fold, u
        <5>2. QED
          BY <5>1
      <4>3. G[u] = value(u)
        BY <4>1
      <4>4. Fold(u)[u] = value(u)
        <5>1. CASE u = {}
          BY <4>2, <5>1 DEF OneMore
        <5>2. CASE u # {}
          <6> DEFINE w == Behind(u)
          <6>1. w \in SUBSET T /\ IsFold(ops, start, cf, Fold(w), w)
            BY <2>1, <4>1, <5>2
          <6>2. w \in SUBSET (u \cap w)
            OBVIOUS
          <6>3. u \in SUBSET (1 .. n) /\ w \in SUBSET (1 .. n)
            BY <4>1, <6>1
          <6> HIDE DEF Fold, u, w
          <6>4. Fold(u)[w] = Fold(w)[w]
            BY <1>a, <4>1, <6>1, <6>2, <6>3 DEF Agree
          <6> USE DEF w
          <6>5. QED
            BY <4>2, <5>2, <6>4 DEF OneMore
        <5>3. QED
          BY <5>1, <5>2
      <4> HIDE DEF Fold, G
      <4>5. QED
        BY <3>2, <4>3, <4>4 DEF OneMore
    <3>3. QED
      BY <3>1, <3>2
  <2> HIDE DEF value
  <2>3. G = [s \in SUBSET T |-> OneMore(ops, start, cf, G, s)]
    BY <2>2
  <2> HIDE DEF G
  <2>4. QED
    BY <2>3 DEF IsFold
<1>3. Hereditary(Good, 1 .. n)
  BY <1>2 DEF Hereditary
<1> HIDE DEF Good
<1>4. SUBSET (1 .. n) \subseteq Good
  BY <1>1, <1>3, SubsetInduction
<1> USE DEF Good
<1>5. QED
  BY <1>4

\* What a PATCH makes of a group is reached operation by operation.
LEMMA PatchedRuns ==
    ASSUME NEW ops, NEW n \in Nat, DOMAIN ops = 1 .. n, NEW name, NEW members, NEW cf
    PROVE  \E after :
              /\ after[0] = Start(name, members)
              /\ \A k \in 1 .. n : after[k] = Applied(ops[k], after[k - 1], cf)
              /\ after[n] = Patched(ops, name, members, cf)
<1> DEFINE start == Start(name, members)
           iter == CHOOSE g : IsFold(ops, start, cf, g, DOMAIN ops)
           after == [k \in 0 .. n |-> iter[1 .. k]]
<1>1. Patched(ops, name, members, cf) = iter[1 .. n]
  BY PatchedIsFold
<1>2. IsFold(ops, start, cf, iter, 1 .. n)
  <2>1. \E g : IsFold(ops, start, cf, g, 1 .. n)
    BY FoldExists
  <2>2. QED
    BY <2>1
<1> HIDE DEF iter, start
<1>3. ASSUME NEW k \in 0 .. n PROVE iter[1 .. k] = OneMore(ops, start, cf, iter, 1 .. k)
  <2>1. 1 .. k \in SUBSET (1 .. n)
    OBVIOUS
  <2>2. iter = [r \in SUBSET (1 .. n) |-> OneMore(ops, start, cf, iter, r)]
    BY <1>2 DEF IsFold
  <2>3. QED
    BY <2>1, <2>2
<1>4. iter[1 .. 0] = start
  <2>1. 1 .. 0 = {}
    OBVIOUS
  <2>2. iter[1 .. 0] = OneMore(ops, start, cf, iter, 1 .. 0)
    BY <1>3
  <2>3. QED
    BY <2>1, <2>2 DEF OneMore
<1>5. ASSUME NEW k \in 1 .. n PROVE iter[1 .. k] = Applied(ops[k], iter[1 .. (k - 1)], cf)
  <2>1. /\ k \in 1 .. k /\ k \in 0 .. n
        /\ 1 .. k \in SUBSET (1 .. n)
    OBVIOUS
  <2>2. Max(1 .. k) \in 1 .. k /\ k <= Max(1 .. k)
    BY <2>1, MaxIn
  <2>3. Max(1 .. k) = k
    BY <2>2
  <2>4. (1 .. k) \ {k} = 1 .. (k - 1)
    OBVIOUS
  <2>5. iter[1 .. k] = OneMore(ops, start, cf, iter, 1 .. k)
    BY <1>3, <2>1
  <2>6. QED
    BY <2>1, <2>3, <2>4, <2>5 DEF OneMore
<1>6. /\ after[0] = start
      /\ \A k \in 1 .. n : after[k] = Applied(ops[k], after[k - 1], cf)
      /\ after[n] = Patched(ops, name, members, cf)
  BY <1>1, <1>4, <1>5
<1>7. QED
  BY <1>6 DEF start

-----------------------------------------------------------------------------
(* What one operation of a PATCH does                                       *)

\* An operation of a PATCH makes a draft of a draft.
LEMMA AppliedType ==
    ASSUME NEW o \in PatchOperation(Ref), NEW s \in Draft, NEW cf
    PROVE  Applied(o, s, cf) \in Draft
<1>1. Refused(s) \in Draft
  BY DEF Refused, Draft
<1>2. \A xs \in SUBSET Ref : WithMembers(s, xs) \in Draft
  BY DEF WithMembers, Draft
<1>3. WithName(s, o.name) \in Draft
  BY DEF WithName, Draft, PatchOperation
<1>4. HandleAdd(o, s, cf) \in Draft
  BY <1>1, <1>2 DEF HandleAdd, Draft, PatchOperation
<1>5. HandleRemove(o, s, cf) \in Draft
  BY <1>1, <1>2 DEF HandleRemove, Draft, PatchOperation
<1>6. HandleReplace(o, s) \in Draft
  BY <1>1, <1>2, <1>3 DEF HandleReplace, Draft, PatchOperation
<1>7. QED
  BY <1>4, <1>5, <1>6 DEF Applied, PatchOperation, Draft

\* An operation that is not refused does what it says to each member: the code of
\* add, remove and replace, against one definition of what is asked.
LEMMA AppliedAsAsked ==
    ASSUME NEW o \in PatchOperation(Ref), NEW s \in Draft, NEW cf, Applied(o, s, cf).ok
    PROVE  /\ s.ok
           /\ \A m \in Ref : m \in Applied(o, s, cf).members <=>
                 IF m \in SpeaksOf(o) THEN m \in Wants(o) ELSE m \in s.members
<1>1. s.ok
  BY DEF Applied, Draft
<1>2. ~Refused(s).ok
  BY DEF Refused, Draft
<1>3. \A xs : WithMembers(s, xs).members = xs
  BY DEF WithMembers, Draft
<1>4. WithName(s, o.name).members = s.members
  BY DEF WithName, Draft
<1>5. CASE o.op = "add"
  <2>1. Applied(o, s, cf) = HandleAdd(o, s, cf)
    BY <1>1, <1>5 DEF Applied
  <2>2. o.form \in {"list", "single"} /\ Applied(o, s, cf).members = s.members \cup o.value
    BY <1>2, <1>3, <2>1 DEF HandleAdd
  <2>3. QED
    BY <1>1, <1>5, <2>2 DEF SpeaksOf, Wants
<1>6. CASE o.op = "remove"
  <2>1. Applied(o, s, cf) = HandleRemove(o, s, cf)
    BY <1>1, <1>6 DEF Applied
  <2>2. Wants(o) = {}
    BY <1>6 DEF Wants
  <2>3. CASE o.path = "externalId"
    <3>1. SpeaksOf(o) = {}
      BY <1>6, <2>3 DEF SpeaksOf
    <3>2. Applied(o, s, cf) = s
      BY <2>1, <2>3 DEF HandleRemove
    <3>3. QED
      BY <1>1, <3>1, <3>2
  <2>4. CASE o.path # "externalId" /\ Lists(o)
    <3>1. SpeaksOf(o) = o.value
      BY <1>6, <2>4 DEF SpeaksOf
    <3>2. Applied(o, s, cf).members = s.members \ o.value
      BY <1>2, <1>3, <2>1, <2>4 DEF HandleRemove, Lists
    <3>3. QED
      BY <1>1, <2>2, <3>1, <3>2
  <2>5. CASE o.path = "filter" /\ ~Lists(o)
    <3>1. SpeaksOf(o) = {o.target}
      BY <1>6, <2>5 DEF SpeaksOf
    <3>2. Applied(o, s, cf).members = s.members \ {o.target}
      BY <1>2, <1>3, <2>1, <2>5 DEF HandleRemove, Lists
    <3>3. QED
      BY <1>1, <2>2, <3>1, <3>2
  <2>6. CASE o.path = "members" /\ ~Lists(o)
    <3>1. SpeaksOf(o) = Ref
      BY <1>6, <2>6 DEF SpeaksOf
    <3>2. Applied(o, s, cf).members = {}
      BY <1>2, <1>3, <2>1, <2>6 DEF HandleRemove, Lists
    <3>3. QED
      BY <1>1, <2>2, <3>1, <3>2
  <2>7. CASE o.path \notin {"externalId", "filter", "members"} /\ ~Lists(o)
    BY <1>2, <2>1, <2>7 DEF HandleRemove, Lists
  <2>8. QED
    BY <2>3, <2>4, <2>5, <2>6, <2>7
<1>7. CASE o.op = "replace"
  <2>1. Applied(o, s, cf) = HandleReplace(o, s)
    BY <1>1, <1>7 DEF Applied
  <2>2. CASE Sets(o)
    <3>1. SpeaksOf(o) = Ref
      BY <1>7, <2>2 DEF SpeaksOf
    <3>2. CASE o.path = "members"
      BY <1>1, <1>2, <1>3, <1>7, <2>1, <3>1, <3>2 DEF HandleReplace, Wants
    <3>3. CASE o.path # "members"
      <4>1. o.path = "" /\ o.form \in {"list", "single", "object"} /\ "members" \in o.has
        BY <2>2, <3>3 DEF Sets
      <4>2. HandleReplace(o, s).members = o.value
        BY <4>1 DEF HandleReplace, Draft
      <4>3. Wants(o) = o.value
        BY <1>7, <4>1 DEF Wants
      <4>4. QED
        BY <1>1, <2>1, <3>1, <4>2, <4>3
    <3>4. QED
      BY <3>2, <3>3
  <2>3. CASE ~Sets(o)
    <3>1. SpeaksOf(o) = {}
      BY <1>7, <2>3 DEF SpeaksOf
    <3>2. HandleReplace(o, s).members = s.members
      BY <1>2, <1>4, <2>1, <2>3 DEF HandleReplace, Sets, Draft
    <3>3. QED
      BY <1>1, <2>1, <3>1, <3>2
  <2>4. QED
    BY <2>2, <2>3
<1>8. QED
  BY <1>5, <1>6, <1>7 DEF PatchOperation

(* What is asked of a PATCH of k operations.                                *)
Said(patch, k, m) == {j \in 1 .. k : m \in SpeaksOf(patch[j])}
Asked(patch, k, listed, m) ==
    IF Said(patch, k, m) = {} THEN m \in listed ELSE m \in Wants(patch[Max(Said(patch, k, m))])

\* What is asked, by the last operation.
LEMMA AskedOneMore ==
    ASSUME NEW patch, NEW listed, NEW m, NEW k \in Nat \ {0}
    PROVE  Asked(patch, k, listed, m) <=>
              IF m \in SpeaksOf(patch[k]) THEN m \in Wants(patch[k]) ELSE Asked(patch, k - 1, listed, m)
<1>1. CASE m \in SpeaksOf(patch[k])
  <2>1. k \in Said(patch, k, m) /\ \A j \in Said(patch, k, m) : j \in Nat /\ k >= j
    BY <1>1 DEF Said
  <2>2. Max(Said(patch, k, m)) = k
    BY <2>1 DEF Max
  <2>3. QED
    BY <1>1, <2>1, <2>2 DEF Asked
<1>2. CASE m \notin SpeaksOf(patch[k])
  <2>1. Said(patch, k, m) = Said(patch, k - 1, m)
    BY <1>2 DEF Said
  <2>2. QED
    BY <1>2, <2>1 DEF Asked
<1>3. QED
  BY <1>1, <1>2

\* GroupPatchEngine.apply, for a PATCH of any length: what it makes of a group is
\* a draft, and one that is not refused has the members that were asked for.
THEOREM PatchedAsAsked ==
    ASSUME NEW patch \in Seq(PatchOperation(Ref)), NEW name \in Name, NEW listed \in SUBSET Ref, NEW cf
    PROVE  LET new == Patched(patch, name, listed, cf) IN
           /\ new \in Draft
           /\ new.ok => \A m \in Ref : m \in new.members <=> Asked(patch, Len(patch), listed, m)
<1> DEFINE n == Len(patch)
<1>1. n \in Nat /\ DOMAIN patch = 1 .. n /\ \A k \in 1 .. n : patch[k] \in PatchOperation(Ref)
  OBVIOUS
<1>2. PICK after :
         /\ after[0] = Start(name, listed)
         /\ \A k \in 1 .. n : after[k] = Applied(patch[k], after[k - 1], cf)
         /\ after[n] = Patched(patch, name, listed, cf)
  BY <1>1, PatchedRuns
<1> DEFINE Right(k) == /\ after[k] \in Draft
                       /\ after[k].ok => \A m \in Ref : m \in after[k].members <=> Asked(patch, k, listed, m)
           Good == {k \in 0 .. n : Right(k)}
<1> HIDE DEF n
<1>3. 0 \in Good
  <2>1. after[0] \in Draft /\ after[0].members = listed
    BY <1>2 DEF Start, Draft
  <2>2. \A m : Said(patch, 0, m) = {}
    BY DEF Said
  <2>3. \A m : Asked(patch, 0, listed, m) <=> m \in listed
    BY <2>2 DEF Asked
  <2>4. 0 \in 0 .. n
    BY <1>1
  <2>5. QED
    BY <2>1, <2>3, <2>4
<1>4. ASSUME NEW k \in 0 .. n, k < n, k \in Good PROVE k + 1 \in Good
  <2> DEFINE o == patch[k + 1]
  <2>1. k + 1 \in 1 .. n /\ k + 1 \in 0 .. n /\ k + 1 \in Nat \ {0} /\ (k + 1) - 1 = k
    BY <1>1, <1>4
  <2>2. o \in PatchOperation(Ref)
    BY <1>1, <2>1
  <2>3. after[k + 1] = Applied(o, after[k], cf)
    BY <1>2, <2>1
  <2>4. Right(k)
    BY <1>4
  <2>5. after[k + 1] \in Draft
    BY <2>2, <2>3, <2>4, AppliedType
  <2>6. ASSUME after[k + 1].ok, NEW m \in Ref
        PROVE  m \in after[k + 1].members <=> Asked(patch, k + 1, listed, m)
    <3>1. /\ after[k].ok
          /\ m \in after[k + 1].members <=> IF m \in SpeaksOf(o) THEN m \in Wants(o) ELSE m \in after[k].members
      <4> HIDE DEF o, Right
      <4>1. after[k] \in Draft
        BY <2>4 DEF Right
      <4>2. QED
        BY <2>2, <2>3, <2>6, <4>1, AppliedAsAsked
    <3>2. m \in after[k].members <=> Asked(patch, k, listed, m)
      BY <2>4, <3>1
    <3>3. Asked(patch, k + 1, listed, m) <=>
             IF m \in SpeaksOf(o) THEN m \in Wants(o) ELSE Asked(patch, k, listed, m)
      BY <2>1, AskedOneMore
    <3>4. QED
      BY <3>1, <3>2, <3>3
  <2>7. QED
    BY <2>1, <2>5, <2>6
<1> HIDE DEF Good
<1>5. 0 .. n \subseteq Good
  BY <1>1, <1>3, <1>4, UpTo
<1> USE DEF Good
<1>6. Right(n)
  BY <1>1, <1>5
<1>7. QED
  BY <1>2, <1>6 DEF n

-----------------------------------------------------------------------------
(* A request                                                                *)

Result == {"ok", "error"}
\* What may be left of the queries of an operation.
Queues ==
    {<<>>, <<"find", "listed", "conflict", "resolve", "update", "reply">>,
     <<"conflict", "insert", "resolve", "members", "reply">>,
     <<"listed", "conflict", "resolve", "update", "reply">>,
     <<"conflict", "resolve", "update", "reply">>, <<"insert", "resolve", "members", "reply">>,
     <<"conflict", "insert", "reply">>, <<"conflict", "update", "reply">>,
     <<"find", "conflict", "update">>, <<"resolve", "members", "reply">>,
     <<"resolve", "update", "reply">>, <<"conflict", "insert">>, <<"conflict", "update">>,
     <<"find", "delete">>, <<"insert", "reply">>, <<"members", "reply">>, <<"update", "reply">>,
     <<"delete">>, <<"insert">>, <<"reply">>, <<"update">>}
Current ==
    [left : Queues, op : Operation(Ref) \cup {None}, found : Row \cup {None},
     listed : SUBSET Ref, new : Draft \cup {None}, linked : SUBSET Id]
Request ==
    [ops : Seq(Operation(Named)), limit : Nat, results : Seq(Result),
     ids : [BulkId -> Id \cup {None}], cur : Current]

\* The POSTs before the i-th operation that gave a resource the bulkId x.
PostsIn(q, i, x) ==
    {j \in 1..(i - 1) : /\ q.ops[j].method = "POST" /\ q.ops[j].bulkId = x
                        /\ q.results[j] = "ok"}

\* The map of bulkIds is what the results say.
IdsTell(b, q) ==
    \A x \in BulkId :
        q.ids[x] = IF PostsIn(q, Index(q), x) = {} THEN None ELSE <<b, Max(PostsIn(q, Index(q), x))>>

Within(q) ==
    q.limit > 0 =>
        /\ Errors(q) <= q.limit
        /\ Errors(q) = q.limit => ~Working(q) /\ q.results[Len(q.results)] = "error"

\* The queries an operation may have before it.
Stages(o) ==
    CASE o.method = "POST" /\ o.type = "user" -> {<<"conflict", "insert">>, <<"insert">>}
      [] o.method = "POST" /\ o.type = "group" ->
            {<<"conflict", "insert", "resolve", "members", "reply">>,
             <<"insert", "resolve", "members", "reply">>, <<"resolve", "members", "reply">>,
             <<"members", "reply">>, <<"insert", "reply">>, <<"reply">>}
      [] o.method \in {"PUT", "PATCH"} /\ o.type = "user" ->
            {<<"find", "conflict", "update">>, <<"conflict", "update">>, <<"update">>}
      [] o.method \in {"PUT", "PATCH"} /\ o.type = "group" ->
            {<<"find", "listed", "conflict", "resolve", "update", "reply">>,
             <<"listed", "conflict", "resolve", "update", "reply">>,
             <<"conflict", "resolve", "update", "reply">>, <<"resolve", "update", "reply">>,
             <<"update", "reply">>, <<"reply">>}
      [] o.method = "DELETE" -> {<<"find", "delete">>, <<"delete">>}

\* A PATCH of a group has the members that its operations ask for.
AsAsked(c) ==
    c.new # None /\ c.op.type = "group" /\ c.op.method = "PATCH" =>
        \A m \in Ref : m \in c.new.members <=> Asked(c.op.patch, Len(c.op.patch), c.listed, m)

\* The operation c that q is at: it is the one the client sent, with its
\* references replaced; it knows what the queries behind it have read.
Going(q, c) ==
    /\ c \in Current /\ c.op \in Operation(Ref) /\ c.op.type \in Kind
    /\ c.op = WithReferences(q, q.ops[Index(q)])
    /\ c.op.method # "POST" => c.op.target \in Id
    /\ c.left \in Stages(c.op)
    /\ Head(c.left) = "listed" => c.found \in Row
    /\ Head(c.left) \in {"insert", "resolve", "members", "update"} => c.new \in Draft
    /\ Head(c.left) = "conflict" /\ c.op.method # "POST" /\ c.op.type = "group" => c.new \in Draft
    /\ AsAsked(c)

RequestOK(b, q) ==
    /\ q \in Request
    /\ Len(q.ops) <= Length /\ Len(q.results) <= Len(q.ops)
    /\ IdsTell(b, q)
    /\ Within(q)
    /\ Working(q) => Index(q) <= Len(q.ops) /\ Going(q, q.cur)
    /\ ~Working(q) => q.cur = Rest

\* The resource of the i-th operation, a POST: it is made by the query "insert"
\* and goes when somebody deletes it.
Made(b, i) ==
    LET q == req[b]
        inserted == q.cur.op # None /\ Head(q.cur.left) \notin {"conflict", "insert"} IN
    /\ i < Index(q) /\ q.results[i] = "ok" => rows[<<b, i>>] # None \/ <<b, i>> \in gone
    /\ i < Index(q) /\ q.results[i] # "ok" /\ rows[<<b, i>>] # None => <<b, i>> \in half
    /\ i = Index(q) /\ inserted => rows[<<b, i>>] # None \/ <<b, i>> \in gone
    /\ i = Index(q) /\ ~inserted => rows[<<b, i>>] = None
    /\ i > Index(q) => rows[<<b, i>>] = None

TypeOK == rows \in [Id -> Row \cup {None}] /\ req \in [Bulk -> Request]

BulkInv ==
    /\ TypeOK
    /\ \A b \in Bulk : RequestOK(b, req[b])
    /\ \A b \in Bulk : \A i \in DOMAIN req[b].ops : req[b].ops[i].method = "POST" => Made(b, i)

\* None is no value of the program.
LEMMA NoneIsNothing ==
    /\ None \notin Id /\ None \notin BulkId /\ None \notin Row /\ None \notin Draft
    /\ None \notin Operation(Ref)
BY PlanAssumption DEF Ref

LEMMA OwnIds == ASSUME NEW b \in Bulk, NEW i \in 1 .. Length PROVE <<b, i>> \in Id
BY DEF Id

\* A reference becomes the id of a resource or stays as it is.
LEMMA ResolvedIs ==
    ASSUME NEW q, q.ids \in [BulkId -> Id \cup {None}]
    PROVE  /\ \A x \in Named : Resolved(q, x) \in Ref
           /\ \A x : x \notin BulkId => Resolved(q, x) = x
           /\ Resolved(q, None) = None
BY NoneIsNothing DEF Resolved, Named, Ref, Id

\* The operation that is run is the one the client sent, but for its references.
LEMMA WithReferencesIs ==
    ASSUME NEW q, q.ids \in [BulkId -> Id \cup {None}], NEW o \in Operation(Named)
    PROVE  /\ WithReferences(q, o) \in Operation(Ref)
           /\ WithReferences(q, o).method = o.method
           /\ WithReferences(q, o).type = o.type
           /\ WithReferences(q, o).bulkId = o.bulkId
           /\ WithReferences(q, o).target = Resolved(q, o.target)
           /\ WithReferences(q, o).members = {Resolved(q, x) : x \in o.members}
           /\ DOMAIN WithReferences(q, o).patch = DOMAIN o.patch
           /\ \A j \in DOMAIN o.patch :
                 /\ WithReferences(q, o).patch[j].value = {Resolved(q, x) : x \in o.patch[j].value}
                 /\ WithReferences(q, o).patch[j].target = Resolved(q, o.patch[j].target)
<1> DEFINE Those(xs) == {Resolved(q, x) : x \in xs}
           InPatch(p) == [p EXCEPT !.value = Those(@), !.target = Resolved(q, @)]
           patch == [j \in DOMAIN o.patch |-> InPatch(o.patch[j])]
           w == [o EXCEPT !.target = Resolved(q, @), !.members = Those(@), !.patch = patch]
<1>1. WithReferences(q, o) = w
  BY DEF WithReferences
<1>2. /\ \A xs \in SUBSET Named : Those(xs) \in SUBSET Ref
      /\ \A x \in Named \cup {None} : Resolved(q, x) \in Ref \cup {None}
  BY ResolvedIs
<1>3. /\ o.target \in Named \cup {None} /\ o.members \in SUBSET Named
      /\ o.patch \in Seq(PatchOperation(Named))
  BY DEF Operation
<1>4. ASSUME NEW j \in DOMAIN o.patch
      PROVE  /\ patch[j] \in PatchOperation(Ref)
             /\ patch[j].value = Those(o.patch[j].value)
             /\ patch[j].target = Resolved(q, o.patch[j].target)
  <2> DEFINE p == o.patch[j]
  <2>1. p \in PatchOperation(Named)
    BY <1>3
  <2>2. patch[j] = [p EXCEPT !.value = Those(@), !.target = Resolved(q, @)]
    OBVIOUS
  <2>3. p.value \in SUBSET Named /\ p.target \in Named \cup {None}
    BY <2>1 DEF PatchOperation
  <2>4. Those(p.value) \in SUBSET Ref /\ Resolved(q, p.target) \in Ref \cup {None}
    BY <1>2, <2>3
  <2> HIDE DEF patch, p, Those
  <2>5. /\ patch[j] \in PatchOperation(Ref)
        /\ patch[j].value = Those(p.value)
        /\ patch[j].target = Resolved(q, p.target)
    BY <2>1, <2>2, <2>4 DEF PatchOperation
  <2>6. QED
    BY <2>5 DEF p
<1>5. DOMAIN patch = DOMAIN o.patch /\ patch \in Seq(PatchOperation(Ref))
  <2>1. DOMAIN o.patch = 1 .. Len(o.patch) /\ Len(o.patch) \in Nat
    BY <1>3
  <2>2. DOMAIN patch = DOMAIN o.patch
    OBVIOUS
  <2>3. patch \in [1 .. Len(o.patch) -> PatchOperation(Ref)]
    <3>1. patch = [j \in DOMAIN o.patch |-> patch[j]]
      OBVIOUS
    <3> HIDE DEF patch
    <3>2. QED
      BY <1>4, <2>1, <3>1
  <2> HIDE DEF patch
  <2>4. QED
    BY <2>1, <2>2, <2>3
<1>6. Those(o.members) \in SUBSET Ref /\ Resolved(q, o.target) \in Ref \cup {None}
  BY <1>2, <1>3
<1> HIDE DEF patch, Those
<1>7. /\ w \in Operation(Ref)
      /\ w.method = o.method /\ w.type = o.type /\ w.bulkId = o.bulkId
      /\ w.target = Resolved(q, o.target) /\ w.members = Those(o.members) /\ w.patch = patch
  BY <1>5, <1>6 DEF Operation
<1>8. QED
  BY <1>1, <1>4, <1>5, <1>7 DEF Those

-----------------------------------------------------------------------------
(* The end of an operation                                                  *)

LEMMA RestIsCurrent == Rest \in Current
<1>1. <<>> \in Queues
  BY Zenon DEF Queues
<1>2. QED
  BY <1>1 DEF Rest, Current

ErrorsIn(r) == {i \in DOMAIN r : r[i] = "error"}

\* Errors, after one more result.
LEMMA ErrorsOfOneMore ==
    ASSUME NEW r \in Seq(Result), NEW x \in Result
    PROVE  /\ Cardinality(ErrorsIn(r)) \in Nat
           /\ Cardinality(ErrorsIn(Append(r, x))) = IF x = "error" THEN Cardinality(ErrorsIn(r)) + 1 ELSE Cardinality(ErrorsIn(r))
<1>1. Len(r) \in Nat /\ DOMAIN r = 1 .. Len(r)
  OBVIOUS
<1>2. IsFiniteSet(ErrorsIn(r))
  <2>1. IsFiniteSet(1 .. Len(r))
    BY <1>1, FS_Interval
  <2>2. ErrorsIn(r) \in SUBSET (1 .. Len(r))
    BY <1>1 DEF ErrorsIn
  <2>3. QED
    BY <2>1, <2>2, FS_Subset
<1>3. Cardinality(ErrorsIn(r)) \in Nat
  BY <1>2, FS_CardinalityType
<1>4. CASE x = "error"
  <2>1. ErrorsIn(Append(r, x)) = ErrorsIn(r) \cup {Len(r) + 1} /\ Len(r) + 1 \notin ErrorsIn(r)
    BY <1>1, <1>4 DEF ErrorsIn
  <2>2. Cardinality(ErrorsIn(r) \cup {Len(r) + 1}) = Cardinality(ErrorsIn(r)) + 1
    BY <1>2, <2>1, FS_AddElement
  <2>3. QED
    BY <1>3, <1>4, <2>1, <2>2
<1>5. CASE x # "error"
  <2>1. ErrorsIn(Append(r, x)) = ErrorsIn(r)
    BY <1>1, <1>5 DEF ErrorsIn
  <2>2. QED
    BY <1>3, <1>5, <2>1
<1>6. QED
  BY <1>4, <1>5

\* An operation that ends leaves its request in order.
LEMMA EndedOK ==
    ASSUME BulkInv, NEW b \in Bulk, NEW res \in Result, ~Over(req[b]),
           res = "ok" => Working(req[b])
    PROVE  RequestOK(b, Ended(b, res)) /\ Ended(b, res).results = Append(req[b].results, res)
<1> DEFINE q == req[b]
           i == Index(q)
           names == res = "ok" /\ q.cur.op.method = "POST" /\ q.cur.op.bulkId # None
           ids == IF names THEN [q.ids EXCEPT ![q.cur.op.bulkId] = <<b, i>>] ELSE q.ids
           e == [q EXCEPT !.results = Append(q.results, res), !.cur = Rest, !.ids = ids]
<1>1. Ended(b, res) = e
  BY DEF Ended
<1>2. q \in Request /\ RequestOK(b, q)
  BY DEF BulkInv, RequestOK
<1>3. i \in 1 .. Length /\ i <= Len(q.ops) /\ i = Len(q.results) + 1
  BY <1>2, PlanAssumption DEF Over, Index, RequestOK, Request
<1>4. ASSUME names PROVE /\ q.cur.op.bulkId \in BulkId /\ Going(q, q.cur)
                        /\ q.cur.op.method = q.ops[i].method /\ q.cur.op.bulkId = q.ops[i].bulkId
  <2>1. Going(q, q.cur)
    BY <1>2, <1>4 DEF RequestOK
  <2>2. q.ops[i] \in Operation(Named)
    BY <1>2, <1>3 DEF Request
  <2>3. q.cur.op = WithReferences(q, q.ops[i]) /\ q.cur.op \in Operation(Ref)
    BY <2>1 DEF Going
  <2>4. q.ids \in [BulkId -> Id \cup {None}]
    BY <1>2 DEF Request
  <2>5. q.cur.op.method = q.ops[i].method /\ q.cur.op.bulkId = q.ops[i].bulkId
    BY <2>2, <2>3, <2>4, WithReferencesIs
  <2>6. q.cur.op.bulkId \in BulkId
    BY <1>4, <2>3 DEF Operation
  <2>7. QED
    BY <2>1, <2>5, <2>6
<1>5. ids \in [BulkId -> Id \cup {None}]
  <2>1. q.ids \in [BulkId -> Id \cup {None}] /\ <<b, i>> \in Id
    BY <1>2, <1>3, OwnIds DEF Request
  <2>2. QED
    BY <1>4, <2>1
<1> HIDE DEF ids, i
<1>6. /\ e \in Request /\ e.ops = q.ops /\ e.limit = q.limit /\ e.ids = ids /\ e.cur = Rest
      /\ e.results = Append(q.results, res)
  <2>1. Append(q.results, res) \in Seq(Result)
    BY <1>2 DEF Request
  <2>2. QED
    BY <1>2, <1>5, <2>1, RestIsCurrent DEF Request
<1> HIDE DEF e
<1>7. Index(e) = i + 1 /\ Len(e.results) <= Len(e.ops) /\ ~Working(e)
  BY <1>2, <1>3, <1>6 DEF Index, Request, Working, Rest
<1>8. IdsTell(b, e)
  <2> SUFFICES ASSUME NEW x \in BulkId
               PROVE  e.ids[x] = IF PostsIn(e, i + 1, x) = {} THEN None ELSE <<b, Max(PostsIn(e, i + 1, x))>>
    BY <1>7 DEF IdsTell
  <2>1. q.ids[x] = IF PostsIn(q, i, x) = {} THEN None ELSE <<b, Max(PostsIn(q, i, x))>>
    BY <1>2 DEF RequestOK, IdsTell, i
  <2>2. /\ \A j \in 1 .. (i - 1) : e.results[j] = q.results[j]
        /\ e.results[i] = res
    BY <1>2, <1>3, <1>6 DEF Request
  <2>3. CASE names /\ q.cur.op.bulkId = x
    <3>1. i \in PostsIn(e, i + 1, x)
      BY <1>3, <1>4, <1>6, <2>2, <2>3 DEF PostsIn
    <3>2. \A j \in PostsIn(e, i + 1, x) : i >= j /\ j \in Int
      BY <1>3 DEF PostsIn
    <3>3. Max(PostsIn(e, i + 1, x)) = i
      BY <1>3, <3>1, <3>2 DEF Max
    <3>4. e.ids[x] = <<b, i>>
      BY <1>2, <1>6, <2>3 DEF ids, Request
    <3>5. QED
      BY <3>1, <3>3, <3>4
  <2>4. CASE ~(names /\ q.cur.op.bulkId = x)
    <3>1. e.ids[x] = q.ids[x]
      BY <1>2, <1>4, <1>6, <2>4 DEF ids, Request
    <3>2. PostsIn(e, i + 1, x) = PostsIn(q, i, x)
      <4>1. i \notin PostsIn(e, i + 1, x)
        <5> SUFFICES ASSUME res = "ok", q.ops[i].method = "POST", q.ops[i].bulkId = x
                     PROVE  FALSE
          BY <1>6, <2>2 DEF PostsIn
        <5>1. Going(q, q.cur)
          BY <1>2 DEF RequestOK
        <5>2. q.ops[i] \in Operation(Named) /\ q.ids \in [BulkId -> Id \cup {None}]
          BY <1>2, <1>3 DEF Request
        <5>3. q.cur.op.method = "POST" /\ q.cur.op.bulkId = x
          <6>1. q.cur.op = WithReferences(q, q.ops[i])
            BY <5>1 DEF Going, i
          <6>2. QED
            BY <5>2, <6>1, WithReferencesIs
        <5>4. QED
          BY <2>4, <5>3, NoneIsNothing
      <4>2. QED
        BY <1>3, <1>6, <2>2, <4>1 DEF PostsIn
    <3>3. QED
      BY <2>1, <3>1, <3>2
  <2>5. QED
    BY <2>3, <2>4
<1>9. Within(e)
  <2>1. /\ Errors(q) \in Nat
        /\ Errors(e) = IF res = "error" THEN Errors(q) + 1 ELSE Errors(q)
    <3>1. Errors(q) = Cardinality(ErrorsIn(q.results)) /\ Errors(e) = Cardinality(ErrorsIn(Append(q.results, res)))
      BY <1>6 DEF Errors, ErrorsIn
    <3>2. QED
      BY <1>2, <3>1, ErrorsOfOneMore DEF Request
  <2>2. q.limit > 0 => Errors(q) < q.limit
    BY <1>2, <2>1 DEF RequestOK, Within, Over, Stopped, Request
  <2>3. e.results[Len(e.results)] = res
    BY <1>2, <1>6 DEF Request
  <2>4. q.limit \in Nat
    BY <1>2 DEF Request
  <2>5. QED
    BY <1>6, <1>7, <2>1, <2>2, <2>3, <2>4 DEF Within, Result
<1>10. RequestOK(b, e)
  BY <1>2, <1>6, <1>7, <1>8, <1>9 DEF RequestOK
<1>11. QED
  BY <1>1, <1>6, <1>10

-----------------------------------------------------------------------------
(* The next query of an operation                                           *)

Onward(c) == [c EXCEPT !.left = Tail(c.left)]
Later(b, c) == IF Len(c.left) = 1 THEN Ended(b, "ok") ELSE [req[b] EXCEPT !.cur = Onward(c)]

Inserted(q) == q.cur.op # None /\ Head(q.cur.left) \notin {"conflict", "insert"}
Creates(q) == Index(q) <= Len(q.ops) /\ q.ops[Index(q)].method = "POST"
Mine(b) == <<b, Index(req[b])>>

\* A turn of b: it ends its operation or goes on with it, and what becomes of
\* the resource of a POST is what its result says.
Turn(b) ==
    LET q == req[b]
        e == req'[b]
        ends(res) == e.results = Append(q.results, res) /\ e.cur.op = None IN
    /\ req' = [req EXCEPT ![b] = e]
    /\ RequestOK(b, e) /\ e.ops = q.ops
    /\ \/ ends("ok") /\ (Creates(q) => rows'[Mine(b)] # None \/ Mine(b) \in gone')
       \/ ends("error") /\ (Creates(q) => (rows'[Mine(b)] # None => Mine(b) \in half'))
       \/ /\ e.results = q.results
          /\ Creates(q) /\ Inserted(e) => rows'[Mine(b)] # None \/ Mine(b) \in gone'
          /\ Creates(q) /\ ~Inserted(e) => rows'[Mine(b)] = None

\* What a turn of b does to the table: rows go only by being deleted, and only
\* its own is made.
Table(b) ==
    /\ rows' \in [Id -> Row \cup {None}]
    /\ gone \subseteq gone' /\ half \subseteq half'
    /\ \A i \in Id : rows[i] # None => rows'[i] # None \/ i \in gone'
    /\ \A i \in Id : rows[i] = None /\ rows'[i] # None => i = Mine(b)

\* What is known of a request at a query.
LEMMA WorkingIs ==
    ASSUME BulkInv, NEW b \in Bulk, Working(req[b])
    PROVE  LET q == req[b]
               c == q.cur IN
           /\ q \in Request /\ RequestOK(b, q) /\ ~Over(q)
           /\ Index(q) \in 1 .. Len(q.ops) /\ Index(q) \in 1 .. Length
           /\ Going(q, c) /\ c \in Current
           /\ c.left \in Stages(c.op) /\ c.left # <<>>
           /\ q.ops[Index(q)] \in Operation(Named)
           /\ c.op \in Operation(Ref)
           /\ c.op.method = q.ops[Index(q)].method
           /\ Creates(q) <=> c.op.method = "POST"
           /\ About(b) \in Id
           /\ c.op.method = "POST" => About(b) = Mine(b)
           /\ Mine(b) \in Id
<1> DEFINE q == req[b]
           c == q.cur
<1>1. q \in Request /\ RequestOK(b, q) /\ Going(q, c) /\ Index(q) <= Len(q.ops)
  BY DEF BulkInv, RequestOK
<1>2. Index(q) \in 1 .. Len(q.ops) /\ Index(q) \in 1 .. Length
  BY <1>1, PlanAssumption DEF RequestOK, Request, Index
<1>3. ~Over(q)
  BY DEF Over
<1>4. c \in Current /\ c.op \in Operation(Ref) /\ c.left \in Stages(c.op) /\ c.op = WithReferences(q, q.ops[Index(q)])
  BY <1>1 DEF Going
<1>6. c.left # <<>>
  BY <1>1 DEF Stages, Going, Operation, Kind
<1>7. q.ops[Index(q)] \in Operation(Named) /\ q.ids \in [BulkId -> Id \cup {None}]
  BY <1>1, <1>2 DEF Request
<1>8. c.op.method = q.ops[Index(q)].method
  BY <1>4, <1>7, WithReferencesIs
<1>9. Creates(q) <=> c.op.method = "POST"
  BY <1>1, <1>8 DEF Creates
<1>10. Mine(b) \in Id
  BY <1>2, OwnIds DEF Mine
<1>11. About(b) \in Id /\ (c.op.method = "POST" => About(b) = Mine(b))
  BY <1>1, <1>10 DEF About, Mine, Going
<1>12. QED
  BY <1>1, <1>2, <1>3, <1>4, <1>6, <1>7, <1>8, <1>9, <1>10, <1>11

\* A request that goes on with its operation stays in order.
LEMMA ContinuesOK ==
    ASSUME BulkInv, NEW b \in Bulk, Index(req[b]) <= Len(req[b].ops), ~Over(req[b]),
           NEW c \in Current, Going(req[b], c)
    PROVE  LET e == [req[b] EXCEPT !.cur = c] IN
           /\ RequestOK(b, e) /\ e.ops = req[b].ops /\ e.results = req[b].results /\ e.cur = c
<1> DEFINE q == req[b]
           e == [q EXCEPT !.cur = c]
<1>1. q \in Request /\ RequestOK(b, q)
  BY DEF BulkInv, RequestOK
<1>2. /\ e \in Request /\ e.ops = q.ops /\ e.limit = q.limit /\ e.results = q.results /\ e.ids = q.ids
      /\ e.cur = c
  BY <1>1 DEF Request
<1> HIDE DEF e
<1>3. Index(e) = Index(q)
  BY <1>2 DEF Index
<1>4. IdsTell(b, e)
  <2>1. \A i, x : PostsIn(e, i, x) = PostsIn(q, i, x)
    BY <1>2 DEF PostsIn
  <2>2. QED
    BY <1>1, <1>2, <1>3, <2>1 DEF RequestOK, IdsTell
<1>5. Within(e)
  <2>1. Errors(e) = Errors(q) /\ Errors(q) \in Nat
    <3>1. Errors(e) = Errors(q)
      BY <1>2 DEF Errors
    <3>2. Errors(q) = Cardinality(ErrorsIn(q.results))
      BY DEF Errors, ErrorsIn
    <3>3. QED
      BY <1>1, <3>1, <3>2, ErrorsOfOneMore DEF Request, Result
  <2>2. q.limit > 0 => Errors(q) < q.limit
    BY <1>1, <2>1 DEF RequestOK, Within, Over, Stopped, Request
  <2>3. q.limit \in Nat
    BY <1>1 DEF Request
  <2>4. QED
    BY <1>2, <2>1, <2>2, <2>3 DEF Within
<1>6. Going(e, e.cur)
  <2>1. WithReferences(e, q.ops[Index(q)]) = WithReferences(q, q.ops[Index(q)])
    BY <1>2 DEF WithReferences, Resolved
  <2>2. QED
    BY <1>2, <1>3, <2>1 DEF Going
<1>7. RequestOK(b, e)
  <2>1. Working(e)
    BY <1>2, NoneIsNothing DEF Working, Going
  <2>2. QED
    BY <1>1, <1>2, <1>3, <1>4, <1>5, <1>6, <2>1 DEF RequestOK
<1>8. QED
  BY <1>2, <1>7 DEF e

\* The resource of a POST, while it is being made.
LEMMA MineNow ==
    ASSUME BulkInv, NEW b \in Bulk, Creates(req[b])
    PROVE  /\ Mine(b) \in Id
           /\ Inserted(req[b]) => rows[Mine(b)] # None \/ Mine(b) \in gone
           /\ ~Inserted(req[b]) => rows[Mine(b)] = None
<1> DEFINE q == req[b]
           i == Index(q)
<1>1. q \in Request /\ RequestOK(b, q)
  BY DEF BulkInv, RequestOK
<1>2. i \in 1 .. Len(q.ops) /\ i \in 1 .. Length /\ q.ops[i].method = "POST"
  BY <1>1, PlanAssumption DEF RequestOK, Request, Index, Creates
<1>3. i \in DOMAIN q.ops
  BY <1>1, <1>2 DEF Request
<1>4. Made(b, i)
  BY <1>2, <1>3 DEF BulkInv
<1>5. Mine(b) \in Id
  BY <1>2, OwnIds DEF Mine
<1>6. ~(i < i) /\ ~(i > i) /\ i = i
  BY <1>2
<1>7. QED
  BY <1>4, <1>5, <1>6 DEF Made, Mine, Inserted

\* An operation whose query was answered.
LEMMA GoOnTurn ==
    ASSUME BulkInv, NEW b \in Bulk, Working(req[b]), NEW c \in Current, GoOn(b, c),
           Len(c.left) # 1 => Going(req[b], Onward(c)),
           Creates(req[b]) =>
              IF Len(c.left) # 1 /\ Head(Tail(c.left)) \in {"conflict", "insert"}
              THEN rows'[Mine(b)] = None
              ELSE rows'[Mine(b)] # None \/ Mine(b) \in gone'
    PROVE  Turn(b)
<1> DEFINE q == req[b]
           e == Later(b, c)
<1>1. /\ q \in Request /\ ~Over(q) /\ Index(q) <= Len(q.ops) /\ q.cur.op.method = q.ops[Index(q)].method
  BY WorkingIs
<1>2. req' = [req EXCEPT ![b] = e]
  BY DEF GoOn, Later, Onward
<1>3. req'[b] = e
  BY <1>2 DEF BulkInv, TypeOK
<1>4. CASE Len(c.left) = 1
  <2>1. e = Ended(b, "ok")
    BY <1>4 DEF Later
  <2>2. RequestOK(b, e) /\ e.results = Append(q.results, "ok")
    BY <1>1, <2>1, EndedOK DEF Result
  <2>3. e.ops = q.ops /\ e.cur.op = None
    BY <1>1, <2>1 DEF Ended, Rest, Request
  <2>4. QED
    BY <1>2, <1>3, <1>4, <2>2, <2>3 DEF Turn
<1>5. CASE Len(c.left) # 1
  <2>1. e = [q EXCEPT !.cur = Onward(c)]
    BY <1>5 DEF Later
  <2>2. Going(q, Onward(c)) /\ Onward(c) \in Current
    BY <1>5 DEF Going
  <2>3. RequestOK(b, e) /\ e.ops = q.ops /\ e.results = q.results /\ e.cur = Onward(c)
    BY <1>1, <2>1, <2>2, ContinuesOK
  <2>4. Inserted(e) <=> Head(Tail(c.left)) \notin {"conflict", "insert"}
    <3>1. e.cur.op # None
      BY <2>2, <2>3, NoneIsNothing DEF Going
    <3>2. e.cur.left = Tail(c.left)
      BY <2>3 DEF Onward, Current
    <3>3. QED
      BY <3>1, <3>2 DEF Inserted
  <2>5. QED
    BY <1>2, <1>3, <1>5, <2>3, <2>4 DEF Turn
<1>6. QED
  BY <1>4, <1>5

\* An operation that fails at one of its queries.
LEMMA FailTurn ==
    ASSUME BulkInv, NEW b \in Bulk, Working(req[b]), Fail(b)
    PROVE  Turn(b) /\ half \subseteq half'
<1> DEFINE q == req[b]
           e == Ended(b, "error")
<1>1. /\ q \in Request /\ ~Over(q) /\ (Creates(q) <=> q.cur.op.method = "POST")
      /\ (q.cur.op.method = "POST" => About(b) = Mine(b))
  BY WorkingIs
<1>2. req' = [req EXCEPT ![b] = e] /\ req'[b] = e
  BY DEF Fail, BulkInv, TypeOK
<1>3. RequestOK(b, e) /\ e.results = Append(q.results, "error")
  BY <1>1, EndedOK DEF Result
<1>4. e.ops = q.ops /\ e.cur.op = None
  BY <1>1 DEF Ended, Rest, Request
<1>5. Creates(q) => (rows'[Mine(b)] # None => Mine(b) \in half')
  BY <1>1 DEF Fail
<1>6. half \subseteq half'
  BY DEF Fail
<1>7. QED
  BY <1>2, <1>3, <1>4, <1>5, <1>6 DEF Turn

\* A step that leaves the rows alone.
LEMMA SameTable ==
    ASSUME BulkInv, NEW b \in Bulk, rows' = rows, gone' = gone, half \subseteq half'
    PROVE  Table(b)
BY DEF Table, BulkInv, TypeOK

\* A query that reads goes on only if it may, and does not change whether the
\* resource has been inserted.
LEMMA ReadsTurn ==
    ASSUME BulkInv, NEW b \in Bulk, Working(req[b]), NEW may, NEW c \in Current, Reads(b, may, c),
           may /\ Len(c.left) # 1 => Going(req[b], Onward(c)),
           Creates(req[b]) =>
              (Inserted(req[b]) <=> ~(Len(c.left) # 1 /\ Head(Tail(c.left)) \in {"conflict", "insert"}))
    PROVE  Turn(b) /\ Table(b)
<1>1. rows' = rows /\ gone' = gone
  BY DEF Reads
<1>2. CASE may /\ GoOn(b, c) /\ UNCHANGED half
  <2>1. Creates(req[b]) =>
           IF Len(c.left) # 1 /\ Head(Tail(c.left)) \in {"conflict", "insert"}
           THEN rows'[Mine(b)] = None
           ELSE rows'[Mine(b)] # None \/ Mine(b) \in gone'
    BY <1>1, MineNow
  <2>2. Len(c.left) # 1 => Going(req[b], Onward(c))
    BY <1>2
  <2>3. Turn(b)
    BY <1>2, <2>1, <2>2, GoOnTurn
  <2>4. Table(b)
    BY <1>1, <1>2, SameTable
  <2>5. QED
    BY <2>3, <2>4
<1>3. CASE Fail(b)
  <2>1. Turn(b) /\ half \subseteq half'
    BY <1>3, FailTurn
  <2>2. Table(b)
    BY <1>1, <2>1, SameTable
  <2>3. QED
    BY <2>1, <2>2
<1>4. QED
  BY <1>2, <1>3 DEF Reads

\* A query that writes: its rows are the table's, and it goes on, only when they
\* are accepted.
LEMMA WritesTurn ==
    ASSUME BulkInv, NEW b \in Bulk, Working(req[b]), NEW accepted, NEW newRows,
           Writes(b, accepted, newRows), gone \subseteq gone',
           rows' = newRows /\ accepted =>
              /\ newRows \in [Id -> Row \cup {None}]
              /\ \A i \in Id : rows[i] # None => newRows[i] # None \/ i \in gone'
              /\ \A i \in Id : rows[i] = None /\ newRows[i] # None => i = Mine(b)
              /\ Creates(req[b]) => newRows[Mine(b)] # None \/ Mine(b) \in gone',
           Len(req[b].cur.left) # 1 => Going(req[b], Onward(req[b].cur)),
           Creates(req[b]) =>
              ~(Len(req[b].cur.left) # 1 /\ Head(Tail(req[b].cur.left)) \in {"conflict", "insert"})
    PROVE  Turn(b) /\ Table(b)
<1>1. rows' = rows \/ (rows' = newRows /\ accepted)
  BY DEF Writes
<1>2. \/ accepted /\ rows' = newRows /\ GoOn(b, req[b].cur) /\ UNCHANGED half
      \/ Fail(b)
  BY DEF Writes, Outcome
<1>3. half \subseteq half'
  BY <1>2, FailTurn
<1>4. Table(b)
  <2>1. CASE rows' = rows
    BY <1>3, <2>1 DEF Table, BulkInv, TypeOK
  <2>2. CASE rows' = newRows /\ accepted
    BY <1>3, <2>2 DEF Table
  <2>3. QED
    BY <1>1, <2>1, <2>2
<1>5. Turn(b)
  <2>1. CASE accepted /\ rows' = newRows /\ GoOn(b, req[b].cur)
    <3>1. req[b].cur \in Current
      BY WorkingIs
    <3>2. QED
      BY <2>1, <3>1, GoOnTurn
  <2>2. CASE Fail(b)
    BY <2>2, FailTurn
  <2>3. QED
    BY <1>2, <2>1, <2>2
<1>6. QED
  BY <1>4, <1>5

-----------------------------------------------------------------------------
(* The queries                                                              *)

\* The queries behind the one an operation is at.
LEMMA Queue ==
    ASSUME BulkInv, NEW b \in Bulk, Working(req[b])
    PROVE  LET c == req[b].cur
               group == c.op.type = "group" IN
           /\ At(b, "find") =>
                 /\ c.op.method # "POST"
                 /\ c.op.method # "DELETE" /\ group =>
                       c.left = <<"find", "listed", "conflict", "resolve", "update", "reply">>
                 /\ c.op.method # "DELETE" /\ ~group => c.left = <<"find", "conflict", "update">>
                 /\ c.op.method = "DELETE" => c.left = <<"find", "delete">>
           /\ At(b, "listed") =>
                 /\ c.op.method \in {"PUT", "PATCH"} /\ group
                 /\ c.left = <<"listed", "conflict", "resolve", "update", "reply">>
           /\ At(b, "conflict") =>
                 /\ c.op.method # "DELETE"
                 /\ c.op.method = "POST" /\ group =>
                       c.left = <<"conflict", "insert", "resolve", "members", "reply">>
                 /\ c.op.method = "POST" /\ ~group => c.left = <<"conflict", "insert">>
                 /\ c.op.method # "POST" /\ group => c.left = <<"conflict", "resolve", "update", "reply">>
                 /\ c.op.method # "POST" /\ ~group => c.left = <<"conflict", "update">>
           /\ At(b, "resolve") =>
                 /\ c.op.method # "DELETE" /\ group
                 /\ c.op.method = "POST" => c.left = <<"resolve", "members", "reply">>
                 /\ c.op.method # "POST" => c.left = <<"resolve", "update", "reply">>
           /\ At(b, "reply") => c.left = <<"reply">>
           /\ At(b, "insert") =>
                 /\ c.op.method = "POST"
                 /\ group => c.left \in {<<"insert", "resolve", "members", "reply">>, <<"insert", "reply">>}
                 /\ ~group => c.left = <<"insert">>
           /\ At(b, "members") => c.op.method = "POST" /\ group /\ c.left = <<"members", "reply">>
           /\ At(b, "update") =>
                 /\ c.op.method \in {"PUT", "PATCH"}
                 /\ group => c.left = <<"update", "reply">>
                 /\ ~group => c.left = <<"update">>
           /\ At(b, "delete") => c.op.method = "DELETE" /\ c.left = <<"delete">>
           /\ Inserted(req[b]) <=> ~At(b, "conflict") /\ ~At(b, "insert")
<1> DEFINE c == req[b].cur
<1>1. c.left \in Stages(c.op) /\ c.op \in Operation(Ref) /\ c.op.type \in Kind
  BY WorkingIs DEF Going
<1>2. c.op.method \in {"POST", "PUT", "PATCH", "DELETE"} /\ c.op.type \in {"user", "group"}
  BY <1>1 DEF Operation, Kind
<1>3. \A query : At(b, query) <=> Head(c.left) = query
  BY DEF At
<1>4. Inserted(req[b]) <=> ~At(b, "conflict") /\ ~At(b, "insert")
  BY <1>3 DEF Inserted, Working
<1> HIDE DEF c
<1>5. CASE c.op.method = "POST" /\ c.op.type = "user"
  <2>1. c.left \in {<<"conflict", "insert">>, <<"insert">>}
    BY <1>1, <1>5 DEF Stages
  <2>2. QED
    BY <1>3, <1>4, <1>5, <2>1 DEF c
<1>6. CASE c.op.method = "POST" /\ c.op.type = "group"
  <2>1. c.left \in {<<"conflict", "insert", "resolve", "members", "reply">>,
             <<"insert", "resolve", "members", "reply">>, <<"resolve", "members", "reply">>,
             <<"members", "reply">>, <<"insert", "reply">>, <<"reply">>}
    BY <1>1, <1>6 DEF Stages
  <2>2. QED
    BY <1>3, <1>4, <1>6, <2>1 DEF c
<1>7. CASE c.op.method \in {"PUT", "PATCH"} /\ c.op.type = "user"
  <2>1. c.left \in {<<"find", "conflict", "update">>, <<"conflict", "update">>, <<"update">>}
    BY <1>1, <1>7 DEF Stages
  <2>2. QED
    BY <1>3, <1>4, <1>7, <2>1 DEF c
<1>8. CASE c.op.method \in {"PUT", "PATCH"} /\ c.op.type = "group"
  <2>1. c.left \in {<<"find", "listed", "conflict", "resolve", "update", "reply">>,
             <<"listed", "conflict", "resolve", "update", "reply">>,
             <<"conflict", "resolve", "update", "reply">>, <<"resolve", "update", "reply">>,
             <<"update", "reply">>, <<"reply">>}
    BY <1>1, <1>8 DEF Stages
  <2>2. QED
    BY <1>3, <1>4, <1>8, <2>1 DEF c
<1>9. CASE c.op.method = "DELETE"
  <2>1. c.left \in {<<"find", "delete">>, <<"delete">>}
    BY <1>1, <1>9 DEF Stages
  <2>2. QED
    BY <1>3, <1>4, <1>9, <2>1 DEF c
<1>10. QED
  BY <1>2, <1>5, <1>6, <1>7, <1>8, <1>9

\* The query after the first.
Second(s, t, query) == s # <<>> /\ Len(s) # 1 /\ Tail(s) = t /\ Head(t) = query

\* (The provers find these one by one.)
LEMMA SecondIs ==
    /\ Second(<<"find", "delete">>, <<"delete">>, "delete")
    /\ Second(<<"find", "listed", "conflict", "resolve", "update", "reply">>, <<"listed", "conflict", "resolve", "update", "reply">>, "listed")
    /\ Second(<<"find", "conflict", "update">>, <<"conflict", "update">>, "conflict")
    /\ Second(<<"listed", "conflict", "resolve", "update", "reply">>, <<"conflict", "resolve", "update", "reply">>, "conflict")
    /\ Second(<<"conflict", "insert">>, <<"insert">>, "insert")
    /\ Second(<<"conflict", "insert", "reply">>, <<"insert", "reply">>, "insert")
    /\ Second(<<"conflict", "insert", "resolve", "members", "reply">>, <<"insert", "resolve", "members", "reply">>, "insert")
    /\ Second(<<"conflict", "update">>, <<"update">>, "update")
    /\ Second(<<"conflict", "update", "reply">>, <<"update", "reply">>, "update")
    /\ Second(<<"conflict", "resolve", "update", "reply">>, <<"resolve", "update", "reply">>, "resolve")
    /\ Second(<<"resolve", "members", "reply">>, <<"members", "reply">>, "members")
    /\ Second(<<"resolve", "update", "reply">>, <<"update", "reply">>, "update")
    /\ Second(<<"insert", "resolve", "members", "reply">>, <<"resolve", "members", "reply">>, "resolve")
    /\ Second(<<"insert", "reply">>, <<"reply">>, "reply")
    /\ Second(<<"members", "reply">>, <<"reply">>, "reply")
    /\ Second(<<"update", "reply">>, <<"reply">>, "reply")
BY DEF Second

\* The queries an operation may have before it are known ones.
LEMMA StagesAreQueues ==
    ASSUME NEW o \in Operation(Ref), o.type \in Kind
    PROVE  Stages(o) \subseteq Queues
<1>1. o.method \in {"POST", "PUT", "PATCH", "DELETE"} /\ o.type \in {"user", "group"}
  BY DEF Operation, Kind
<1>2. QED
  BY <1>1 DEF Stages, Queues

\* What may be left, by method and type.
LEMMA StagesAre ==
    ASSUME NEW o
    PROVE  /\ o.method = "POST" /\ o.type = "user" => <<"insert">> \in Stages(o)
           /\ o.method = "POST" /\ o.type = "group" =>
                 /\ <<"insert", "resolve", "members", "reply">> \in Stages(o)
                 /\ <<"resolve", "members", "reply">> \in Stages(o)
                 /\ <<"members", "reply">> \in Stages(o)
                 /\ <<"insert", "reply">> \in Stages(o)
                 /\ <<"reply">> \in Stages(o)
           /\ o.method \in {"PUT", "PATCH"} /\ o.type = "user" =>
                 <<"conflict", "update">> \in Stages(o) /\ <<"update">> \in Stages(o)
           /\ o.method \in {"PUT", "PATCH"} /\ o.type = "group" =>
                 /\ <<"listed", "conflict", "resolve", "update", "reply">> \in Stages(o)
                 /\ <<"conflict", "resolve", "update", "reply">> \in Stages(o)
                 /\ <<"resolve", "update", "reply">> \in Stages(o)
                 /\ <<"update", "reply">> \in Stages(o)
                 /\ <<"reply">> \in Stages(o)
           /\ o.method = "DELETE" => <<"delete">> \in Stages(o)
BY DEF Stages

\* An operation goes on: what remains to be shown is about what it has read.
LEMMA GoingOn ==
    ASSUME BulkInv, NEW b \in Bulk, Working(req[b]), NEW c \in Current, c.op = req[b].cur.op,
           c.left # <<>>, Tail(c.left) \in Stages(c.op),
           Head(Tail(c.left)) = "listed" => c.found \in Row,
           Head(Tail(c.left)) \in {"insert", "resolve", "members", "update"} => c.new \in Draft,
           Head(Tail(c.left)) = "conflict" /\ c.op.method # "POST" /\ c.op.type = "group" => c.new \in Draft,
           AsAsked(c)
    PROVE  Going(req[b], Onward(c))
<1>1. Going(req[b], req[b].cur)
  BY WorkingIs
<1>2. Stages(c.op) \subseteq Queues
  BY <1>1, StagesAreQueues DEF Going
<1>3. Tail(c.left) \in Queues
  BY <1>2
<1>4. /\ Onward(c) \in Current /\ Onward(c).op = c.op /\ Onward(c).left = Tail(c.left)
      /\ Onward(c).found = c.found /\ Onward(c).new = c.new /\ Onward(c).listed = c.listed
  BY <1>3 DEF Onward, Current
<1>5. AsAsked(Onward(c))
  BY <1>4 DEF AsAsked
<1>6. QED
  BY <1>1, <1>4, <1>5 DEF Going

\* The turns, query by query.
LEMMA FindTurn == ASSUME BulkInv, NEW b \in Bulk, Working(req[b]), Find(b) PROVE Turn(b) /\ Table(b)
<1> DEFINE cur == req[b].cur
           row == rows[About(b)]
           twice == cur.op.type = "group" /\ cur.op.method # "DELETE"
           may == row # None /\ row.type = cur.op.type /\ (twice \/ Matches(cur.op, row))
           c == [cur EXCEPT !.found = row]
<1>1. At(b, "find") /\ Reads(b, may, c)
  BY DEF Find
<1>2. /\ cur \in Current /\ About(b) \in Id /\ Going(req[b], cur) /\ cur.op \in Operation(Ref)
      /\ Creates(req[b]) <=> cur.op.method = "POST"
  BY WorkingIs
<1>3. row \in Row \cup {None}
  BY <1>2 DEF BulkInv, TypeOK
<1> HIDE DEF row
<1>4. /\ c \in Current /\ c.op = cur.op /\ c.left = cur.left /\ c.found = row /\ c.new = cur.new
      /\ c.listed = cur.listed
  BY <1>2, <1>3 DEF Current
<1> HIDE DEF c
<1>5. ASSUME may, Len(c.left) # 1 PROVE Going(req[b], Onward(c))
  <2>1. c.found \in Row
    BY <1>3, <1>4, <1>5
  <2>2. AsAsked(c)
    BY <1>2, <1>4 DEF AsAsked, Going
  <2>3. /\ c.left # <<>> /\ Tail(c.left) \in Stages(c.op)
        /\ Head(Tail(c.left)) \notin {"insert", "resolve", "members", "update"}
        /\ ~(Head(Tail(c.left)) = "conflict" /\ c.op.type = "group")
    <3>1. CASE cur.op.method = "DELETE"
      <4>1. c.left = <<"find", "delete">>
        BY <1>1, <1>4, <3>1, Queue
      <4>2. Second(c.left, <<"delete">>, "delete")
        BY <4>1, SecondIs, Zenon
      <4>3. c.left # <<>> /\ Tail(c.left) = <<"delete">> /\ Head(Tail(c.left)) = "delete"
        BY <4>2, Zenon DEF Second
      <4>4. Tail(c.left) \in Stages(c.op)
        <5>1. <<"delete">> \in Stages(cur.op)
          BY <3>1, StagesAre
        <5>2. QED
          BY <1>4, <4>3, <5>1, Zenon
      <4>5. QED
        BY <1>4, <3>1, <4>3, <4>4
    <3>2. CASE cur.op.method \in {"PUT", "PATCH"} /\ cur.op.type = "group"
      <4>1. c.left = <<"find", "listed", "conflict", "resolve", "update", "reply">>
        BY <1>1, <1>4, <3>2, Queue
      <4>2. Second(c.left, <<"listed", "conflict", "resolve", "update", "reply">>, "listed")
        BY <4>1, SecondIs, Zenon
      <4>3. c.left # <<>> /\ Tail(c.left) = <<"listed", "conflict", "resolve", "update", "reply">> /\ Head(Tail(c.left)) = "listed"
        BY <4>2, Zenon DEF Second
      <4>4. Tail(c.left) \in Stages(c.op)
        <5>1. <<"listed", "conflict", "resolve", "update", "reply">> \in Stages(cur.op)
          BY <3>2, StagesAre
        <5>2. QED
          BY <1>4, <4>3, <5>1, Zenon
      <4>5. QED
        BY <1>4, <3>2, <4>3, <4>4
    <3>3. CASE cur.op.method \in {"PUT", "PATCH"} /\ cur.op.type = "user"
      <4>1. c.left = <<"find", "conflict", "update">>
        BY <1>1, <1>4, <3>3, Queue
      <4>2. Second(c.left, <<"conflict", "update">>, "conflict")
        BY <4>1, SecondIs, Zenon
      <4>3. c.left # <<>> /\ Tail(c.left) = <<"conflict", "update">> /\ Head(Tail(c.left)) = "conflict"
        BY <4>2, Zenon DEF Second
      <4>4. Tail(c.left) \in Stages(c.op)
        <5>1. <<"conflict", "update">> \in Stages(cur.op)
          BY <3>3, StagesAre
        <5>2. QED
          BY <1>4, <4>3, <5>1, Zenon
      <4>5. QED
        BY <1>4, <3>3, <4>3, <4>4
    <3>4. cur.op.method # "POST"
      BY <1>1, Queue
    <3>5. QED
      BY <1>2, <3>1, <3>2, <3>3, <3>4 DEF Operation, Going, Kind
  <2>4. QED
    BY <1>4, <2>1, <2>2, <2>3, GoingOn
<1>6. ~Creates(req[b])
  BY <1>1, <1>2, Queue
<1> HIDE DEF may
<1>7. QED
  BY <1>1, <1>4, <1>5, <1>6, ReadsTurn

\* What a body says is a draft.
LEMMA BodyIs ==
    ASSUME NEW o \in Operation(Ref)
    PROVE  Body(o) \in Draft
BY DEF Body, Draft, Operation

LEMMA ListedTurn == ASSUME BulkInv, NEW b \in Bulk, Working(req[b]), Listed(b) PROVE Turn(b) /\ Table(b)
<1> DEFINE cur == req[b].cur
           listed == IF rows[About(b)] = None THEN {} ELSE rows[About(b)].members
           new == IF cur.op.method = "PUT" THEN Body(cur.op)
                  ELSE Patched(cur.op.patch, cur.found.name, listed, config)
           may == Matches(cur.op, cur.found) /\ new.ok
           c == [cur EXCEPT !.listed = listed, !.new = new]
<1>1. At(b, "listed") /\ Reads(b, may, c)
  BY DEF Listed
<1>2. /\ cur \in Current /\ About(b) \in Id /\ Going(req[b], cur) /\ cur.op \in Operation(Ref)
      /\ Creates(req[b]) <=> cur.op.method = "POST"
  BY WorkingIs
<1>3. listed \in SUBSET Ref
  BY <1>2 DEF BulkInv, TypeOK, Row
<1>4. /\ cur.op.method \in {"PUT", "PATCH"} /\ cur.op.type = "group"
      /\ cur.left = <<"listed", "conflict", "resolve", "update", "reply">>
  BY <1>1, Queue
<1>5. cur.found \in Row
  BY <1>1, <1>2 DEF Going, At
<1>6. cur.found.name \in Name /\ cur.op.patch \in Seq(PatchOperation(Ref))
  BY <1>2, <1>5 DEF Row, Operation
<1> HIDE DEF listed
<1>7. /\ new \in Draft
      /\ cur.op.method = "PATCH" /\ new.ok =>
            \A m \in Ref : m \in new.members <=> Asked(cur.op.patch, Len(cur.op.patch), listed, m)
  <2>1. CASE cur.op.method = "PUT"
    BY <1>2, <2>1, BodyIs
  <2>2. CASE cur.op.method = "PATCH"
    <3>1. new = Patched(cur.op.patch, cur.found.name, listed, config)
      BY <2>2
    <3> HIDE DEF new
    <3>2. QED
      BY <1>3, <1>6, <3>1, PatchedAsAsked
  <2>3. QED
    BY <1>4, <2>1, <2>2
<1> HIDE DEF new
<1>8. c \in Current /\ c.op = cur.op /\ c.left = cur.left /\ c.new = new /\ c.listed = listed
  BY <1>2, <1>3, <1>7 DEF Current
<1> HIDE DEF c
<1>9. ASSUME may, Len(c.left) # 1 PROVE Going(req[b], Onward(c))
  <2>1. AsAsked(c)
    BY <1>7, <1>8, <1>9 DEF AsAsked
  <2>2. Tail(c.left) = <<"conflict", "resolve", "update", "reply">> /\ c.left # <<>>
    BY <1>4, <1>8
  <2>3. Tail(c.left) \in Stages(c.op) /\ Head(Tail(c.left)) = "conflict"
    BY <1>4, <1>8, <2>2, StagesAre
  <2>4. QED
    BY <1>7, <1>8, <2>1, <2>2, <2>3, GoingOn
<1>10. ~Creates(req[b])
  BY <1>2, <1>4
<1> HIDE DEF may
<1>11. QED
  BY <1>1, <1>8, <1>9, <1>10, ReadsTurn

LEMMA ConflictTurn == ASSUME BulkInv, NEW b \in Bulk, Working(req[b]), Conflict(b) PROVE Turn(b) /\ Table(b)
<1> DEFINE cur == req[b].cur
           new == IF cur.new = None THEN Body(cur.op) ELSE cur.new
           write == IF cur.op.method = "POST" THEN "insert" ELSE "update"
           left == IF cur.op.type = "group" /\ new.members = {} THEN <<"conflict", write, "reply">>
                   ELSE cur.left
           may == ~NameTaken(cur.op.type, new.name, About(b))
           c == [cur EXCEPT !.new = new, !.left = left]
<1>1. At(b, "conflict") /\ Reads(b, may, c)
  BY DEF Conflict
<1>2. /\ cur \in Current /\ Going(req[b], cur) /\ cur.op \in Operation(Ref)
      /\ cur.op.method \in {"POST", "PUT", "PATCH", "DELETE"} /\ cur.op.type \in {"user", "group"}
      /\ Creates(req[b]) <=> cur.op.method = "POST"
  BY WorkingIs DEF Going, Operation, Kind
<1>3. new \in Draft
  BY <1>2, BodyIs DEF Current
<1>4. cur.op.method = "PATCH" /\ cur.op.type = "group" => new = cur.new
  <2>1. cur.op.method = "PATCH" /\ cur.op.type = "group" => cur.new \in Draft
    BY <1>1, <1>2 DEF Going, At
  <2>2. QED
    BY <2>1, NoneIsNothing
<1> HIDE DEF new
<1>5. \E query \in {"insert", "resolve", "update"} : \E t \in Stages(cur.op) :
         /\ Second(left, t, query) /\ left \in Queues
         /\ cur.op.method = "POST" => query = "insert"
  <2>1. CASE cur.op.method = "POST" /\ cur.op.type = "user"
    <3>1. left = <<"conflict", "insert">>
      BY <1>1, <2>1, Queue
    <3> HIDE DEF left
    <3>2. <<"insert">> \in Stages(cur.op)
      BY <2>1, StagesAre
    <3>3. Second(left, <<"insert">>, "insert")
      BY <3>1, SecondIs, Zenon
    <3>4. left \in Queues
      BY <3>1, Zenon DEF Queues
    <3>5. QED
      BY <2>1, <3>2, <3>3, <3>4
  <2>2. CASE cur.op.method = "POST" /\ cur.op.type = "group"
    <3>1. left \in {<<"conflict", "insert", "reply">>, <<"conflict", "insert", "resolve", "members", "reply">>}
      BY <1>1, <2>2, Queue
    <3> HIDE DEF left
    <3>2. CASE left = <<"conflict", "insert", "reply">>
      <4>1. <<"insert", "reply">> \in Stages(cur.op)
        BY <2>2, StagesAre
      <4>2. Second(left, <<"insert", "reply">>, "insert")
        BY <3>2, SecondIs, Zenon
      <4>3. left \in Queues
        BY <3>2, Zenon DEF Queues
      <4>4. QED
        BY <2>2, <4>1, <4>2, <4>3
    <3>3. CASE left = <<"conflict", "insert", "resolve", "members", "reply">>
      <4>1. <<"insert", "resolve", "members", "reply">> \in Stages(cur.op)
        BY <2>2, StagesAre
      <4>2. Second(left, <<"insert", "resolve", "members", "reply">>, "insert")
        BY <3>3, SecondIs, Zenon
      <4>3. left \in Queues
        BY <3>3, Zenon DEF Queues
      <4>4. QED
        BY <2>2, <4>1, <4>2, <4>3
    <3>4. QED
      BY <3>1, <3>2, <3>3
  <2>3. CASE cur.op.method \in {"PUT", "PATCH"} /\ cur.op.type = "user"
    <3>1. left = <<"conflict", "update">>
      BY <1>1, <2>3, Queue
    <3> HIDE DEF left
    <3>2. <<"update">> \in Stages(cur.op)
      BY <2>3, StagesAre
    <3>3. Second(left, <<"update">>, "update")
      BY <3>1, SecondIs, Zenon
    <3>4. left \in Queues
      BY <3>1, Zenon DEF Queues
    <3>5. QED
      BY <2>3, <3>2, <3>3, <3>4
  <2>4. CASE cur.op.method \in {"PUT", "PATCH"} /\ cur.op.type = "group"
    <3>1. left \in {<<"conflict", "update", "reply">>, <<"conflict", "resolve", "update", "reply">>}
      BY <1>1, <2>4, Queue
    <3> HIDE DEF left
    <3>2. CASE left = <<"conflict", "update", "reply">>
      <4>1. <<"update", "reply">> \in Stages(cur.op)
        BY <2>4, StagesAre
      <4>2. Second(left, <<"update", "reply">>, "update")
        BY <3>2, SecondIs, Zenon
      <4>3. left \in Queues
        BY <3>2, Zenon DEF Queues
      <4>4. QED
        BY <2>4, <4>1, <4>2, <4>3
    <3>3. CASE left = <<"conflict", "resolve", "update", "reply">>
      <4>1. <<"resolve", "update", "reply">> \in Stages(cur.op)
        BY <2>4, StagesAre
      <4>2. Second(left, <<"resolve", "update", "reply">>, "resolve")
        BY <3>3, SecondIs, Zenon
      <4>3. left \in Queues
        BY <3>3, Zenon DEF Queues
      <4>4. QED
        BY <2>4, <4>1, <4>2, <4>3
    <3>4. QED
      BY <3>1, <3>2, <3>3
  <2>5. cur.op.method # "DELETE"
    BY <1>1, Queue
  <2>6. QED
    BY <1>2, <2>1, <2>2, <2>3, <2>4, <2>5
<1> HIDE DEF left
<1>6. /\ left \in Queues /\ left # <<>> /\ Len(left) # 1 /\ Tail(left) \in Stages(cur.op)
      /\ Head(Tail(left)) \in {"insert", "resolve", "update"}
      /\ cur.op.method = "POST" => Head(Tail(left)) = "insert"
  BY <1>5, Zenon DEF Second
<1>7. c \in Current /\ c.op = cur.op /\ c.left = left /\ c.new = new /\ c.listed = cur.listed
  BY <1>2, <1>3, <1>6 DEF Current
<1> HIDE DEF c
<1>8. Going(req[b], Onward(c))
  <2>1. AsAsked(c)
    BY <1>2, <1>4, <1>7 DEF AsAsked, Going
  <2>2. QED
    BY <1>3, <1>6, <1>7, <2>1, GoingOn
<1>9. ~Inserted(req[b])
  BY <1>1, Queue
<1> HIDE DEF may
<1>10. QED
  BY <1>1, <1>2, <1>6, <1>7, <1>8, <1>9, ReadsTurn

LEMMA ResolveTurn == ASSUME BulkInv, NEW b \in Bulk, Working(req[b]), Resolve(b) PROVE Turn(b) /\ Table(b)
<1> DEFINE cur == req[b].cur
           c == [cur EXCEPT !.linked = cur.new.members \cap Users]
<1>1. At(b, "resolve") /\ Reads(b, TRUE, c)
  BY DEF Resolve
<1>2. cur \in Current /\ Going(req[b], cur) /\ cur.op \in Operation(Ref)
  BY WorkingIs
<1>3. cur.new \in Draft
  BY <1>1, <1>2 DEF Going, At
<1>4. /\ c \in Current /\ c.op = cur.op /\ c.left = cur.left /\ c.new = cur.new /\ c.listed = cur.listed
  <2>1. cur.new.members \cap Users \in SUBSET Id
    BY DEF Users
  <2>2. QED
    BY <1>2, <2>1 DEF Current
<1> HIDE DEF c
<1>5. AsAsked(c)
  BY <1>2, <1>4 DEF AsAsked, Going
<1>6. /\ cur.op.method # "DELETE" /\ cur.op.type = "group" /\ cur.op.method \in {"POST", "PUT", "PATCH", "DELETE"}
      /\ cur.op.method = "POST" => cur.left = <<"resolve", "members", "reply">>
      /\ cur.op.method # "POST" => cur.left = <<"resolve", "update", "reply">>
  BY <1>1, <1>2, Queue DEF Operation
<1>7. /\ c.left # <<>> /\ Len(c.left) # 1 /\ Tail(c.left) \in Stages(c.op)
      /\ Head(Tail(c.left)) \in {"members", "update"}
  <2>1. CASE cur.op.method = "POST"
    <3>1. c.left = <<"resolve", "members", "reply">>
      BY <1>4, <1>6, <2>1
    <3>2. QED
      BY <1>4, <1>6, <2>1, <3>1, StagesAre
  <2>2. CASE cur.op.method \in {"PUT", "PATCH"}
    <3>1. c.left = <<"resolve", "update", "reply">>
      BY <1>4, <1>6, <2>2
    <3>2. QED
      BY <1>4, <1>6, <2>2, <3>1, StagesAre
  <2>3. QED
    BY <1>6, <2>1, <2>2
<1>8. Going(req[b], Onward(c))
  BY <1>3, <1>4, <1>5, <1>7, GoingOn
<1>9. Inserted(req[b])
  BY <1>1, Queue DEF At
<1>10. QED
  BY <1>1, <1>4, <1>7, <1>8, <1>9, ReadsTurn

LEMMA ReplyTurn == ASSUME BulkInv, NEW b \in Bulk, Working(req[b]), Reply(b) PROVE Turn(b) /\ Table(b)
<1>1. At(b, "reply") /\ Reads(b, rows[About(b)] # None, req[b].cur) /\ req[b].cur \in Current
  BY WorkingIs DEF Reply
<1>2. Len(req[b].cur.left) = 1 /\ Inserted(req[b])
  <2>1. req[b].cur.left = <<"reply">>
    BY <1>1, Queue
  <2>2. QED
    BY <2>1 DEF Inserted, Working
<1>3. QED
  BY <1>1, <1>2, ReadsTurn

\* Behind a query that writes, an operation has read what it needs.
LEMMA Written ==
    ASSUME BulkInv, NEW b \in Bulk, Working(req[b]),
           At(b, "insert") \/ At(b, "members") \/ At(b, "update") \/ At(b, "delete")
    PROVE  LET c == req[b].cur IN
           /\ Len(c.left) # 1 => Going(req[b], Onward(c))
           /\ ~(Len(c.left) # 1 /\ Head(Tail(c.left)) \in {"conflict", "insert"})
<1> DEFINE c == req[b].cur
<1>1. c \in Current /\ Going(req[b], c) /\ c.left # <<>> /\ c.op \in Operation(Ref) /\ c.op.type \in {"user", "group"}
  BY WorkingIs DEF Going, Kind
<1>2. CASE Len(c.left) = 1
  BY <1>2
<1>3. CASE Len(c.left) # 1
  <2>1. \E query \in {"resolve", "reply"} : \E t \in Stages(c.op) :
           /\ Second(c.left, t, query)
           /\ query = "resolve" => At(b, "insert")
    <3>1. CASE At(b, "insert") /\ c.left = <<"insert", "resolve", "members", "reply">>
      <4>1. c.op.method = "POST" /\ c.op.type = "group"
        <5>1. c.op.method = "POST" /\ (c.op.type # "group" => c.left = <<"insert">>)
          BY <3>1, Queue
        <5>2. c.op.type # "group" => Len(c.left) = 1
          <6>1. SUFFICES ASSUME c.op.type # "group" PROVE Len(c.left) = 1
            OBVIOUS
          <6>2. c.left = <<"insert">>
            BY <5>1, <6>1, Zenon
          <6>3. QED
            BY <6>2
        <5>3. QED
          BY <1>3, <5>1, <5>2, Zenon
      <4>2. <<"resolve", "members", "reply">> \in Stages(c.op)
        BY <4>1, StagesAre
      <4>3. Second(c.left, <<"resolve", "members", "reply">>, "resolve")
        BY <3>1, SecondIs, Zenon
      <4>4. QED
        BY <3>1, <4>2, <4>3
    <3>2. CASE c.left = <<"insert", "reply">> /\ c.op.type = "group" /\ c.op.method = "POST"
      <4>1. <<"reply">> \in Stages(c.op)
        BY <3>2, StagesAre
      <4>2. Second(c.left, <<"reply">>, "reply")
        BY <3>2, SecondIs, Zenon
      <4>3. QED
        BY <4>1, <4>2
    <3>3. CASE c.left = <<"members", "reply">> /\ c.op.type = "group" /\ c.op.method = "POST"
      <4>1. <<"reply">> \in Stages(c.op)
        BY <3>3, StagesAre
      <4>2. Second(c.left, <<"reply">>, "reply")
        BY <3>3, SecondIs, Zenon
      <4>3. QED
        BY <4>1, <4>2
    <3>4. CASE c.left = <<"update", "reply">> /\ c.op.type = "group" /\ c.op.method \in {"PUT", "PATCH"}
      <4>1. <<"reply">> \in Stages(c.op)
        BY <3>4, StagesAre
      <4>2. Second(c.left, <<"reply">>, "reply")
        BY <3>4, SecondIs, Zenon
      <4>3. QED
        BY <4>1, <4>2
    <3>5. CASE At(b, "insert")
      <4>1. /\ c.op.method = "POST"
            /\ c.op.type = "group" => c.left \in {<<"insert", "resolve", "members", "reply">>, <<"insert", "reply">>}
            /\ c.op.type # "group" => c.left = <<"insert">>
        BY <3>5, Queue
      <4>2. c.op.type = "group"
        <5>1. SUFFICES ASSUME c.op.type # "group" PROVE FALSE
          OBVIOUS
        <5>2. c.left = <<"insert">>
          BY <4>1, <5>1, Zenon
        <5>3. QED
          BY <1>3, <5>2
      <4>3. QED
        BY <3>1, <3>2, <3>5, <4>1, <4>2, Zenon
    <3>6. CASE At(b, "members")
      <4>1. c.op.method = "POST" /\ c.op.type = "group" /\ c.left = <<"members", "reply">>
        BY <3>6, Queue
      <4>2. QED
        BY <3>3, <4>1
    <3>7. CASE At(b, "update")
      <4>1. /\ c.op.method \in {"PUT", "PATCH"}
            /\ c.op.type = "group" => c.left = <<"update", "reply">>
            /\ c.op.type # "group" => c.left = <<"update">>
        BY <3>7, Queue
      <4>2. c.op.type = "group"
        <5>1. SUFFICES ASSUME c.op.type # "group" PROVE FALSE
          OBVIOUS
        <5>2. c.left = <<"update">>
          BY <4>1, <5>1, Zenon
        <5>3. QED
          BY <1>3, <5>2
      <4>3. QED
        BY <3>4, <4>1, <4>2
    <3>8. CASE At(b, "delete")
      <4>1. c.left = <<"delete">>
        BY <3>8, Queue
      <4>2. QED
        BY <1>3, <4>1
    <3>9. QED
      BY <3>5, <3>6, <3>7, <3>8
  <2>2. /\ Tail(c.left) \in Stages(c.op)
        /\ Head(Tail(c.left)) \in {"resolve", "reply"}
        /\ Head(Tail(c.left)) = "resolve" => At(b, "insert")
    BY <2>1, Zenon DEF Second
  <2>3. At(b, "insert") => c.new \in Draft
    BY <1>1 DEF At, Going
  <2>4. AsAsked(c)
    BY <1>1 DEF Going
  <2>5. Going(req[b], Onward(c))
    BY <1>1, <2>2, <2>3, <2>4, GoingOn
  <2>6. QED
    BY <2>2, <2>5
<1>4. QED
  BY <1>2, <1>3

LEMMA InsertTurn == ASSUME BulkInv, NEW b \in Bulk, Working(req[b]), Insert(b) PROVE Turn(b) /\ Table(b)
<1> DEFINE newRows == [rows EXCEPT ![About(b)] = NewRow(b)]
<1>1. At(b, "insert") /\ Writes(b, ~IndexRefuses(b), newRows) /\ gone' = gone
  BY DEF Insert
<1>2. About(b) = Mine(b) /\ Mine(b) \in Id
  BY <1>1, Queue, WorkingIs
<1>3. NewRow(b) \in Row /\ NewRow(b) # None
  <2>1. Going(req[b], req[b].cur)
    BY WorkingIs
  <2>2. req[b].cur.new \in Draft /\ req[b].cur.op.type \in Kind
    BY <1>1, <2>1 DEF Going, At
  <2>3. QED
    BY <2>2, NoneIsNothing DEF NewRow, Row, Draft, Version
<1>4. rows \in [Id -> Row \cup {None}]
  BY DEF BulkInv, TypeOK
<1>5. /\ newRows \in [Id -> Row \cup {None}]
      /\ newRows[Mine(b)] # None
      /\ \A i \in Id : i # Mine(b) => newRows[i] = rows[i]
  BY <1>2, <1>3, <1>4
<1> HIDE DEF newRows
<1>6. QED
  BY <1>1, <1>5, Written, WritesTurn

\* A write to a row that is there leaves the rest of the table as it is.
LEMMA RowWritten ==
    ASSUME BulkInv, NEW b \in Bulk, Working(req[b]), NEW accepted, NEW row,
           accepted => rows[About(b)] # None /\ row \in Row,
           Writes(b, accepted, [rows EXCEPT ![About(b)] = row]), gone' = gone,
           At(b, "members") \/ At(b, "update")
    PROVE  Turn(b) /\ Table(b)
<1> DEFINE newRows == [rows EXCEPT ![About(b)] = row]
<1>1. About(b) \in Id
  BY WorkingIs
<1>2. rows \in [Id -> Row \cup {None}]
  BY DEF BulkInv, TypeOK
<1>3. Creates(req[b]) => rows[Mine(b)] # None \/ Mine(b) \in gone
  <2>1. Inserted(req[b])
    BY Queue DEF At
  <2>2. QED
    BY <2>1, MineNow
<1>4. Creates(req[b]) => Mine(b) \in Id
  BY MineNow
<1>5. accepted =>
        /\ newRows \in [Id -> Row \cup {None}]
        /\ \A i \in Id : rows[i] # None <=> newRows[i] # None
  BY <1>1, <1>2, NoneIsNothing
<1>6. Writes(b, accepted, newRows)
  OBVIOUS
<1> HIDE DEF newRows
<1>7. QED
  BY <1>3, <1>4, <1>5, <1>6, Written, WritesTurn

LEMMA AddMembersTurn == ASSUME BulkInv, NEW b \in Bulk, Working(req[b]), AddMembers(b) PROVE Turn(b) /\ Table(b)
<1> DEFINE cur == req[b].cur
           row == [rows[About(b)] EXCEPT !.members = cur.new.members, !.links = cur.linked]
           accepted == rows[About(b)] # None /\ cur.linked \subseteq Users
<1>1. About(b) \in Id /\ cur \in Current /\ Going(req[b], cur)
  BY WorkingIs
<1>2. At(b, "members") /\ gone' = gone
  BY DEF AddMembers
<1>3. rows \in [Id -> Row \cup {None}]
  BY DEF BulkInv, TypeOK
<1>4. Writes(b, accepted, [rows EXCEPT ![About(b)] = row])
  <2>1. [rows EXCEPT ![About(b)].members = cur.new.members, ![About(b)].links = cur.linked]
          = [rows EXCEPT ![About(b)] = row]
    BY <1>1, <1>3
  <2>2. QED
    BY <2>1 DEF AddMembers
<1>5. accepted => rows[About(b)] # None /\ row \in Row
  <2>1. cur.new \in Draft /\ cur.linked \in SUBSET Id
    BY <1>1, <1>2 DEF Going, At, Current
  <2>2. QED
    BY <1>1, <1>3, <2>1 DEF Row, Draft
<1> HIDE DEF row, accepted
<1>6. QED
  BY <1>2, <1>4, <1>5, RowWritten

LEMMA UpdateTurn == ASSUME BulkInv, NEW b \in Bulk, Working(req[b]), Update(b) PROVE Turn(b) /\ Table(b)
<1> DEFINE cur == req[b].cur
           old == rows[About(b)]
           row == [old EXCEPT !.version = @ + 1, !.name = cur.new.name, !.members = cur.new.members,
                              !.links = cur.linked]
           accepted == old # None /\ ~IndexRefuses(b) /\ cur.linked \subseteq Users
<1>1. About(b) \in Id /\ cur \in Current /\ Going(req[b], cur)
  BY WorkingIs
<1>2. At(b, "update") /\ gone' = gone
  BY DEF Update
<1>3. rows \in [Id -> Row \cup {None}]
  BY DEF BulkInv, TypeOK
<1>4. Writes(b, accepted, [rows EXCEPT ![About(b)] = row])
  <2>1. [rows EXCEPT ![About(b)].version = @ + 1, ![About(b)].name = cur.new.name,
                     ![About(b)].members = cur.new.members, ![About(b)].links = cur.linked]
          = [rows EXCEPT ![About(b)] = row]
    BY <1>1, <1>3
  <2>2. QED
    BY <2>1 DEF Update
<1>5. accepted => rows[About(b)] # None /\ row \in Row
  <2>1. cur.new.name \in Name /\ cur.new.members \in SUBSET Ref /\ cur.linked \in SUBSET Id
    BY <1>1, <1>2 DEF Going, At, Current, Draft
  <2>2. accepted => old \in Row
    BY <1>1, <1>3
  <2>3. old \in Row => old.version + 1 \in Version
    BY DEF Row, Version
  <2>4. old \in Row => row \in Row
    <3> HIDE DEF old, cur
    <3>1. QED
      BY <2>1, <2>3 DEF Row
  <2>5. accepted => rows[About(b)] # None
    OBVIOUS
  <2> HIDE DEF row, accepted
  <2>6. QED
    BY <2>2, <2>4, <2>5
<1> HIDE DEF row, accepted
<1>6. QED
  BY <1>2, <1>4, <1>5, RowWritten

LEMMA DeleteTurn == ASSUME BulkInv, NEW b \in Bulk, Working(req[b]), Delete(b) PROVE Turn(b) /\ Table(b)
<1> DEFINE at == About(b)
           accepted == rows[at] # None
           newRows == [i \in Id |-> CASE i = at \/ rows[i] = None -> None
                                      [] OTHER -> [rows[i] EXCEPT !.links = @ \ {at}]]
<1>1. At(b, "delete") /\ Writes(b, accepted, newRows)
  BY DEF Delete
<1>2. at \in Id /\ ~Creates(req[b])
  BY <1>1, Queue, WorkingIs
<1>3. rows \in [Id -> Row \cup {None}]
  BY DEF BulkInv, TypeOK
<1>4. gone \subseteq gone' /\ (rows'[at] = None => at \in gone')
  BY DEF Delete
<1>5. ASSUME NEW i \in Id
      PROVE  /\ newRows[i] \in Row \cup {None}
             /\ rows[i] # None /\ i # at => newRows[i] # None
             /\ rows[i] = None \/ i = at => newRows[i] = None
  <2>1. CASE i = at \/ rows[i] = None
    BY <2>1
  <2>2. CASE ~(i = at \/ rows[i] = None)
    <3>1. newRows[i] = [rows[i] EXCEPT !.links = @ \ {at}]
      BY <2>2
    <3>2. rows[i] \in Row
      BY <1>3, <2>2
    <3> HIDE DEF newRows
    <3>3. newRows[i] \in Row
      BY <3>1, <3>2 DEF Row
    <3>4. QED
      BY <2>2, <3>3, NoneIsNothing
  <2>3. QED
    BY <2>1, <2>2
<1>6. newRows \in [Id -> Row \cup {None}]
  BY <1>5
<1> HIDE DEF newRows
<1>7. rows' = newRows => at \in gone'
  BY <1>2, <1>4, <1>5
<1>8. QED
  BY <1>1, <1>2, <1>4, <1>5, <1>6, <1>7, Written, WritesTurn

LEMMA BeginTurn == ASSUME BulkInv, NEW b \in Bulk, Begin(b) PROVE Turn(b) /\ Table(b)
<1> DEFINE q == req[b]
           o == q.ops[Index(q)]
           e == req'[b]
           w == WithReferences(q, o)
           begins == PathResolves(q, o) /\ DataResolves(q, o) /\ Valid(o)
           c == [q.cur EXCEPT !.op = w, !.left = Queries(o)]
<1>1. q \in Request /\ RequestOK(b, q) /\ ~Working(q) /\ ~Over(q) /\ q.cur = Rest
  BY DEF BulkInv, Begin, RequestOK
<1>2. Index(q) \in 1 .. Len(q.ops) /\ o \in Operation(Named) /\ q.ids \in [BulkId -> Id \cup {None}]
  BY <1>1 DEF Request, Index, Over
<1>3. Table(b)
  BY SameTable DEF Begin
<1>4. rows' = rows
  BY DEF Begin
<1>5. ~Inserted(q) /\ (Creates(q) => rows'[Mine(b)] = None)
  <2>1. ~Inserted(q)
    BY <1>1 DEF Inserted, Working
  <2>2. QED
    BY <1>4, <2>1, MineNow
<1>6. req' = [req EXCEPT ![b] = IF begins THEN [q EXCEPT !.cur.op = w, !.cur.left = Queries(o)] ELSE Ended(b, "error")]
  BY DEF Begin
<1>7. /\ e = IF begins THEN [q EXCEPT !.cur.op = w, !.cur.left = Queries(o)] ELSE Ended(b, "error")
      /\ req' = [req EXCEPT ![b] = e]
  BY <1>6 DEF BulkInv, TypeOK
<1>8. CASE ~begins
  <2>1. e = Ended(b, "error")
    BY <1>7, <1>8
  <2>2. RequestOK(b, e) /\ e.results = Append(q.results, "error")
    BY <1>1, <2>1, EndedOK DEF Result
  <2>3. e.ops = q.ops /\ e.cur.op = None
    BY <1>1, <2>1 DEF Ended, Rest, Request
  <2>4. QED
    BY <1>3, <1>5, <1>7, <2>2, <2>3 DEF Turn
<1>9. CASE begins
  <2>1. e = [q EXCEPT !.cur = c]
    <3>1. [q EXCEPT !.cur.op = w, !.cur.left = Queries(o)] = [q EXCEPT !.cur = c]
      BY <1>1 DEF Request, Current
    <3>2. QED
      BY <1>7, <1>9, <3>1
  <2>2. /\ w \in Operation(Ref) /\ w.method = o.method /\ w.type = o.type
        /\ w.target = Resolved(q, o.target)
    BY <1>2, WithReferencesIs
  <2>3. /\ o.method \in {"POST", "PUT", "PATCH", "DELETE"} /\ o.type \in {"user", "group"}
        /\ o.method = "POST" <=> o.target = None
        /\ o.target \in Named \cup {None} /\ Resolved(q, o.target) \notin BulkId
    BY <1>2, <1>9 DEF Valid, PathResolves, Operation, Kind
  <2>4. w.method # "POST" => w.target \in Id
    <3>1. o.target \in Named => Resolved(q, o.target) \in Ref
      BY <1>2, ResolvedIs
    <3>2. QED
      BY <2>2, <2>3, <3>1 DEF Ref
  <2>5. Queries(o) \in Stages(w)
    <3> HIDE DEF w, o
    <3>1. QED
      BY <2>2, <2>3, Zenon DEF Queries, Stages
  <2>6. Head(Queries(o)) = IF o.method = "POST" THEN "conflict" ELSE "find"
    <3> HIDE DEF o
    <3>1. QED
      BY <2>3 DEF Queries
  <2>7. Queries(o) \in Queues
    BY <2>2, <2>3, <2>5, StagesAreQueues DEF Kind
  <2> HIDE DEF w, o
  <2>8. c \in Current /\ c.op = w /\ c.left = Queries(o) /\ c.new = None
    <3>1. q.cur \in Current /\ q.cur.new = None
      BY <1>1, RestIsCurrent DEF Rest
    <3> HIDE DEF q
    <3>2. QED
      BY <2>2, <2>7, <3>1 DEF Current
  <2> HIDE DEF c
  <2>9. Going(q, c)
    <3>1. AsAsked(c)
      BY <2>8 DEF AsAsked
    <3>2. c.op = WithReferences(q, q.ops[Index(q)])
      BY <2>8 DEF w, o
    <3>3. c.op.type \in Kind
      BY <2>2, <2>3, <2>8 DEF Kind
    <3>4. Head(c.left) \in {"conflict", "find"} /\ (Head(c.left) = "conflict" => c.op.method = "POST")
      BY <2>2, <2>6, <2>8
    <3>5. QED
      BY <2>2, <2>4, <2>5, <2>8, <3>1, <3>2, <3>3, <3>4 DEF Going
  <2>10. RequestOK(b, e) /\ e.ops = q.ops /\ e.results = q.results /\ e.cur = c
    BY <1>1, <1>2, <2>1, <2>8, <2>9, ContinuesOK
  <2>11. Creates(q) => ~Inserted(e)
    <3>1. Creates(q) => o.method = "POST"
      BY DEF Creates, o
    <3>2. QED
      BY <2>6, <2>8, <2>10, <3>1 DEF Inserted
  <2>12. QED
    BY <1>3, <1>5, <1>7, <2>10, <2>11 DEF Turn
<1>10. QED
  BY <1>8, <1>9

-----------------------------------------------------------------------------
(* The invariant                                                            *)

\* What a turn leaves of the resources of the requests.
LEMMA TurnMakes ==
    ASSUME BulkInv, NEW b \in Bulk, Turn(b), Table(b), NEW a \in Bulk,
           NEW i \in DOMAIN req'[a].ops, req'[a].ops[i].method = "POST"
    PROVE  Made(a, i)'
<1> DEFINE q == req[a]
           e == req'[a]
           n == Index(q)
           x == <<a, i>>
<1>1. q \in Request /\ RequestOK(a, q) /\ n \in Nat
  BY DEF BulkInv, RequestOK, Request, Index
<1>2. e.ops = q.ops /\ (a # b => e = q)
  BY <1>1 DEF Turn, BulkInv, TypeOK
<1>3. i \in DOMAIN q.ops /\ q.ops[i].method = "POST" /\ i \in 1 .. Len(q.ops) /\ i \in 1 .. Length
  BY <1>1, <1>2, PlanAssumption DEF RequestOK, Request
<1>4. Made(a, i)
  BY <1>3 DEF BulkInv
<1>5. x \in Id
  BY <1>3, OwnIds
<1>6. /\ rows[x] # None => rows'[x] # None \/ x \in gone'
      /\ rows[x] = None /\ rows'[x] # None => a = b /\ i = n
      /\ gone \subseteq gone' /\ half \subseteq half'
  BY <1>5 DEF Table, Mine
<1>7. Made(a, i)' <=>
        /\ i < Index(e) /\ e.results[i] = "ok" => rows'[x] # None \/ x \in gone'
        /\ i < Index(e) /\ e.results[i] # "ok" /\ rows'[x] # None => x \in half'
        /\ i = Index(e) /\ Inserted(e) => rows'[x] # None \/ x \in gone'
        /\ i = Index(e) /\ ~Inserted(e) => rows'[x] = None
        /\ i > Index(e) => rows'[x] = None
  BY DEF Made, Inserted
<1>8. /\ i < n /\ q.results[i] = "ok" => rows[x] # None \/ x \in gone
      /\ i < n /\ q.results[i] # "ok" /\ rows[x] # None => x \in half
      /\ i = n /\ Inserted(q) => rows[x] # None \/ x \in gone
      /\ i = n /\ ~Inserted(q) => rows[x] = None
      /\ i > n => rows[x] = None
  BY <1>4 DEF Made, Inserted
<1>9. CASE a # b
  <2>1. e = q /\ Index(e) = n
    BY <1>2, <1>9
  <2> HIDE DEF e, q, n, x
  <2>2. QED
    BY <1>6, <1>7, <1>8, <1>9, <2>1
<1>10. CASE a = b
  <2>1. \/ /\ e.results = Append(q.results, "ok") /\ e.cur.op = None
           /\ Creates(q) => rows'[Mine(b)] # None \/ Mine(b) \in gone'
        \/ /\ e.results = Append(q.results, "error") /\ e.cur.op = None
           /\ Creates(q) => (rows'[Mine(b)] # None => Mine(b) \in half')
        \/ /\ e.results = q.results
           /\ Creates(q) /\ Inserted(e) => rows'[Mine(b)] # None \/ Mine(b) \in gone'
           /\ Creates(q) /\ ~Inserted(e) => rows'[Mine(b)] = None
    BY <1>10 DEF Turn
  <2>2. i = n => Creates(q) /\ Mine(b) = x
    BY <1>3, <1>10 DEF Creates, Mine
  <2>3. \/ /\ Index(e) = n + 1 /\ e.results[n] = "ok" /\ ~Inserted(e)
           /\ \A j \in 1 .. (n - 1) : e.results[j] = q.results[j]
           /\ i = n => rows'[x] # None \/ x \in gone'
        \/ /\ Index(e) = n + 1 /\ e.results[n] = "error" /\ ~Inserted(e)
           /\ \A j \in 1 .. (n - 1) : e.results[j] = q.results[j]
           /\ i = n => (rows'[x] # None => x \in half')
        \/ /\ Index(e) = n /\ e.results = q.results
           /\ i = n /\ Inserted(e) => rows'[x] # None \/ x \in gone'
           /\ i = n /\ ~Inserted(e) => rows'[x] = None
    <3>1. q.results \in Seq(Result) /\ n = Len(q.results) + 1 /\ Index(e) = Len(e.results) + 1
      BY <1>1 DEF Request, Index
    <3>2. e.cur.op = None => ~Inserted(e)
      BY DEF Inserted
    <3> HIDE DEF e, q, n, x
    <3>3. QED
      BY <2>1, <2>2, <3>1, <3>2
  <2> HIDE DEF e, q, n, x
  <2>4. CASE i < n
    BY <1>1, <1>3, <1>4, <1>6, <1>7, <1>8, <2>3, <2>4
  <2>5. CASE i = n
    BY <1>1, <1>3, <1>7, <2>3, <2>5
  <2>6. CASE i > n
    BY <1>1, <1>3, <1>4, <1>6, <1>7, <1>8, <2>3, <2>6
  <2>7. QED
    BY <1>1, <1>3, <2>4, <2>5, <2>6
<1>11. QED
  BY <1>9, <1>10

\* Each turn keeps all requests in order.
LEMMA TurnKeepsInv ==
    ASSUME BulkInv, NEW b \in Bulk, Turn(b), Table(b)
    PROVE  BulkInv'
<1>1. req \in [Bulk -> Request] /\ req' = [req EXCEPT ![b] = req'[b]] /\ RequestOK(b, req'[b])
  BY DEF BulkInv, TypeOK, Turn
<1>2. TypeOK'
  <2>1. req'[b] \in Request
    BY <1>1 DEF RequestOK
  <2>2. req' \in [Bulk -> Request]
    BY <1>1, <2>1
  <2>3. QED
    BY <2>2 DEF TypeOK, Table
<1>3. \A a \in Bulk : RequestOK(a, req'[a])
  <2> SUFFICES ASSUME NEW a \in Bulk PROVE RequestOK(a, req'[a])
    OBVIOUS
  <2>1. a # b => req'[a] = req[a]
    BY <1>1
  <2>2. RequestOK(a, req[a])
    BY DEF BulkInv
  <2>3. QED
    BY <1>1, <2>1, <2>2
<1>4. \A a \in Bulk : \A i \in DOMAIN req'[a].ops : req'[a].ops[i].method = "POST" => Made(a, i)'
  BY TurnMakes
<1>5. QED
  BY <1>2, <1>3, <1>4 DEF BulkInv

\* Every step is a turn.
LEMMA StepTurns ==
    ASSUME BulkInv, NEW b \in Bulk, Step(b)
    PROVE  Turn(b) /\ Table(b)
<1>1. CASE Begin(b)
  BY <1>1, BeginTurn
<1>2. CASE Find(b)
  BY <1>2, FindTurn DEF Find, At
<1>3. CASE Listed(b)
  BY <1>3, ListedTurn DEF Listed, At
<1>4. CASE Conflict(b)
  BY <1>4, ConflictTurn DEF Conflict, At
<1>5. CASE Resolve(b)
  BY <1>5, ResolveTurn DEF Resolve, At
<1>6. CASE Reply(b)
  BY <1>6, ReplyTurn DEF Reply, At
<1>7. CASE Insert(b)
  BY <1>7, InsertTurn DEF Insert, At
<1>8. CASE AddMembers(b)
  BY <1>8, AddMembersTurn DEF AddMembers, At
<1>9. CASE Update(b)
  BY <1>9, UpdateTurn DEF Update, At
<1>10. CASE Delete(b)
  BY <1>10, DeleteTurn DEF Delete, At
<1>11. QED
  BY <1>1, <1>2, <1>3, <1>4, <1>5, <1>6, <1>7, <1>8, <1>9, <1>10 DEF Step

\* The requests at the start.
LEMMA BulkInit == Init => BulkInv
<1> SUFFICES ASSUME Init PROVE BulkInv
  OBVIOUS
<1>1. rows \in [Id -> Row \cup {None}]
  BY PlanAssumption DEF Init
<1>2. ASSUME NEW b \in Bulk
      PROVE  /\ RequestOK(b, req[b]) /\ Index(req[b]) = 1
             /\ \A i \in DOMAIN req[b].ops : i \in 1 .. Length
  <2>1. PICK plan \in Plan, limit \in Limit : req[b] = Ask(plan, limit)
    BY DEF Init
  <2> DEFINE q == Ask(plan, limit)
  <2>2. /\ q.ops = plan /\ q.limit = limit /\ q.results = <<>> /\ q.ids = [x \in BulkId |-> None]
        /\ q.cur = Rest
    BY DEF Ask
  <2>3. /\ plan \in Seq(Operation(Named)) /\ Len(plan) \in 1 .. Length /\ limit \in Nat
        /\ Length \in Nat
    BY PlanAssumption
  <2>4. q \in Request
    BY <2>3, RestIsCurrent DEF Ask, Request
  <2> HIDE DEF q
  <2>5. ~Working(q) /\ Index(q) = 1 /\ Len(q.results) = 0
    BY <2>2 DEF Working, Index, Rest
  <2>6. IdsTell(b, q)
    <3>1. \A x : PostsIn(q, Index(q), x) = {}
      BY <2>5 DEF PostsIn
    <3>2. QED
      BY <2>2, <3>1 DEF IdsTell
  <2>7. Within(q)
    <3>1. Errors(q) = 0
      <4>1. {i \in DOMAIN q.results : q.results[i] = "error"} = {}
        BY <2>2
      <4>2. QED
        BY <4>1, FS_EmptySet DEF Errors
    <3>2. QED
      BY <2>2, <2>3, <3>1 DEF Within
  <2>8. RequestOK(b, q)
    BY <2>2, <2>3, <2>4, <2>5, <2>6, <2>7 DEF RequestOK
  <2>9. \A i \in DOMAIN q.ops : i \in 1 .. Length
    BY <2>2, <2>3
  <2>10. QED
    BY <2>1, <2>5, <2>8, <2>9 DEF q
<1>3. req \in [Bulk -> Request]
  <2>1. req = [b \in Bulk |-> req[b]]
    BY DEF Init
  <2>2. QED
    BY <1>2, <2>1 DEF RequestOK
<1>4. ASSUME NEW b \in Bulk, NEW i \in DOMAIN req[b].ops PROVE Made(b, i)
  <2>1. i \in 1 .. Length /\ Index(req[b]) = 1 /\ req[b].cur.op = None
    BY <1>2, <1>4 DEF RequestOK, Working, Index, Init, Ask, Rest
  <2>2. rows[<<b, i>>] = None
    <3>1. <<b, i>> \in Id /\ <<b, i>> \notin First
      BY <2>1, PlanAssumption, OwnIds
    <3>2. QED
      BY <3>1 DEF Init
  <2>3. ~(i < 1)
    BY <2>1
  <2>4. QED
    BY <2>1, <2>2, <2>3 DEF Made
<1>5. QED
  BY <1>1, <1>2, <1>3, <1>4 DEF BulkInv, TypeOK

\* Nothing happens.
LEMMA BulkStutters == ASSUME BulkInv, UNCHANGED vars PROVE BulkInv'
<1>1. rows' = rows /\ req' = req /\ gone' = gone /\ half' = half
  BY DEF vars
<1>2. \A b, i : Made(b, i) <=> Made(b, i)'
  BY <1>1 DEF Made, Index
<1>3. QED
  BY <1>1, <1>2 DEF BulkInv, TypeOK

\* Whatever the requests ask for and however their queries interleave, fail or
\* are lost: each request is where its results, its map of bulkIds and the
\* operation it is at say it is, and the table holds of its resources what they
\* tell (bulk-processor.service.ts:136-330).
THEOREM BulkInvariant == Spec => []BulkInv
<1>1. Init => BulkInv
  BY BulkInit
<1>2. BulkInv /\ [Next]_vars => BulkInv'
  <2> SUFFICES ASSUME BulkInv, [Next]_vars PROVE BulkInv'
    OBVIOUS
  <2>1. CASE Done
    BY <2>1, BulkStutters DEF Done
  <2>2. ASSUME NEW b \in Bulk, Step(b) PROVE BulkInv'
    BY <2>2, StepTurns, TurnKeepsInv
  <2>3. CASE UNCHANGED vars
    BY <2>3, BulkStutters
  <2>4. QED
    BY <2>1, <2>2, <2>3 DEF Next
<1>3. QED
  BY <1>1, <1>2, PTL DEF Spec

-----------------------------------------------------------------------------
(* What the invariant says                                                  *)

\* "POST operations populate the map; subsequent operations resolve"
\* (PHASE_09_BULK_OPERATIONS.md:61): for requests of any length and any number
\* of them, what an operation changes and every member it names is what the
\* results so far make of its references (bulk-processor.service.ts:203, :303).
THEOREM ReferencesMeant == Spec => []ReferencesAreMeant
<1>1. BulkInv => ReferencesAreMeant
  <2> SUFFICES ASSUME BulkInv, NEW b \in Bulk, Working(req[b])
               PROVE  LET i == Index(req[b])
                          o == req[b].ops[i]
                          Those(xs) == {Meant(b, i, x) : x \in xs} IN
                      /\ req[b].cur.op.target = Meant(b, i, o.target)
                      /\ req[b].cur.op.members = Those(o.members)
                      /\ \A j \in DOMAIN o.patch :
                            /\ req[b].cur.op.patch[j].value = Those(o.patch[j].value)
                            /\ req[b].cur.op.patch[j].target = Meant(b, i, o.patch[j].target)
    BY DEF ReferencesAreMeant
  <2> DEFINE q == req[b]
             i == Index(q)
             o == q.ops[i]
  <2>1. /\ q \in Request /\ RequestOK(b, q) /\ o \in Operation(Named) /\ Going(q, q.cur)
        /\ i \in 1 .. Length
    BY WorkingIs
  <2>2. q.cur.op = WithReferences(q, o) /\ q.ids \in [BulkId -> Id \cup {None}]
    BY <2>1 DEF Going, Request
  <2>3. \A x : Resolved(q, x) = Meant(b, i, x)
    <3> SUFFICES ASSUME NEW x PROVE Resolved(q, x) = Meant(b, i, x)
      OBVIOUS
    <3>1. CASE x \notin BulkId
      BY <3>1 DEF Resolved, Meant
    <3>2. CASE x \in BulkId
      <4>1. q.ids[x] = IF PostsIn(q, i, x) = {} THEN None ELSE <<b, Max(PostsIn(q, i, x))>>
        BY <2>1, <3>2 DEF RequestOK, IdsTell
      <4>2. PostsIn(q, i, x) = Posts(b, i, x)
        BY DEF PostsIn, Posts
      <4>3. CASE Posts(b, i, x) = {}
        BY <3>2, <4>1, <4>2, <4>3 DEF Resolved, Meant
      <4>4. CASE Posts(b, i, x) # {}
        <5>1. Posts(b, i, x) \subseteq 1 .. Length
          BY <2>1, PlanAssumption DEF Posts
        <5>2. Max(Posts(b, i, x)) \in 1 .. Length
          BY <4>4, <5>1, MaxIn, PlanAssumption
        <5>3. <<b, Max(Posts(b, i, x))>> # None
          BY <5>2, OwnIds, NoneIsNothing
        <5>4. QED
          BY <3>2, <4>1, <4>2, <4>4, <5>3 DEF Resolved, Meant
      <4>5. QED
        BY <4>3, <4>4
    <3>3. QED
      BY <3>1, <3>2
  <2> HIDE DEF q, i, o
  <2>4. /\ q.cur.op.target = Meant(b, i, o.target)
        /\ q.cur.op.members = {Meant(b, i, x) : x \in o.members}
        /\ \A j \in DOMAIN o.patch :
              /\ q.cur.op.patch[j].value = {Meant(b, i, x) : x \in o.patch[j].value}
              /\ q.cur.op.patch[j].target = Meant(b, i, o.patch[j].target)
    <3>1. \A xs : {Resolved(q, x) : x \in xs} = {Meant(b, i, x) : x \in xs}
      BY <2>3
    <3>2. QED
      BY <2>1, <2>2, <2>3, <3>1, WithReferencesIs
  <2>5. QED
    BY <2>4 DEF q, i, o
<1>2. QED
  BY <1>1, BulkInvariant, PTL

\* The results tell what the request left behind (bulk-processor.service.ts:128):
\* whatever fails and however other requests interleave, what a POST answered
\* 201 made is there unless somebody has deleted it, and what another was to
\* make is there only if that create had inserted it before it failed.
THEOREM ResultsTell == Spec => []ResultsTellTheTable
<1>1. BulkInv => ResultsTellTheTable
  <2> SUFFICES ASSUME BulkInv, NEW b \in Bulk, NEW i \in DOMAIN req[b].ops, req[b].ops[i].method = "POST"
               PROVE  CASE i < Index(req[b]) /\ req[b].results[i] = "ok" ->
                              rows[<<b, i>>] # None \/ <<b, i>> \in gone
                        [] i = Index(req[b]) /\ Working(req[b]) -> TRUE
                        [] OTHER -> rows[<<b, i>>] # None => <<b, i>> \in half
    BY DEF ResultsTellTheTable
  <2>1. Made(b, i)
    BY DEF BulkInv
  <2>2. req[b] \in Request
    BY DEF BulkInv, RequestOK
  <2>3. i \in Nat /\ Index(req[b]) \in Nat
    BY <2>2 DEF Request, Index
  <2>4. CASE i < Index(req[b])
    BY <2>1, <2>3, <2>4 DEF Made
  <2>5. CASE i = Index(req[b])
    BY <2>1, <2>3, <2>5 DEF Made, Working
  <2>6. CASE i > Index(req[b])
    BY <2>1, <2>3, <2>6 DEF Made
  <2>7. QED
    BY <2>3, <2>4, <2>5, <2>6
<1>2. QED
  BY <1>1, BulkInvariant, PTL

\* "Errors are counted and processing stops when failOnErrors threshold is
\* reached" (bulk-processor.service.ts:10), whatever the threshold is and
\* whichever operations fail.
THEOREM Stops == Spec => []StopsAtThreshold
<1>1. BulkInv => StopsAtThreshold
  BY DEF BulkInv, RequestOK, Within, StopsAtThreshold
<1>2. QED
  BY <1>1, BulkInvariant, PTL

\* A PATCH of any number of operations does to the members of a group what they
\* say in their order (group-patch-engine.ts:60).
THEOREM MembersAsked == Spec => []MembersAsAsked
<1>1. BulkInv => MembersAsAsked
  <2> SUFFICES ASSUME BulkInv, NEW b \in Bulk, req[b].cur.new # None, req[b].cur.op.type = "group",
                      req[b].cur.op.method = "PATCH", NEW m \in Ref
               PROVE  LET cur == req[b].cur
                          said == {j \in DOMAIN cur.op.patch : m \in SpeaksOf(cur.op.patch[j])} IN
                      m \in cur.new.members <=>
                         IF said = {} THEN m \in cur.listed ELSE m \in Wants(cur.op.patch[Max(said)])
    BY DEF MembersAsAsked
  <2> DEFINE cur == req[b].cur
  <2>1. Working(req[b])
    BY DEF BulkInv, RequestOK, Rest
  <2>2. Going(req[b], cur) /\ cur.op \in Operation(Ref)
    BY <2>1, WorkingIs
  <2>3. m \in cur.new.members <=> Asked(cur.op.patch, Len(cur.op.patch), cur.listed, m)
    BY <2>2 DEF Going, AsAsked
  <2>4. DOMAIN cur.op.patch = 1 .. Len(cur.op.patch)
    BY <2>2 DEF Operation
  <2>5. QED
    BY <2>3, <2>4 DEF Asked, Said
<1>2. QED
  BY <1>1, BulkInvariant, PTL

=============================================================================
