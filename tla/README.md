# Verification of SCIMServer

TLA+ specifications of SCIMServer (a multi-tenant SCIM 2.0 server: NestJS on
Node, Prisma on PostgreSQL), TLC configurations that check them on small
instances, and TLAPS proofs of the invariants that matter most. Everything is
translated from the TypeScript under `src/api/src` and from
`src/api/prisma/schema.prisma`.

## 1. How the system runs, and what that makes hard

One Node process serves all requests. JavaScript runs without preemption, so
two requests interleave **only where the code awaits**, almost always a
database query. Hence the convention of every module here:

* one action = the synchronous code between two awaits, together with the query
  that ends or begins it;
* a query executes in the database in a step of its own, and the code behind
  the `await` runs in a later step. Answers of different requests can be handled
  in another order than their queries executed;
* a query may be rejected, before or after it took effect (the answer is lost);
* apart from the locks written in the code, nothing orders two requests. There
  is one lock (`KeyedMutex`) and one multi-statement transaction, that of a
  group's PATCH or PUT.

What is hard to test here is therefore not the single handler but what another
request does between its find and its write, between its write and the update
of a cache, or while a flush is in progress.

## 2. Inventory

| component | state | operations | interacts with | what makes it correct |
|---|---|---|---|---|
| keyed mutex (`common/keyed-mutex.ts`) | map key -> promise of the last call | `runExclusive` | authentication methods | exclusion, order, no key leaked, a throwing function releases |
| endpoint registry (`endpoint.service.ts`) | table `Endpoint`, `cacheById`, `cacheByName` | create, get by id or name, update, delete, warm-up | every request reads its configuration through the caches | the cache agrees with the table, updates are not lost, deleted endpoints stay deleted |
| authentication methods (`admin-authentication-method.controller.ts`) | a block inside the endpoint's profile | add, remove, set | keyed mutex, endpoint registry | an acknowledged add or removal stands |
| SCIM users (`endpoint-scim-users.service.ts`, Prisma repository) | table `ScimResource` | create, get, list, patch, replace, delete | emits events for the statistics | versions and ETags, unique userName, If-Match, no resurrection |
| SCIM groups (`endpoint-scim-groups.service.ts`, Prisma repository) | `ScimResource`, `ResourceMember` | create, patch, replace, delete; a PATCH replaces all members in a transaction | users (links of members), events | no lost member, links that follow the users, versions and ETags, unique displayName |
| generic resources | `ScimResource` | as users | profiles | as users |
| bulk processor (`bulk-processor.service.ts`) | none beyond a request: its map of bulkIds, its results | runs the operations of a request one after the other, each through the service of its type | users, groups, generic | references mean what the results told the client, failOnErrors stops in time, the results tell what was left |
| group patch engine (`group-patch-engine.ts`) | none | add, remove, replace on members and displayName | called by the groups service with what it read | each operation takes effect on what the ones before it made |
| request log buffer (`logging.service.ts`) | `logBuffer`, `flushTimer`, `flushInProgress`, counters | record, flush, force-flush, shutdown | table `RequestLog`, timers, `PrismaService` | order, nothing lost silently, drains |
| statistics (`stats-projection.service.ts`) | counters per endpoint | event handlers, first count, reconciliation every minute | events of users, groups, generic resources and endpoints | the counters are those of the tables, and a drift is repaired |
| external JWKS cache (`external-jwks-validator.service.ts`) | keys by URI, fetches in flight, redirect targets, limiter of unknown key ids | verify, fetch, retry, redirect, refresh, prewarm, evict | allow list, network, timers | one fetch per URI, no key past the ceiling, rotated keys are found, everybody is answered |
| JWKS host allow list (`jwks-host-allowlist.service.ts`) | table `JwksHostAllowlistEntry`, its copy in memory | seed, load, add, update, remove, patch | asked by the JWKS cache at every request and redirect | the copy is the table |
| endpoint credentials (`admin-credential.controller.ts`) | table `EndpointCredential`, the setting whether secrets are kept | create, rotate, revoke, activate, edit, replace, verify, reveal, change the setting | the authenticator and the token endpoint read the table | a revoked secret is refused, one that was given out is accepted, a replaced trust stands |
| credential encryption | data key | provision, seal, open | credentials | one key per installation |
| OAuth, WIF, request authentication | signing key | issue, verify | JWKS cache, credentials | pure checks |
| structured logger, log files, audit stores | rings, files | write, rotate, query | all | bounded |
| user and generic patch engines, validators, filters, profiles, discovery | none | pure functions | users, groups | the RFC's semantics |
| bootstrap, web UI, scripts, infrastructure | none that the server's promises depend on | | | |

`PROJECT.json` lists the same components with their files, and every hazard with
the line where it bites and the properties that watch it.

## 3. Modules

| module | models | kind |
|---|---|---|
| `KeyedMutex` | `common/keyed-mutex.ts` | detailed specification |
| `FifoLock` | what callers of the lock rely on | abstract specification |
| `EndpointStore` | endpoint rows, both caches, the admin requests; instantiates `KeyedMutex` | detailed, composed |
| `ResourceStore` | what SCIM clients rely on | abstract specification |
| `ScimUsers` | users service and Prisma repository | detailed specification |
| `ScimGroups` | groups service and Prisma repository, beside the deletion of users | detailed specification |
| `RequestLogBuffer` | `LoggingService` buffer, timer, shutdown | detailed specification |
| `JwksHostAllowlist` | the allow list, its table and the calls that change it | detailed specification |
| `ExternalJwksValidator` | key cache, fetches, verifications, timers; extends `JwksHostAllowlist` | detailed, composed |
| `EndpointCredentials` | the credentials of an endpoint, those who manage them and those who present secrets | detailed specification |
| `StatsProjection` | the counters, the runs that count, and the requests whose events move them | detailed specification |
| `GroupPatchEngine` | what a PATCH makes of a group | pure function |
| `BulkProcessor` | bulk requests over users and groups, query by query; extends `GroupPatchEngine` | detailed, composed |
| `KeyedMutex_proofs`, `EndpointStore_proofs`, `ScimUsers_proofs`, `ScimGroups_proofs`, `Monitoring_proofs` (of `RequestLogBuffer` and `StatsProjection`), `ExternalJwksValidator_proofs`, `EndpointCredentials_proofs`, `BulkProcessor_proofs` | | theorems |
| `MC*` | instances for TLC | model checking |

### KeyedMutex and FifoLock

The lock has no queue: a call of `runExclusive` stores its own promise in the
map (`tails`) and awaits the one it found (`prev`). `Enter` is the code up to
`await previous`, `Start` the turn that resumes it, `Finish` the settling of
`fn` with its `finally`. A promise is represented by the call that made it; it
is settled when that call's `stage` is. `FifoLock` is one queue per key; the
refinement mapping (`InOrder`) is the queue that the chain of predecessors
stands for: its calls are those that have not finished, each one waits for the one
before it, and the tail is the last.

### EndpointStore

State: the table `db`, both cache maps, and for every request its program
counter, the row its last query returned, and what it saved across an await.
Operations: `get`, a PATCH with one flag (`settings`), a PATCH without profile
(`columns`), `create`, `delete`, and `add` / `remove` of an authentication method
under the lock. The steps are `Arrive*` (up to the first await), `FillRead` and
`FillApply` (a cache miss), `LoadBlock` (the lock's turn), `ReadRow`, `Commit`
(the write in the database), `Apply` (the code behind it: cache, answer),
`Unlock`. A profile is written whole: `Merged` takes the settings of the row
that was read, and an update without profile leaves that column alone.

### ScimUsers and ResourceStore

A request is `Find` (with everything that can be thrown before the next await:
404, the hard-delete gate, If-Match, the soft-delete gate), `CheckConflict`,
`Commit`, `Reply`. The content to be written is computed from the row found; the
version is incremented in the database, and the unique index on userName is part
of `Refusal`. A payload is abstract: an attribute's value is the request that
wrote it. `ResourceStore` knows only versions and contents: it creates at
version 1, changes to the next version, deletes for ever, and never has one name
twice. The mapping forgets the requests and keeps the last version of an id
after its deletion (`versions`).

### ScimGroups

A group is read in two queries (Prisma's `include` issues one for the row and
one for the members), `FindRow` and `FindMembers`, so what a PATCH works on may
never have existed. `CheckConflict` is the query for another group with the
displayName, which nothing in the schema enforces; `Resolve` asks which members
are users, outside any transaction. A PATCH or PUT then writes row and members
in one transaction (`Update`): new version, all old member rows deleted, the
computed list inserted, refused when a link refers to a user that is gone. A create
writes the row (`Insert`) and then the members (`AddMembers`) with nothing
around the two. `DeleteUser` is the foreign key's `SetNull`: the member's value
stays, its link goes. `found`, `listed` and `linked` are what a request carries
across its awaits. A failing query ends the request with 503 in the model,
whatever status the code gives it.

Apart from the members, groups implement `ResourceStore` too; the unique name
of the store is the id there, as displayName turns out not to be unique.

### RequestLogBuffer

A row is its number. `RecordRequest` appends and flushes or arms the timer;
`FlushLogs` is the code up to the `await createMany`; `Execute` is the insert in
the database, `Resolve` and `Reject` the two ends of the await. `Drain` is one
turn of `flushPending`; shutdown is `OnModuleDestroy`, then the closing of the
pool. The timer handle has three values, because a timer that has fired is not
`null` and `recordRequest` tests for `null`. `asked` is history: what was in memory and how
much had been dropped when a force-flush was called, which is what its return is
measured by.

### JwksHostAllowlist and ExternalJwksValidator

The list in memory is the union of a compiled seed, the environment and a copy
of the table (`Effective`). An administrator's call writes its rows one by one
(`AdminWrites`), reads the table (`ReloadReads`) and replaces the copy
(`ReloadApplies`), with other calls between; a query that fails ends the call
without a reload.

A URI is its host. A fetch is a record in `fetch`: the policy of whoever started
it, the attempt, the deadline, the request it waits for (`stage` "hop") or its
sleep, and when either ends (`until`). `Start` is `fetchJwks` and joins or
starts; `Answered`, `Redirected`, `RequestFails`, `RequestTimesOut` are the ends
of one request, `AttemptFails` and `GiveUp` what the retry loop makes of them,
`Settle` the `finally` that lets the waiting go on. A verification is `VerifyCalled`
(the list is asked), `Looks` (the cache, the limiter of unknown key ids) and
`Verified` (the signature, and one more try with fetched keys). `Sweep` is the
refresh timer, `PrewarmStarts` and `PrewarmEnds` the start of the process,
`CacheKeys` the insertion with the eviction of the oldest entry. Time is a clock
that advances only while everything waits. Each verification carries, as history, how
old the keys it waits for may be (`limit`): its own ceiling if it begins the fetch, that of
the fetch it joins if there is one (`Ceiling`), and what the cache allowed when they come from
there.

### EndpointCredentials

A request is at a `step` of the queries its operation makes (`Plan`), and one
action is one query with the code behind it. Every query may be answered, fail, or
be executed with its answer lost, and the code's reaction differs: the
repository turns errors of `findById`, `reactivate` and `updateLabel` into "not
found", swallows those of `deactivate`, and lets an insert's through. The table
row, the server's setting with its purge, and the endpoint's own setting are
shared; what a request found, chose (`client`) or decided (`keep`) before an
await it keeps. A secret is presented to the authenticator, which compares it
with every active credential, or to the token endpoint, which compares it with the
first one of its client id (`LookUp`). If that query fails, the token endpoint passes the error on;
the authenticator swallows it and finds itself not applicable, so that the request is rejected
as with a wrong secret.

### StatsProjection

A request writes (`Write`, `Drop`) and emits its event one await later (`Emit`,
`Forget`); handlers run at once. What a run goes by is the cache of endpoints (`known`): `Forget`
takes an endpoint out behind the answer of its deletion, not at all when that is lost, and
an update puts its endpoint in behind its own (`Update`, `Remember`), be it deleted or not. A run
of `seedFromRepositories` is `Seed` (the
pruning of endpoints that are gone), then per endpoint `ReadUsers`,
`ReadGroups` and `Apply`, which replaces the counters by counts taken two awaits
before. `onModuleInit` and the timer start runs that do not wait for each other. A
failed count skips an endpoint, a restart empties the map.

### GroupPatchEngine and BulkProcessor

`Patched` folds `Applied`, one turn of the engine's loop, over the operations of a
PATCH. What tells two operations apart in the engine is kept: the form of the JSON
value (a list, one member, a string, an object, null, none), the path, and the three
flags of the endpoint that limit adds and removals. Members are values of which
case is forgotten.

A bulk request is a record in `req`: its operations, its results, its map of
bulkIds (`ids`), and the operation it is at (`cur`). `Begin` is the loop and
`executeOperation` up to the first query: references in the path and in the data, the
type, the method. Then each operation makes the queries of the service its type
has (`Queries`), one action each, and any query of the other request comes in
between: a group is read by `Find` and `Listed`, created by `Insert` and `AddMembers`
without a transaction, as in `ScimGroups`. `Writes` has three ends: answered, not
executed, executed with the answer lost. The catch around an operation makes
each of the last two an "error" result, and the loop goes on up to failOnErrors. `half`
and `gone` are history: what an unsuccessful create left, and what was deleted.
Hard deletes are enabled and If-Match is never required in the runs.

## 4. Runs

| run | question | result |
|---|---|---|
| `mutex` | four calls, two keys, functions that return or throw | exclusion, exact map, first-come-first-served refinement, every call settles |
| `endpoints` | any three of nine admin requests on one endpoint, warm and cold cache, one database failure | acknowledged adds and removals of methods stand unless an unlocked request raced them (`MethodChangesStand`); a flag stands unless its window was overlapped; deactivation always stands; the cache agrees at rest unless windows overlapped; a deleted endpoint stays deleted; everybody is answered |
| `endpoint_toggles` | do two toggles of different flags both survive? | **no** (finding) |
| `users` | any three of nine requests, three configurations, one failure | ETags identify contents, no lost update without overlap, If-Match holds without overlap, refinement of `ResourceStore` |
| `groups` | any three of ten requests on two groups and two still to be created, a user deleted at any time, two configurations, one failure | acknowledged changes stand unless they fell into another request's window; links follow the users; ETags identify representations (two at the version of a create in two writes); equal names only after a race; events count the groups; refinement of `ResourceStore` |
| `logs` | six rows, buffer of two, cap of four, two failed inserts, one force-flush, shutdown at any time | order, no silent loss; a force-flush that returns in time leaves its caller's rows in the table but for those the cap dropped and counted; a shutdown leaves exactly the rows recorded after it began, unless it met a running or failing flush; rows are written without further traffic unless a flush was missed |
| `jwks` | two verifications, one beside a change of the list, or two changes of the list; a provider that answers, redirects, fails or hangs | one fetch per URI, no keys past the ceiling of the fetch that brought them, rejection only on fresh keys, the list follows its table, every verification ends |
| `jwks_deadline` | does a fetch end at its deadline? | **no** (finding): each hop of the last attempt gets the attempt's whole span |
| `credentials` | any three of nineteen requests, four states of the first client, one failed query or lost answer | a revoked secret is refused, one that was given out is accepted unless its own lookup failed or its client id branched, nothing is kept under `once` unless a secret was in hand during the purge, a replaced trust stands unless an older verification wrote it back |
| `stats` | any two of eight requests beside two overlapping runs, a failed query, a lost answer or a restart | counts exact at rest unless an overlap is on record; every drift of users and groups repaired by a later run, and removed endpoints no longer counted unless the cache still lists them |
| `bulk` | any two of eleven bulk requests at a time, failOnErrors absent, 1 or 2, two configurations, two failed queries or lost answers | references mean what the results told the client, the results tell the table except for a half-made group, failOnErrors stops at the last allowed error, the members of a patched group are those the operations asked for |
| `bulk_unresolved` | is a reference that no POST resolved refused? | **no** (finding): not while the request has set no bulkId |

Some questions are asked under one name only. That displayName is unique, that
If-Match protects a write, that every secret that was given out is accepted, that
every row is written without traffic, that a force-flush makes durable what it found and a
graceful stop writes every row, that a policy's ceiling bounds its keys, that a removed
endpoint is forgotten are statements that do not hold without exception; the exceptions are
part of `NamesUniqueUnlessRaced`, `IfMatchHoldsUnlessOverlapped`, `IssuedSecretAccepted`,
`RowsWrittenUnlessMissed`, `FlushPendingDrains`, `ShutdownDrains`, `KeysUnderCeiling` and
`DriftIsRepaired`. The property then says that there is no other exception, and a mutant
shows that a bug can break it; the race in the exception itself is not caught by it, and the
`note` of the hazard says so.

The type invariants are theorems (section 5) and no run repeats them: of the lock,
endpoints, credentials, users, groups, log buffer, key cache (with the host list) and
statistics; that of bulk requests is a part of `BulkInv`.

The properties of `endpoints`, `users` and `groups` say exactly which overlap loses what. They
use a history variable, `raced`: for each request, the requests that had read and
not yet written when it wrote. `credentials`, `stats` and the allow list record in
the same way what excuses a deviation: `branched`, `late` and `lapsed`; `drifted` and
`uncounted`; `crossed` and `missed`; `lingering`, `asked`, `limit` and `excuse`. No step of the
system depends on them. Where
a document makes the unconditional statement of a thing that is otherwise unwatched, a run
of its own ends in the violation, and `PROJECT.json` quotes the document under
"findings"; where the violation is the exception of a property, section 6 quotes the
document beside it.

### Bounds, and why they are enough

* Mutex: an overtaking needs a holder, a waiter and a newcomer; four calls also
  give two queues at once and a key that empties and fills again.
* Endpoints and users: each race here is between two requests, the third is a
  victim or a later reader. All multisets of operations are explored (`Sorted`
  keeps one ordering of each, as requests differ by nothing else); in
  `endpoints` only `add` may occur twice, being what the lock has to serialise.
  One endpoint and one id still to be generated share one name, so a create has
  to wait for the delete. Two users and a third userName let a create, a PATCH
  and a PUT compete for one name. One failed query is placed at every await.
* Groups: the lost member, the equal names and the create that is interrupted
  between its writes each take two requests; the third one deletes, reads
  between, or reuses. One member is a user and one is not, which is all a link can
  tell apart. Each operation occurs once, except that a group can be deleted twice.
* Log buffer: a buffer of two and a cap of four make the cap bite with six
  rows, and two failures let a requeued batch fail again with newer rows behind
  it.
* JWKS: one URI, as URIs share nothing but the eviction, which the cap of one
  entry brings about together with refreshes; two policies, so that who joins a
  fetch may have a stricter one than who started it; two generations of keys,
  two kinds of token (with and without a key id). Three instances in one initial
  predicate: two verifications; one beside the removal of the host to
  which the provider redirects; two calls that overlap, without a trust.
  `MaxTime` 2 lets a lifetime, the ceiling and the interval of the limiter pass;
  a fetch under way may go on beyond it. One redirect, one sweep of the refresh
  timer and one failed query.
* Credentials: nineteen tasks on a client, a trust and what the first request
  creates; a race here is between two requests, and the third presents a secret
  or revives one. Four first rows: no client, an active, a revoked one, one
  of which nothing was kept.
* Statistics: any two of eight tasks about the same kind of resource, or with
  the deletion of an endpoint (an update of one matters beside that only); two endpoints, so that
  one can be removed while the
  other is counted; two runs, so that they overlap.
* Bulk: the eleven plans are the combinations that the documents and tests show,
  of up to three operations: references backwards and forwards, to what fails, to
  what is deleted, a bulkId given twice, two requests that use the same bulkIds and
  compete for a name and for a group, every verb on members, a type that is not
  served and a method that does not fit its path. Two failures are needed to lose
  an answer and fail again in the same request, and to reach the limit of 2.
* `MaxFailures` (`MaxDbFailures`, `MaxFaults`), `MaxRows`, `MaxTime`,
  `MaxSweeps`, `Seeder`, `Slot` and the finite `Request` are the only bounds; they
  are in the guards.

### Fairness

* `MutexFairness`, `EndpointStore!Fairness`: a settled promise is resumed by the
  event loop, and a query settles (the database answers, or the pool's timeout
  rejects). Clients need not send a request.
* `RequestLogBuffer!Fairness`: an armed timer fires, an insert settles, a
  force-flush goes on or reaches its deadline. No fairness on requests, on
  force-flushes or on shutdown. `RowsWrittenUnlessMissed` therefore holds only
  up to `missed`: after a flush that did not run, or an insert that failed,
  nothing but later traffic moves a row on.
* `ExternalJwksValidator!Fairness`: time passes, timers fire, the process goes on
  with what is due, and the start of the process ends. That a provider answers, a
  client calls or an administrator's query returns is not assumed:
  `EveryVerificationEnds` has to come from the abort signal and the bounded retries.
* `StatsProjection!StatsFairness`: the timer fires, every query of a run ends, and a
  request whose write was answered reaches its event, or its change of the cache.
* `ScimUsers`, `ScimGroups`, `EndpointCredentials` and `BulkProcessor` have safety
  properties only: each request there is a chain of queries without a loop that waits.

Deadlock is checked in every run; the `Done` disjuncts are the states in which
every request has been answered, or the server has stopped.

## 5. Proofs

For every value of the constants under the named assumptions of the modules:

**KeyedMutex_proofs.** `MutexInv` adds to the type invariant that the live calls
of a key form one chain: no two of them have the same predecessor, a
predecessor belongs to the same key, only one of them has nobody live before it,
and the tail of the map is the one nobody waits for. Exclusion alone is not
inductive: that `Start` of one call finds no other running call follows from
there being at most one call without a live predecessor. Results:
`MutexTypeCorrect`, `MutexExcludes`, `MutexMapExact`.

`ServesInOrder` is the safety part of the refinement of `FifoLock`. The abstract queue is
*the* sequence that satisfies `InOrder`, so the proof needs that there is one and only
one. It exists because each step leaves one: `Enter` appends, `Finish` drops the
head, which is the one in its function, as nobody before it is live. It is unique because two
such sequences would differ at a least place, where the predecessor of both calls is
the same and the chain has no fork. No recursive function over the chain is needed.

**ScimUsers_proofs.** `UsersInv`: a row has the last version its id was given,
every representation in `history` has a version no larger than that, two of one
user have two versions, userNames are unique, and a request that has found a
row refers to an id that was created. Results: `UsersTypeCorrect`,
`EtagsIdentify`, and `UsersImplementStore`: each step of the service is a step
of `ResourceStore` or changes nothing there (`InitImplements`,
`StepImplements`). `OverlapInv` adds what a write without overlap leaves: it is in the
row, and in the row of everybody who found it later and will write it back
(`WriteStands`); and while nobody has written since r's find, the row is the one that
was compared with If-Match (`MatchStands`). Neither is inductive without `raced`
being empty before the commit and a written id never being created again. Results:
`NoUpdateIsLost`, `IfMatchHolds`.

**ScimGroups_proofs.** `GroupsInv`: from the moment the members are resolved, the
links a request carries are members to be and include all of those that are
users still, since users only disappear in between; the foreign key refuses the
rest, hence `LinksFollowUsers`. The representations in `history` are bounded by the
row's version, as for users. That is not enough for the ETag: the second write of
a create adds a representation at a version that exists, so the invariant also
says that this version has had a single representation while the create goes on
(`OneWhileCreating`), which needs the ids of creates to be distinct and theirs
alone (`FreshIds`, `NotYetInserted`) and no member rows without a group
(`NoOrphans`). Results: `GroupsTypeCorrect`, `LinksFollow`, `GroupEtagsIdentify`,
and the refinement `GroupsAreStore`.

For overlapping writes, `RacesInv` follows the change of a request r. A row and a
list read after r wrote show the change, and so does what is computed from them, unless
it asks for another change of the same thing (`ChangeStands`, `WritesOther`). A
create has two writes, so before its second one nobody has changed its group and gone
unrecorded (`CreateStands`, `WroteGiven`). For the names: between r's check and r's
write, a group can only get r's name from a request that wrote while r was open,
and that has r in `raced` (`NamesPending`). One lemma shows what all
writes have in common (`WriteKeepsRaces`), one what all other steps have
(`QuietKeepsRaces`). `FirstNamesUnique` is the assumption that the tables start
without a conflict. Results: `ChangesStand`, `NamesHold`.

`EventsInv` is a ledger of the events of each id. In every state, the announced
number and the table differ by the creates that have inserted their row and not replied
(`ToldLate`) and by the deletes that have taken the group and not replied (`Taken`), of
which there is at most one each, since an id is created by one request and a row
can be deleted once (`TakenOnce`); or by a request on record as one that never told
(`Lost`). At rest nobody is on the way, and the exceptions of the property remain. Results:
`EventsInvariant`, `EventsCount`.

**EndpointStore_proofs.** `StoreInv`: what a request holds at each place of its code
(`InHand`); an id that has or had a row was given out and is not given out again
(`GivenOut`), so that a deleted endpoint stays deleted; a committed update
of the columns is what the row has, as every other write takes the columns of the
row (`ColumnsStand`); a committed flag is in the row and in every profile that
was read after it and will be written over it (`FlagStands`). Results:
`StoreTypeCorrect`, `DeactivationHolds`, `FlagHolds`, `DeletedHolds`. No write trusts the caches,
so they occur in these proofs by their shape only.

`PlaceInv` relates the requests to the lock: whoever is beyond the door has a place in
its chain, whoever is in the section is the one whose turn it is. The lock is
`KeyedMutex` under a mapping of the program counters (`LockRefines`), so
`KeyedMutex_proofs` is instantiated and its invariant, hence exclusion, is cited and not
proved again. On that rests `MethodsKept`: a method whose add was committed is in the row,
in every block that somebody in the section is about to write, and in every profile that
an unlocked request has read since, unless its removal was asked for or the unlocked
write is on record in `raced`. `MethodsBorn` keeps methods of creates still to come out of
the rows. For the caches, `CacheFollows` says of each id whose writes did not overlap:
what the cache holds is the row, or somebody between a query and its `Apply` is about to
make it so (`WillMend`) or holds an answer as old as the cache's (`Blind`); `Alike` says
that the rows of an id have one name wherever they are held, `ByName` that an entry by
name is the entry by id. Results: `PlacesHold`, `LockRefines`,
`MethodChangesHold`, `CacheAgrees`. The model leaves out that a name may look like
the uuid of another endpoint, which `endpoint.service.ts` would look up by id first.

**EndpointCredentials_proofs.** `CredInv`: each credential is inserted at most once and
by the request it is named after; what a request found before an await is a credential
that is still there, of the same type (`FoundStands`); a credential that was retired and
not revived is inactive (`RetiredAreOff`); the trust somebody found and will write
back is the last one written, or the write in between is on record (`FoundTrust`); while
the server shows secrets once, nobody who decided after the purge is about to
keep one (`NobodyKeeps`). The plans of queries enter by what their order guarantees
(`Ordered`), so that no step looks at an operation's list. Results: `TypeCorrect`,
`RevocationHolds`, `TrustHolds`, `OnceHolds`.

`IssuedSecretAccepted` speaks of client ids, which a rotation hands from one credential to
the next. The invariant is one of lineage (`BranchInv`): of the credentials that share a client
id at most one is current; every other one was rotated from, and is retired or about to be
by the rotation that inserted its successor (`Superseding`); a request that is about to
insert hands out an id nobody has, or the one of the credential it found, which is then the
current one. A client id on which two requests met (two rotations, two creates
without an id, a reactivation, a rotation on a rotation that had not ended) is in `branched`, and
the invariant says nothing of it. The property follows as `LookUp` then has only one
active candidate. The theorem is about answers: of whom it finds rejected it shows that the
credential was
leaving, the lookup had failed, or the id had branched, for the 401 behind a swallowed
error is an answer like any other. Results: `LineageInvariant`, `AcceptanceHolds`.

**Monitoring_proofs, the log.** `LogInv`: the rows in memory are the interval that
ends with the last recorded row, every other row is in the table or counted, the
batch is non-empty exactly while an insert is in progress, where a force-flush
is bounds what may still be in memory, rows of its caller that are neither stored nor in
memory have been counted since its call, and after shutdown began no timer is
armed and no insert starts, so that the buffer keeps all that is recorded from then on. Results:
`LogTypeCorrect`, `RowsStayInOrder`,
`NothingIsLostSilently`, `ForceFlushDrains`, `LastFlushDrains`,
`ShutdownStaysOneWay`.

**Monitoring_proofs, the counters.** `StatsInv` is a balance. For each endpoint and kind the
counter plus the events that will still raise it is the number of rows plus the events that will
still lower it (`Told`, and `ActiveTold` for the active users), unless a race has spoilt the
count since the last clean one (`Balanced`). The equality of the property alone is not inductive:
it says nothing while a write is unannounced. A write moves one row and adds one event
(`WriteTold`, `WriteActiveTold`), which balances only if the row still has the status that
was found; an event moves the counter and is gone (`EventTold`), which balances only if the
counter was not at zero. Applying a count needs `Fresh`: what a run has counted, and no write of
the kind has made old since, is what is in the table, with no event to come. `Placed` makes the
removal of an endpoint safe: its event changes no counter of an endpoint that is left, whatever
the cache of endpoints still lists. The counts are
cardinalities, so the tables and the set of requests with an event to come must be
finite (`FinitelyMany`, from `FiniteAssumption`), and a run finds the endpoint it goes on with
by the well-foundedness of finite subsets (`NewestIsLeft`). Results: `StatsInvariant`,
`StatsTypeCorrect`, `CountsExact`. The module holds the theorems of two components, which share no
state; to stand side by side, `StatsProjection` names its parts `StatsInit`, `StatsNext`,
`StatsSpec`.

**ExternalJwksValidator_proofs.** Every step of the whole is a step of the allow
list or leaves it alone (`StepIsListStep`), so the list is proved by
itself. `ListInv`: unless reloads crossed, at most one call holds an answer it has
not applied; unless a call was missed, the copy or that answer is what the
table holds, apart from calls that still have to reload; before the boot nobody
writes. `JwksInv` has three parts. `FetchInv`: a fetch under way is in the map of
fetches, with some policy, which alone makes `Start` safe. `CacheInv`: an
entry lives as long as the policy allows that fetched it. `ReqInv` follows who waits: the fetch it
waits for is still in the map, and the verification knows its ceiling, since a fetch keeps its
policy to its end (`FetchStepKeepsWaits`, `StartKeepsWaits`); so the keys `Settle` hands
over are within it. The keys a verification has in its hands are usable now; this is inductive
only because `Tick` needs that
nobody is about to verify, which is the absence of an await between having keys and
using them. For `RejectedOnFreshKeys` the invariant
(`TriedOnce`) is about the second try: whoever has had keys fetched holds keys
from after its own beginning, or is excused by the limiter or a failed fetch. A fetch that
was joined under way ends after the verification began, which is what makes its keys fresh.
`ShapeInv` completes the type invariant. The backoff is a power of two, of which the provers know
nothing but that it counts the subsets of a set (`PowersAreNumbers`); and a slot is free when
a fetch starts because a URI without an entry in the map has no fetch (`FetchInv`). Results:
`AllowlistFollows`, `JwksTypeCorrect`, `JwksInvariant`, `OneFetch`, `KeysStayUnderCeiling`,
`RejectionsAreFresh`.

**BulkProcessor_proofs.** `PatchedAsAsked` is about the group engine alone: after a PATCH of
any length that succeeds, a member is in the group if the last operation that speaks of it adds
it, and if none does, when it was there before. The fold is over a set of indices, and
the library's induction takes an operator as parameter; the module goes another
way: `IsFold` describes the fold as a function on the subsets of the domain, `FoldExists` and
`FoldsAgree` show by a least counterexample (`SubsetInduction`, a set of subsets closed under
one more element contains all) that there is one such function and only one, and the
statement about members then goes by induction over the prefixes.
`BulkInv` says where a request is: the map of bulkIds is what the results tell (`IdsTell`),
the operation in work is the one at its index with the references resolved by these results
(`Going`), its remaining queries are the rest of its service's plan (`Stages`), and a
row exists exactly for the creates that succeeded, were left half made, or are between their
two writes (`Made`). Every query is shown once to be a `Turn` of its request and a change
of `Table` it may make; invariant and properties look at these two only. Results:
`BulkInvariant`, `ReferencesMeant`, `ResultsTell`, `Stops`, `MembersAsked`.

Two attempts failed because the property was wrong, and held in TLC's instance for want of
the case: `MethodChangesStand` did not take every removal into account that was asked for,
and its run had no removal of a method that was there from the start;
`IssuedSecretAccepted` missed that a rotation may start from a credential whose own rotation
has not ended. Both are corrected, and both runs now have the requests that tell the
difference.

Only model-checked: everything temporal under fairness (`EveryCallSettles`, the fairness of
`ServedInOrder`, `EveryRequestEnds`, `RowsWrittenUnlessMissed`, `EveryVerificationEnds`,
`DriftIsRepaired`), which is beyond the prover.

## 6. Observations

A document of the repository says more than the code does in the following cases. What happens
is the exception that a property names, so the property holds and its run is no
violation:

* `flushPending` promises that "on return every entry buffered before the call is durable +
  queryable" (`logging.service.ts:450-452`). While inserts fail, the cap drops the oldest rows
  (`:423-426`), those of the caller first, and the call returns when the buffer is empty.
  `FlushPendingDrains` allows what was counted as dropped since the call, and nothing else.
* Of a row recorded once shutdown has begun, `logging.service.ts:362-365` says that "the entry still
  lands in the buffer, and onModuleDestroy's final flush drains it". The hook sets the flag and
  takes the buffer without an await in between (`:481-495`), and every later flush returns at once, so
  such a row stays in memory and is lost, uncounted. `ShutdownDrains` says that these, and no
  others, are left behind, unless the flush met a running one or an insert failed.
* `JwksStaleIfErrorMs: 0` means "any failed refetch fails closed"
  (`docs/auth/W1_4_JWKS_CACHE_CADENCE.md:82`, `egress-policy.ts:118-119`). A verification that joins a
  fetch begun under another policy (the server's refresh, the prewarm, another endpoint with the same
  URI: `external-jwks-validator.service.ts:385-390`) gets what that policy's ceiling allows when the
  fetch fails (`:442`), and keys served from the cache live by the maxAge of whoever fetched
  them. `KeysUnderCeiling` bounds each verification by its own ceiling when it fetches
  itself, and by that of the fetch or entry it shares when it does not.
* The reconciliation is there "to correct any drift from missed events" and to "remove stale endpoints"
  (`stats-projection.service.ts:187`, `:215`). It lists endpoints from `EndpointService`'s cache
  (`endpoint.service.ts:557-560`). If the answer of `endpoint.delete` is lost, `cacheDelete` is
  skipped (`:866-870`), a repeated DELETE ends with 404 at `:862`, and the endpoint stays
  listed, with zero users and groups, until a restart; a `cacheSet` that comes after the
  removal (`:676`) does the same. `DriftIsRepaired` says what such an endpoint is
  counted for, and that no other removed endpoint is counted.
* If-Match is compared with the row that was found (`enforceIfMatch` at
  `endpoint-scim-users.service.ts:261` and `:324`), and the update goes by id alone (`:267`,
  `:356`): a write between the two is overwritten although the client named the
  version before it. `scim-service-helpers.ts:141-142` promises the check "before the
  write", and `docs/ENDPOINT_CONFIG_FLAGS_REFERENCE.md:574` that `RequireIfMatch` prevents
  concurrent modification. `IfMatchHoldsUnlessOverlapped` has this as its exception.
* Two creates of an `oauth_client` at a time that give no client id both find no
  client and take the default one (`admin-credential.controller.ts:504`; the comment at
  `:498` speaks of avoiding a collision). The token endpoint then tries one of the two
  secrets: `branched` in `IssuedSecretAccepted`.
* `purgeRetainedSecrets` for one endpoint is never called, although
  `docs/ENDPOINT_CONFIG_FLAGS_REFERENCE.md:164-165` and
  `docs/CONNECTION_INFO_AND_ENTRA_SETUP.md:1224-1228` say that a flip of the endpoint's
  flag purges that scope. Only the server's setting purges in the code, hence in the model.
* With `PatchOpAllowRemoveAllMembers` on, `remove` with the path `members` and an empty list,
  or a value that is not a list, empties the group; `docs/PATCH_OPERATIONS_COMPLETE_GUIDE.md`
  (6.6) speaks of the form without a value only. `remove` of `members[value eq "x"]`
  succeeds when nobody matches, where section 5 there says 400 `noTarget` of
  value paths. And a removal by list compares values by case
  (`group-patch-engine.ts:426-432`), one by filter does not (`:441-446`).

What the models made visible and no document denies:

* A lookup of credentials that fails is answered like a wrong secret: the authenticator swallows
  the error and finds itself not applicable (`endpoint-credential.authenticator.ts:131-137`), and
  when no other authenticator accepts, the guard answers 401 `invalid_token`
  (`shared-secret.guard.ts:197-210`) to a valid secret. `IssuedSecretAccepted` has this as its
  excuse `failed`. At the token endpoint the same failure is an error of the server.
* A revocation and a rotation answer success although the repository swallowed
  the error of the deactivation (`admin-credential.controller.ts:642`, `:949`);
  `RevokedIsRefused` therefore speaks of deactivations that reached the table.
* Two rotations of one credential, or a rotation and a reactivation of the old one,
  leave two active secrets under one client id, of which the token endpoint
  tries one.
* The counter of generic resources starts from zero after a restart, by
  design (`stats-projection.service.ts:228`), and is never counted. A deletion
  that is announced before its creation meets zero and leaves it one too high for ever
  (`:127`); for users and groups the next run repairs it.
* `GROUP_STATUS_CHANGED` has a handler and no emitter.
* An insert of log rows that was executed and whose answer was lost puts the batch
  back (`logging.service.ts:406`) and stores its rows twice. The model's failing insert
  stores nothing: `RequestLog` has no key by which the two could be told apart.

## 7. What is not modelled, and why

* The in-memory backend: a repository operation there has no await inside and
  takes effect at once. The modules describe the Prisma backend.
* Validation, PATCH paths, filters, projections, profile expansion, discovery:
  pure functions over JSON. Requests they refuse end before any write.
* Cryptography, token formats, HTTP, logging text, the web UI (half of the
  repository's implementation lines), deployment.
* A cold cache of endpoints in `StatsProjection`: a failed warm-up
  (`endpoint.service.ts:210-235`), after which the first lookups and `listEndpoints` fill the
  cache from the table (`:528`, `:573-587`), and creates of endpoints. There, what a
  run lists may also be less than the table holds. `EndpointStore` has the cold cache.
* Several replicas: the code keeps its lock and caches per process and documents
  one process; the modules describe that.

## 8. Plan

Done: keyed lock, endpoint registry, users, groups, log buffer, JWKS cache and
allow list, credentials, statistics, bulk requests and the group patch engine (sections 3
to 5), each proved as far as section 5 says.

Left, in this order:

1. Extensions: If-Match on endpoints, uniqueness of custom attributes, generic
   resources as a second instance of `ResourceStore`, lost answers of the log's insert.
2. Theorems: every safety property of the runs has one; what the extensions add is to be
   proved with them.
