# A verification project for concrnt-playground

concrnt-playground is one server of a federation: it keeps documents signed by
their authors as *records* under `cc://owner/key` URIs, distributes them to
collections (timelines), announces them to websocket clients and reads the
timelines of other servers. This directory holds TLA+ modules translated from its
source, TLC configurations that check them on small instances, and proofs that
TLAPS checks for all instances. Paths below are relative to the repository.

## The system

| part | source | state | operations | modelled in |
|---|---|---|---|---|
| Record repository, usecase | `internal/infra/repository/record.go`, `internal/usecase/record.go`, `internal/infra/database/models` | tables `commit_logs`, `commit_owners`, `records`, `record_keys`, `associations` | commit (create, associate, delete, ack), get, get signed, query | `RecordRepository` over `Postgres`; `Query` over `DocumentStore` |
| Signal service, `/realtime` | `internal/service/signal.go`, `handler.go:415-515` | goroutines, channels and contexts of a connection | publish, subscribe, listen, close | `Realtime` |
| Chunklines | `internal/infra/repository/chunkline.go`, `internal/infra/gateway/chunkline_gateway.go` | manifest cache | manifest, iterator, body | `Chunkline` |
| Client and lookup | `client/client.go`, `internal/infra/repository/entity.go`, `server.go` | cache, tables `entities`, `servers` | find an entity, a server, a resource; register | `Resolver` |
| REST handlers | `internal/present/rest` | none | entry points of the above | requests of the modules above |
| Policy | `policy/` | the conclusion so far | evaluate a condition, a document; sum documents up | `Policy` over `PolicyExpr` |
| Authentication | `internal/service/auth.go`, `middleware/auth.go`, `jwt/` | none | check a token | no |
| CDID | `cdid/` | none | make ids | no |
| URIs, tags, cryptography | `utils.go`, `tag.go`, `crypto.go` | none | conversions | no |
| configuration, wiring, types, ordered key-value | `cmd/`, `internal/infra/config`, `schemas/`, ... | none | start-up, formatting | no |

How they interact: a handler calls a usecase, which calls a repository. `CreateRecord`
runs a database transaction, calls itself for each collection the document is a
member of (in a *second* transaction, while the first is open), and publishes the
event to Redis before its own transaction commits. Redis hands the event to the
`Subscribe` goroutines of all connections that listen. A timeline page is fetched
through the gateway, which asks the client for manifests, iterators and bodies, from
this server or another; the client finds servers by domain, server id or entity id,
by calling itself. Everything runs concurrently; what is shared is PostgreSQL, Redis
and the client's and the gateway's caches.

What is hard about it: interleavings of statements under READ COMMITTED, where a
`SELECT ... FOR UPDATE` of a row that does not exist locks nothing; a transaction
nested in another one of the same request; cascades of foreign keys; cancelled
requests and a crash between two commits; unbuffered channels that one side closes;
preloads that are statements of their own; caches; recursion through a network.
`PROJECT.json` lists each such place with its line and the properties that watch it.

## Modules

**`Postgres`** is what the repository relies on in PostgreSQL (external, not part of
the repository): a row as a cell with its committed version, one version in progress,
its writer, and the transactions that hold it (`FOR UPDATE`, an update) or share it
(`FOR KEY SHARE` of a foreign key check). A statement that finds a conflict waits
until the other transaction ends.

**`RecordRepository`** has one action per SQL statement. The variables `commitLog`,
`record`, `recordKey`, `association` are the tables, indexed by document, by document,
by URI and by unique hash; `drawn` is the sequence of row ids; `tx[t]` holds the local
variables and the program counter of transaction `t`; `published` the events sent. A
request `p` has the transaction `Main(p)` and, while it distributes, `Ref(p)`.
`InsertCommit`, `InsertRecord`, `LockKey`, `Climb` (the recursion of
`getOrCreateParentRecordKey` upwards), `Plant` (its inserts on the way down), `Point`,
`FlagOld`, `DropOld`, `Distribute`, `Publish`, `Commit` are `CreateRecord` in order;
`FindTarget`, `InsertAssociation` are `CreateAssociation`; `FindById`, `FindKey`,
`FindRecord`, `FindCommit` the reads; `DeleteCommit`, `DeleteRecord`, `DeleteKey` the
delete and its cascades. `Fail`, `Rollback`, `CommitFails`, `Cancel`, `Crash`,
`DeadlockAbort` are the error returns, a COMMIT that fails by itself, the cancelled
request, the dying process and PostgreSQL's deadlock detection; `Faults` says which of
them may happen. Documents, URIs and references are model values: `Home` gives the URI a
document is keyed at, `Parent` the parent URI, `MemberOf` its collections and
`Item[<<c, d>>]` the URI of d's reference in collection c.

**`RecordInvariants`** states the properties; **`DocumentStore`** is the abstract
specification: a map from URIs to live documents, with the sets of stored, retired
and listed ones, changed by `Put`, `Keep` and `Erase`. It is implemented under the
mapping `Store` of `RecordInvariants`: one abstract step for each commit of a
transaction, a stutter for any other step.

**`Realtime`** is one websocket connection. `reader` is the goroutine at
`handler.go:453-497`, `handler` the rest of `handleRealtime`, `loop`
`SignalService.Realtime`, `subs` the `Subscribe` goroutines in the order they were
started. A send and a receive on an unbuffered channel are one action (`Listen`,
`TakeEvent`, `Respond`, `Quit`); the defers of the handler are `CloseChannels`,
`CloseSocket`, `Leave`, and a send on a channel closed by them sets `panicked`. No write
has a deadline (handler.go:503-512): a client that stalls keeps `Write` waiting, for ever
if it never takes anything in again. `cancel()` reaches the subscription of the last
listen alone (`LastCancelled`).

**`Chunkline`** is one timeline and one reader fetching a page: `Open`, `FindFirst`,
`PreloadFirst` resolve the manifest (or take it from the cache), `LookupItr` asks for
the iterator, `LoadNewest`, `PreloadNewest`, `LoadAll`, `PreloadAll` are the
statements of `LoadLocalBody`. `Start`, `List`, `Remove` write and remove records
between any two of them; a tick of the clock is a fraction of the 600 seconds of a
chunk. `steady`, `removed` and `torn` are history: what was listed all the while, what
was removed, and whether the last of the newest members was removed between its query
and its preload.

**`Resolver`** is the client with the entity and server repositories before it. A
request is a stack of frames, each with its function, arguments and program counter;
a step runs the innermost call to its next call, HTTP request or return. Nothing another
server answers is checked by the code (client.go:185-190, entity.go:78-93), so it answers
anything: about one id with another one, with any domain or with what is none, late, or
not at all. Nor is the document that registers an entity (entity.go:24-57): those of
`Posted` are posted in any order and again. `heard` is history: what there has been to hear
of the id a request is for, and `raced`: who was getting an entity while it registered.

**`Query`** is `GET /query`. A reader runs the three statements of
`RecordRepository.Query`, `FindKeys` (the join with its conditions, order and limit) and
the preloads `LoadRecords` and `LoadDocuments`; before and between them the store moves
by the steps of `DocumentStore` (`Write`), which `ImplementsDocumentStore` shows to be
what the transactions of `RecordRepository` amount to. A record's date is drawn when it
is listed, in any order, because `CreateRecord` takes it before its transaction. An answer
is the set of the documents in it, the code's map by URI: the order a query asks for only
decides what the limit keeps. `reader.moments` and `reader.gone` are history.

**`PolicyExpr`** evaluates conditions as `Eval` and the six operators do: with Go's types
before contents, errors that end an evaluation, and panics where the Go runtime refuses
to compare. `Eval` is a recursive function over a set `Expr` of expressions that is closed
under arguments; `Depth` says how deep each is, which is what makes them trees, and `Value`
is the closed set of what they may hold. `Subexpr` follows only the arguments the code
evaluates: it never looks at those of a constant. **`Policy`** goes through statements and documents: `Statement`, `Passed`,
`Emitted`, `Panics` are the loop of `EvaluatePolicy`, `EndDocument` its return, `Answer` is
`SummerizeConclusion` with either default. The documents are not given in advance: the
next statement may always be any one. `held` and `heldBefore` are history, what the
statements that held emit.

**`RecordIntegrity`**, **`RecordRefinement`** and **`RecordTree`** state the inductive
invariants of the repository: what each transaction has written so far, at which
statement it is by then, and which row lock protects what it relies on; the last one adds
who may touch which part of the tree of URIs. The modules **`*Proofs`** hold the
theorems, one module for each component and, for the repository, one for each of these
three.

**`MC*`** modules give the constants values; each `.cfg` is one run.

## What is checked

| run | instance | what it shows |
|---|---|---|
| `Supersede` | three requests, any of three documents of one key, its key planted; failing publish, failing COMMIT, cancel, crash | a document that is replaced has no record and a flagged commit (`SupersededIsRetired`); the tables implement `DocumentStore` also when a replaced document is committed again; an event about a document that is not stored is owed to a creation still committing, a fault or a delete (`AnnouncedUnlessFault`); a request answered ok has done what it says, in the step that answers (`AnsweredTruly`) |
| `Delete` | three requests that replace, annotate, read, delete a record and its parent; cancel, crash | keys resolve, associations hang on their very target and go only with it, the tables implement `DocumentStore`, what is answered ok has been done, every request is answered (deadlocks are resolved by PostgreSQL) |
| `DistributePlanted` | distribution to collections whose parents exist | an acknowledged document is in every collection it names; every request is answered |
| `DistributeFaults` | the same with failing publish and COMMIT, cancel and crash, and parents to be created | types; parent ids belong to the parent path (`KeysBelong`) and are current (`Attached`); a reference dangles only while its creator is past its last statement, or after a failed publish or COMMIT, a cancel, a crash or a delete (`DanglingOnlyAfterFault`); no wait that PostgreSQL cannot see |
| `Realtime` | two events, two listens to any of two overlapping prefixes, a client that may stall, go on, send nonsense or leave | what the client is sent, per listen, is in order and never more copies than patterns (`WrittenFaithfully`); the process stops only over an event of this connection (`PanicNeedsEvent`); a listen is taken (`ListenTaken`) and ends the subscription before it (`SupersededEnds`), unless the client stalls for ever; the loop ends (`LoopEnds`); which goroutines a connection leaves behind (`ConnectionSettles`) |
| `Chunkline` | three records, limit 2, chunks of two ticks, three chunks | a page leaves out no record that was listed all the while (`PageComplete`), makes nothing up (`BodyTrue`), a cached first chunk cuts nothing off but what was being written (`FirstChunkSound`), and the iterator names a later chunk only at the instant two chunks share (`IteratorNearby`) |
| `Resolver` | two entities, two domains, a server id, two requests of nine kinds, registrations of one entity with either of two documents, again and again; other servers answer anything, an id for a domain included | no call within itself (`NoCallWithinItself`); a request for an id goes to a domain told of that very id and not forgotten since (`RequestGoesWhereTold`); a registration is replaced by another one, by a lookup that was under way, or by an answer about another entity that names it, never by a later lookup (`RegistrationLasts`); every call returns but one never answered (`EveryCallReturns`) |
| `Query` | six kinds of queries over four documents of three URIs, dates that may be equal, three commits or deletes | the answer is what one statement at some moment of the query would have given, complete up to its limit (`AnswersOfOneMoment`); a query fails only over a found record that was replaced or deleted meanwhile (`FailsOnlyOnChange`) |
| `Policy` | 178 conditions up to four operators deep; two documents, three statements that hold, any number that do not | an unopposed strong word stands whatever surrounds it (`StrongestStands`); a yes or no has its reason (`AnswerEarned`); And, Or, Not agree with their truth tables (`LogicSound`); one failing part fails the condition, without short-circuit (`ErrorsAreWhole`); only lists or maps that meet under Eq or Contains panic (`PanicsOnlyOnCollections`) |

Three runs end in a violation and are the findings:

* `FirstCreateRace`: of two *first* commits of one key, the second upsert replaces a
  row its `FOR UPDATE` could not lock (record.go:118), and the first document keeps its
  record and its unflagged commit, against the comment at record.go:155. `Supersede`
  shows that this cannot happen once the key exists.
* `RecreatedParent`: the key of a parent is deleted, its child stays (`ParentID` is no
  foreign key, core.go:24). A replacement of the child finds no parent, makes it again
  under a new id, builds its key with that id (record.go:127-144) and is answered ok; but
  the upsert of a key that is there writes `record_id` alone (record.go:146-148), and the
  key keeps the id of the deleted row, in no listing of its parent.
* `DistributeUnderOneParent`: the nested `CreateRecord` (record.go:202) needs a parent key
  the outer transaction has inserted: it waits for the outer one, which waits for it in the
  program. `DistributePlanted` and `DistributeFaults` show that this is the only way.

Three more things the models show that contradict no statement of the repository, and
are therefore part of what the properties allow: a document that is replaced and then
committed again is live and stays flagged as a garbage candidate (record.go:156;
`Put` of `DocumentStore`); a record dated the very first instant of a chunk belongs, for
the iterator, to the chunk before, too (chunkline.go:84, 91; `IteratorNearby`); a policy
whose documents add up to OK alone is answered no even if the default is to allow
(functions.go:19-22; `AnswerEarned`).

**Bounds.** Three requests are what it takes for a third one to come between two that
conflict; every pair of statements of two requests interleaves in every order. One key,
or one key and its parent, is where requests conflict: requests on unrelated keys touch
no common row. In `Chunkline` three records exceed a limit of two, so the second query
is made and not made, and five instants put a record inside, at the end and before a
chunk. Two listens are the first that has a predecessor; more repeat it. In `Resolver`
two requests race and also follow each other, each with a stack of up to six calls; two entities are what it takes for an answer to name the other one, and an
id told as a domain (`Told`) sends the recursion through the server id. In `Query` one
write before each statement is the most that can tell them apart, and every write is
Put or Erase of any document; limits are absent, negative, zero, met and exceeded. In
`Policy` three statements are what it takes to oppose a word and say it again, and the
conditions contain every operator with too few arguments, with arguments of a wrong type,
and with a field that is missing at either side. Every bound is a constant: `Req`,
`Events`, `MaxListens`, `Limit`, `Horizon`, `Request`, `Posted`, `Told`, `MaxWrites`,
`MaxHeld`, `MaxDocuments`.

**Fairness.** Each transaction, goroutine or call runs on (weak fairness of its steps):
nothing in the code stops it but what is modelled as waiting. A blocked statement is
not enabled; PostgreSQL's deadlock detection is fair because `deadlock_timeout` is
finite. `Query` and `Policy` state safety only. Requests by clients, faults, registrations and expiry are never required to happen. In
`Realtime` a write ends if the client takes something in again and again (strong fairness
of `Write`); that it does is not assumed, and the liveness properties except a client that
stalls for ever. Events and listens are bounded there; without bounds the same needs Go's
uniform choice among ready cases. An HTTP request to another server ends by the client's
timeout of three seconds; `GetResource` has no timeout (client.go:292), and
`EveryCallReturns` excepts it.

Each property of a passing run has a mutant: an operator beside the one it replaces,
marked `Mutant` and used nowhere else, with which TLC finds the property violated.

## What is proved

Everything in this section holds for every value of the constants that the named assumptions
of the modules allow, and, where it says so, for those that meet a named condition; TLC
evaluates both in the runs. The assumptions are ranges of constants and disjointness of
names, and besides: `Parent` is a function on URIs, a reference is keyed under its
collection, and at the start planted keys have planted parents (`RecordRepository`); a
listen has finitely many prefixes (`Realtime`); domains, entity ids and server ids are told
apart by their form and the default resolver is a domain (`Resolver`); expressions and
values are finite trees (`PolicyExpr`). TLC checked each inductive invariant on the runs'
instances before it was proved.

**Keys stay with their paths** (`RecordIntegrityProofs`). `TypeCorrect`, and
`KeysBelongAlways`: a key that carries a parent id carries one handed out for the parent
path of its URI, and the document it resolves to is keyed at that URI, under every
interleaving, failure, cancellation and crash. `KeysBelong` alone is not inductive: a key is
written in steps, in which the recursion collects a path of missing parents, inserts them
from the top, and carries the id of the row it found or inserted last. `KeysInductive` says
the same of the version of a key in progress, and of each transaction that its path is a
chain of parents ending in its URI, that the id it carries belongs to the parent of the
path's first element, and that the document it is about to write is keyed at its URI
(`WellDirected`).

**The tables hang together** (the same module). `KeysResolveAlways` and
`AssociationsHangAlways`. A statement checks what it needs when it runs, its rows become
visible when the transaction commits, and in between only row locks keep what was checked
true. `Integrity` therefore says of each transaction which statements its kind of request
runs with which variables (`Course`), what it has announced (`Announced`), and, row by row
of each table, what it has written by each phase and the lock it has on what that relies on
(`Grip`): a record is inserted under the share lock of its commit, a key is pointed under
that of its record, an association under that of its target; a row that is deleted is held
alone. A nested `CreateRecord` runs only while its caller is in the loop over `memberOf`
(`Nested`). What is committed then resolves and hangs (`RowsResolve`, `RowsHang`), for at a
COMMIT the lock excludes the delete that would take the referenced row away.

From the same invariant follow two action properties. `AssociationsOutlivedAlways`: an
association goes away only with the row of the key it hangs on. `AnsweredTrulyAlways`:
what is answered ok is true in the step that answers (what an operation answered otherwise
may leave behind is the matter of the next two). And with it, since they speak of requests
rather than of transactions, two properties about faults: `Accounted` adds that a nested
creation acts for the request that called it (`OnBehalf`), and says that every event about,
and every reference to, a document that is not stored has a request answerable for it
(`AnnouncedAlways`, `DanglingAlways`). A COMMIT may fail by itself: the caller gets the error,
except the caller of a nested creation, which only prints it and goes on. So an event about
a reference whose COMMIT failed is answered for by nobody, which `AnnouncedUnlessFault`
says.

**The tables implement the document store** (`RecordRefinementProofs`).
`StoreImplemented` and `SupersededIsRetiredAlways`, both under the hypothesis
`SharedKeysStay`: the key of a URI that several documents share is there from the start and
no request deletes it. Without it they are false: `FirstCreateRace` is the
counterexample. `MCSupersede` evaluates the hypothesis on its instances. `Delete` does not
meet it, since it deletes the key that two of its documents share: there the refinement is
what TLC checked, with one request that creates. `Exactness` says of each transaction that
it has written exactly what one step of the store changes (`CommitsWritten`,
`KeysWritten`), and that the document it is about to retire is the one its URI resolves to
by then, since it holds the key's lock alone (`OldIsLive`, `OldIsRetired`). Every COMMIT is
one of `Put`, `Keep`, `Erase` or a stutter, every other step a stutter.

**The tree of keys** (`RecordTreeProofs`). Three properties do not hold of every tree of
URIs, and each is proved under a named condition on the constants, which says who may touch
which part of the tree. `MCDistribute` and `MCDelete` evaluate the conditions and say on
which of their instances they hold; where one does not, a run or the code shows why it
is asked for.

* `AttachedAlways`, where no request deletes a key that has children (`ParentsStay`; without
  it, `RecreatedParent`). In `Grown` a key hangs on the row of its parent as the
  transaction that writes it sees it: its own if it has just planted it, else the
  committed one, and that one can only stay, since its id is kept by every other write
  (`KeyKeepsId`) and nobody deletes it (`Spared`).
* `NoHiddenDeadlockAlways`, where references have a part of the tree to themselves
  (`CollectionsApart`; without it, `DistributeUnderOneParent`): a set of URIs that holds
  those of all references and no user's document, is closed downwards, hangs on planted
  keys, and is not deleted from. In `Separate` everything locked of a reference or in that
  part is locked by nested creations, or by associations that have run their last statement
  that may wait. A nested creation therefore waits, if at all, for its like, never for the
  transaction that called it; and a cycle that does not pass through the program is one
  PostgreSQL sees. Parents inside that part may still have to be planted.
* `DistributedAlways`, where besides the collections themselves stand and events can be sent
  (`CollectionsStand`, which excludes failing publications and COMMITs). The error of a nested creation is only printed (record.go:203), so
  every way it may fail has to be excluded: there is nothing to plant, its document is new
  and so in no table (`UnmadeIsNowhere`), what it replaces is protected by the lock it has
  on the key (`Tended`), of which there is one holder (`OneHolder`), who waits for nobody;
  hence no deadlock is ever resolved at its expense (`RefNeverAborted`). What is left are
  cancels and crashes, and these end the request, too. `Accruing` then counts: each
  collection is still to come, is being written, or has its reference, which no other
  creation takes away (`InCollectionStays`).

`StepCases` says once what a step may do to a transaction that is not taking it; the
three proofs rest on it.

**A connection** (`RealtimeProofs`). `WrittenFaithfullyAlways`, `PanicNeedsEventAlways` and
`TypeCorrect`. `OnTheWay` follows an event from Redis to the
socket: messages in a subscription's channel, the one it offers, the one the loop passes
on, the one the handler writes, and those written. Along this way the events of a
subscription never go down (`Ordered`); the copies of one event are, taken together, no
more than Redis delivered (`Brought`, `Delivered`); and a handler that closes the channels
before the reader has left had an event to write (`ClosedByEvent`).

**Lookup** (`ResolverProofs`). `NoCallWithinItselfAlways`, `RequestGoesWhereToldAlways`,
`RegistrationLastsAlways` (an action property) and `TypeCorrect`. In `Resolved`, every
stack of calls is linked (a frame is the callee its caller is waiting for), descends in a
rank, so that no call can come again below itself, and brings each caller an answer of the
kind it expects (`Sound`, `Stacks`). What is cached of an id, or about to be, has been heard
by each request on its way to that id (`Fresh`), so that the domain it is sent to was told
of that id (`Home`); and whoever can overwrite a registration by an answer about the same
entity was getting it while it was made (`Overtaken`). No assumption is made on what other
servers answer or on which documents are posted.

**A page of a timeline** (`ChunklineProofs`). `PageCompleteAlways`, `BodyTrueAlways`,
`FirstChunkSoundAlways`, `IteratorNearbyAlways` and `TypeAlways`. `PageComplete` speaks of
the answer; what leads there is in `Inductive`, one conjunct for each thing the page knows
on its way: the iterator is not before the chunk of a steady record (`Due`); a steady
record that is not among the newest members is not newer than the last of them, which is
still listed unless the page is torn (`Bounded`); the second query leaves out only what is
before the chunk (`Gathered`); no record of the future is before the first chunk, since a
date is taken from the clock (`First`, `Dated`). The lemmas on chunks and dates
(`ChunkMonotonic`, `BeforeCutoff`, `BeforeChunk`) and on `ORDER BY ... LIMIT`
(`NewestOldest`) connect each query to the next.

**Queries** (`QueryProofs`). `AnswersOfOneMomentAlways`, `FailsOnlyOnChangeAlways` and
`TypeAlways`. The invariant says of the store that the live, listed and stored documents
agree (`StoreSound`), and of a query under way that its rows are an answer of one of its
moments (`AnsweredOnce`) and that a row no longer listed or stored is among those gone. The
heart is `TopAnswers`: rows chosen by `ORDER BY ... LIMIT` have fewer than the limit before
each of them, by counting (`FewBefore`).

**Policies** (`PolicyProofs`). All five properties of the run, for every expression tree,
every context and any number of statements and documents. Of a document: nothing strong said
means a conclusion that is not strong, and nothing said at all one that is unset
(`ConclusionInductive`); `OrStrong`, `OrNewStrong` and `OrWeak` are the laws of
`Conclusion.Or`, which is not associative. Of an answer: what each conclusion says of the
statements that held (`Concluded` in `AnswerInductive`). Of a condition: three laws of
evaluation, `FailureSpreads`, `TruthTable`, `CollectionsMeet`.

Conditions are trees and `Summary` is a fold, so these are inductions over data. The
library's induction theorems take an operator as a parameter and cannot be used here; its
`WFMin`, that a well-founded relation has a least element in every set, takes none. From it
come `LeastNumber`, `LeastRank` and `Recursion`: a function defined by what it is at lower
ranks exists. That gives what `FoldLeft` keeps (`FoldThere`, `FoldKeeps`, `FoldOr`) and that
`Eval`, `Subexpr` and `Holds` are what their definitions say (`EvalIs`, `SubexprIs`,
`HoldsIs`); each law is then proved of an expression of least depth that would break it
(`Innermost`).

`Chunkline`, `Query` and `Policy` have their type invariants proved rather than run.

**Only model-checked:** all liveness (`Answered`, `ListenTaken`, `LoopEnds`,
`SupersededEnds`, `ConnectionSettles`, `EveryCallReturns`), since fairness and ENABLED are out of the
prover's reach. Every other property of a passing run is stated by a theorem, five of
them under the conditions above (`SharedKeysStay`, `ParentsStay`, `CollectionsApart`,
`CollectionsStand`).

## What is not modelled

* `GetAssociatedRecords` and the counts by schema and by variant (record.go:540-668), and
  with them the ordered key-value map of their answer. They change no state and end in an
  error of the database every time: they join `associations.item_id` and select
  `rec.variant` and `rec.author`, preload a relation `Item`, and no model has any of these.
* Keys that are empty, for which `getOrCreateParentRecordKey` does not end
  (record.go:461): `Parent` is assumed to be a forest.
* The characters of URIs, hashes, tags, tokens and timestamps; signatures: a commit whose
  signature is wrong ends before anything happens (`internal/usecase/record.go:53-74`),
  those of registrations are not checked.
* Authentication: a token passes independent checks in a row (form, expiry, signature,
  audience, subject, kind of key) or the request goes on without a requester. Nothing is
  kept, and no handler of this repository reads the requester.
* CDIDs: bytes of a hash and a time written as text. `Parse` and `GetTime` have no caller,
  ids are compared for equality only, so documents are model values.
* How documents are found for a policy, and `Policy.Defaults`: no code does the one or
  reads the other.
* Connections other than one, timelines other than one: they share nothing but Redis,
  the tables and caches keyed by timeline.
* The merge of timelines, an external library.

## Plan

In order of what matters most:

1. done: the record repository with its faults, its abstract store, and the proofs that
   keys stay with their paths, that the tables hang together, and that they implement
   the store where shared keys stay;
2. done: realtime connections, chunklines and lookup, with proofs of their safety;
3. done: queries over the store with the proof that they answer of one moment; policies
   with the proofs of what a condition, a document and an answer come to;
4. done: the proofs that keys hang on their parents, that no deadlock is hidden and that
   acknowledged records are in their collections, each where the tree allows it;
5. compose `Chunkline` with the commit of `RecordRepository`: a page during a
   distribution, and `Realtime` with it: an event that arrives before its document.
