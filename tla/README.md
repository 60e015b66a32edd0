# Verification of the message management API

TLA+ modules, TLC runs and TLAPS proofs for the delivery pipeline of the
message management API: from the MongoDB transaction that accepts a message,
through the transactional outbox, Kafka and the search indexer, to the
Elasticsearch index behind its aliases, and the cursor listing and the search
that read messages back. Source paths below are relative to the repository root, which
`PROJECT.json` calls `src/`.

## 1. Inventory

| Component | State it keeps | Operations | Module | What makes it correct |
|---|---|---|---|---|
| Message creation (`libs/application/.../create-message.service.ts`) | `messages`, `outbox_events` in MongoDB | `execute`: both inserts in one transaction | `ApiRequest`, `Outbox`, `Listing` | message and row become visible together |
| Outbox repository (`libs/persistence/.../mongo-outbox.repository.ts`) | status, attempts, `nextAttemptAt`, lock of each row | claim, markPublished, scheduleRetry, markFailed; TTL index | `Outbox` | only the lock owner settles a row; leases; TTL takes published rows only |
| Outbox publisher (`apps/outbox-publisher/src/publisher.service.ts`) | `running`, `stopping`, the captured `now`, the claimed batch | run loop, publish, failure handling, shutdown | `Outbox` | nothing lost, retries bounded, every row settled in the end |
| `outbox:redrive` (`apps/cli/.../outbox-maintenance.service.ts`) | the selected ids | find, updateMany | `Outbox` | only failed rows are reset, whatever happens between the two |
| Search indexer (`apps/search-indexer/src/message-created.consumer.ts`) | group offset, position, attempt | parse, index with retry, DLQ, commit | `SearchIndexer` | no record is lost, a poison record does not block |
| `dlq:redrive` (`apps/cli/.../dlq-redrive.service.ts`) | its own group's offset, counts | republish, commit, stop | `SearchIndexer` | a dead letter is committed only after it is back in the topic |
| Index bootstrap (`libs/search/src/index-manager.service.ts`) | `messages-v1` and the two aliases | create index, add missing aliases | `EsIndex` | workers start with aliases, existing aliases stay |
| `es:reindex` (`apps/cli/.../es-reindex.service.ts`) | target index, source count | copy, verify, swap | `EsIndex` | search keeps what it had, and is never without an index |
| Message listing (`list-messages.service.ts`, `message-cursor.ts`, `mongo-message.repository.ts`) | the client's cursor | one page per request | `Listing` | a walk is complete and repeats nothing |
| Message search (`libs/search/src/es-message-search.ts`) | none | one `from`/`size` page per request, through the read alias | `Reading`, `EsIndex` | pages are complete and repeat nothing while nothing is written and no two hits tie |
| HTTP layer (`apps/api`): parser, correlation context, guard, validation, controllers, exception filter | per request: the correlation id | one request, with the retries of `withTransaction` | `ApiRequest` | the answer is true of what is stored; one message per request; requests keep their own correlation id |
| Start, readiness and shutdown of the api and both workers | topics, aliases, `connected`, run loop or consumer, `running` | init and shutdown hooks, probes, consumer crashes and restarts, outages | `WorkerLifecycle` | whoever works has topics and a producer; a ready worker can work; readiness comes back |
| The pipeline as a whole | all of the above that an event passes through | the outbox's contract, the indexer, the redrives | `System`, `Pipeline`, `Journey` | an accepted message becomes searchable or rests where an operator sees it |
| `outbox:inspect`, metrics, logging, configuration | none that control depends on | | not modelled | |

How they interact: the API and the publisher share the outbox collection; the
publisher and the indexer share the topic; the indexer and `dlq:redrive` share
the topic and the DLQ in opposite directions; the indexer, `es:reindex`, the
API and every starting process share the aliases. Nothing else is shared, and
no component calls another directly.

What is hard: every shared object above is changed by several processes with no
lock but MongoDB's per-document updates, Kafka's offsets and Elasticsearch's
alias updates. Publishers can stall past their lease, any call can fail after
it was applied, processes die between any two steps, and operators run
commands against the live system. `PROJECT.json` lists the hazards line by
line, with the properties that watch each of them.

## 2. Modules and how they correspond to the code

An action is one atomic step of the code: one database, broker or
Elasticsearch call together with the local computation up to the next one. A
call that may throw has a second action (`...Error`) in which it was applied or
was not. Definitions named `Mutant: ...` are plausible bugs; the project
replaces a definition by its mutant to see that a property notices.

### Outbox

`outbox[r]` is the row with `_id` r; message, event and payload are in one-to-one
correspondence with it. Every process reads its own clock, which may be ahead of
`clock` by up to `MaxSkew` (`Readings`), another amount each time. `pc[i]` is where publisher process i stands: `idle`
(timer set), `claiming` (inside `claimPublishable`), `publishing` (head of the
`for` loop of `runOnce`), `acked` (between the broker's answer and
`markPublished`), `failing` (inside `handlePublishFailure`). `batch[i]` holds
the claimed events with the attempt count of the claim, `now[i]` the time that
`runOnce` or `handlePublishFailure` captured. An instance id is used by one
process only, because it contains a random UUID: a restart is another element
of `Instances`.

| Action | Code |
|---|---|
| `StartRun`, `ClaimNext`, `ClaimEnd`, `ClaimError` | `runOnce` up to the end of `claimPublishable`; one `findOneAndUpdate` per step |
| `PublishEvent`, `PublishError` | `producer.publishJson`; after an error the record may be in the topic or not |
| `MarkPublished`, `MarkPublishedError` | `markPublished` under the lock-owner filter |
| `HandlePublishFailure`, `HandlePublishFailureError` | `scheduleRetry` or `markFailed`; an error ends the run with the rest of the batch still locked |
| `FinishRun`, `Shutdown`, `Crash` | end of `runLoop`, `onApplicationShutdown`, death of the process |
| `CreateMessage` | the committed transaction of `CreateMessageService.execute` |
| `RedriveBegin/Find/Update/Abort` | `outbox:redrive`; `updateMany` one document per step |
| `Expire` | the TTL monitor, at any time after publication |

`DeliveryContract` is the abstract specification: each event waits, is
confirmed only after it reached the topic, or is given up and can then be taken
up again. `Outbox` implements it under the refinement mapping `phase`.

### SearchIndexer

One partition of the topic and one of the DLQ, as sequences. `committed` is the
group's offset, `pos[c]` how far member c is, `pc[c]` where it stands in
`handleMessage`. `Kind` says what parsing and Elasticsearch make of each event:
valid, malformed, of an unknown version, or rejected by the mapping. Group
membership and auto-commit belong to kafkajs and are external: a member starts
at the committed offset, commits its position at any later time, loses the
partition to another member without noticing, and has its commits refused from
then on. `eachMessage` throwing sends it back to some uncommitted record. The
delays between attempts are left out.

`dlq:redrive` is `cli`: it counts the record when it consumes it, republishes,
and commits, in this order (`RedriveConsume`, `RedriveRepublish`,
`RedriveCommit`); a dry run only consumes. A record that is handled again after
an error counts again, so `--limit` bounds the deliveries of a run, not the
distinct records: a run may stop early, and `LimitRespected` says it never goes
on too long.

### Pipeline and Journey

`Pipeline` puts `DeliveryContract`, which the outbox is proved to implement, in
front of `SearchIndexer`: what is delivered is what is in the topic (`InTopic`),
so `Deliver` is a step of both and every other step belongs to one of them.
`Journey` is the abstract specification of the whole: a message is under way,
searchable, failed in the outbox, a dead letter or, when its version is not
supported, skipped; there is no fate for a lost one. `Fate` is the refinement
mapping. It would call a message `lost` that no store has any more, and
`KeepsPromise` says that never happens, that what is searchable stays so, and
that a message leaves a resting place only to be under way again, or to
become searchable.

### System

`System` puts the components themselves together, `ApiRequest`, `Outbox`,
`SearchIndexer` and `EsIndex`, each by INSTANCE over the same variables where
they share something. A step of the whole is a step of one component, or of two
where they meet:

- `Store`: the commit of a request is the message and the pending row of the
  outbox. `objectId` gives each stored message the `_id` the driver has drawn,
  because a request may run its callback several times;
- `Send`, `SendFails`: what a publisher sends is the record at the end of the
  topic; a send that fails may have left one too;
- `WriteDocument`: a member of the group writes through the write alias, once or
  again, also when the response is lost;
- `Subscribe`, `Die`: a member is a process whose bootstrap of the aliases
  succeeded, since Nest initialises the search module before the consumer, and it
  leaves the group when it stops.

Two things are not in it. Readers (`Listing`, `Reading`) change nothing.
`WorkerLifecycle` refines what starting and stopping is, and shares no data with
the rest.

### EsIndex

Index version n is `messages-vn`; `readAlias` and `writeAlias` are the sets of
versions behind the aliases. Each request of `ensureMessagesIndex` and of
`reindex` is a step, the requests that `Promise.all` sends together are steps
in any order, and each may fail. `UpdateAliases` is external: all or nothing,
and refused when the write alias would get two write indices. `_reindex` is
external: a snapshot of what the read alias serves, written to the target.
Documents become searchable at once (the refresh interval is left out, which
makes the checked promises easier for the code, never the violations).

### Listing

`created` and `timestamp` are the messages of one conversation; a message draws
its timestamp before its transaction starts. `walk[c]` is a client that passes
`nextCursor` back. `known` (what was visible when the walk began), `got` and
`twice` are history variables. A cursor is the record {o, t, id}; encoding and decoding it
is a bijection on valid cursors, and cursors that no page returned are left out.

### Reading

`Listing` together with `GET .../messages/search` over the same messages.
`hunt[c]` is a client that asks for page after page: `from`/`size` cut the pages
out of the hits sorted by score and timestamp (`FirstHits`), and the client goes
on while `page < totalPages`, up to the page the query DTO accepts. Matching and
scoring are Elasticsearch's and chosen freely: a write may change every score,
and hits that agree on score and timestamp come in another order for each
request. `quiet` says that nothing was written since the first page. The code
promises nothing about a search that a write overlaps, and neither does
`QuietSearchComplete`; of hits that tie it says only that as many come as the
pages hold, so one that comes twice hides another one.

### ApiRequest

`stage[r]` is what happens to request r next, in the order the application
installs it: `express.json` (`ParseBody`), `CorrelationIdMiddleware`
(`EnterContext`), `ApiKeyGuard` (`CanActivate`), `ValidationPipe` and the cursor
of a list (`Validate`), then the handler. `context[r]` is the request's
`AsyncLocalStorage`. `POST /messages` goes through the steps of
`withTransaction`: `StartSession`, `InsertMessage`, `InsertOutbox`, `Commit`.
The retry loop of the MongoDB driver is external: after a
`TransientTransactionError` the callback begins again (`TransientError`), after
an `UnknownTransactionCommitResult` the commit is repeated or given up
(`CommitError`), and MongoDB applies a commit once. `attempt[r]` tells the
documents of repeated callbacks apart. The parser runs outside any context, so
the exception filter has only the client's header to answer with:
`OwnCorrelationId` claims that it does, that every request past the parser is
answered with its own id, and that nobody gets another request's. It does not
claim an id on every error response (see "Known disagreements" below).

### WorkerLifecycle

`stage[w]` is how far the process is, `hooks[w]` which `onModuleInit` hooks of
the messaging module are still running, `loop[w]` what the publisher's run loop
or the kafkajs consumer does, `running[w]` the field that readiness reports.
`up` holds the services that can be reached; they come and go (`Outage`). The
api connects to MongoDB and goes on without an index when the bootstrap fails
(`EnsureIndexError`); the workers do not. `Ready` is the readiness probe of each
process with the indicators it asks: MongoDB and aliases, MongoDB and Kafka with
its topics, or Kafka, aliases and the consumer. External are the order of Nest's
hooks (version 11 in `package.json`: imported modules are initialised first and
shut down last) and kafkajs: a consumer that crashes is disconnected, which
emits STOP, then emits CRASH, and is restarted if its error is retriable. Work
itself is reduced to begin and end; modules `Outbox` and `SearchIndexer` have the
details, `EsIndex` those of `EnsureIndex`.

## 3. Runs

All bounds are CONSTANTS of the modules. `CHECK_DEADLOCK FALSE` appears where
the bounded system really stops: every row settled and every process gone, the
topic handled and no redrive left, the walks finished. `EsIndex` and
`WorkerLifecycle` never stop.

| Run | Instance | Shows |
|---|---|---|
| `outbox_race` | 1 row, 2 publishers alive together, 2 overlapping redrives, 2 attempts, 1 MongoDB error, clocks 1 apart | `InductiveInvariant`, `OwnedCopyIsFresh`, `NoEarlyTakeover`, `ImplementsContract`, `FailedLeavesOnlyByRedrive`, `PublishedIsFinal` |
| `outbox_batch` | 2 rows in one batch, 2 processes one after the other, 2 attempts, 1 MongoDB error, fair | `PublishedImpliesDelivered`, `NoLostEvent`, `AttemptsWithinBudget`, `StrandedOnlyByFault`, `EventuallySettled` |
| `indexer_group` | 2 members, a valid, a malformed and a rejected event, 2 faults, 1 redrive with limit 1 | `IndexerInv`, `NoEventLost`, `LimitRespected`, `OnlyHandledPassed` |
| `pipeline` | 1 member, a valid event and one of an unsupported version, 2 indexing attempts, 1 fault, 1 redrive, fair | `PipelineInv`, `KeepsPromise`, `ComesToRest` |
| `es_reindex` | 1 worker, 2 concurrent `es:reindex`, 2 documents, 3 versions | `AliasInv`, `WorkerHasAliases`, `WritesAreSearchable`, `SearchUninterrupted`, `SwapKeepsCounted` |
| `reading_walks` | 3 messages, pages of 1 and 2, 2 search pages, 2 scores, a client that walks or searches | `ListingInv`, `NothingTwice`, `WalkComplete`, `QuietSearchComplete`, `WalkEnds` |
| `api_requests` | 2 concurrent requests of any kind, 2 faults, fair | `ApiInv`, `StoredTogether`, `CreatedIsStored`, `OnePerRequest`, `OwnCorrelationId`, `EveryRequestAnswered` |
| `worker_lifecycle` | 1 api, 1 publisher, 1 indexer, outages of every service, fair | `LifecycleInv`, `WorkHasProducer`, `TopicsBeforeWork`, `ReadyMeansAble`, `ShutdownCompletes`, `BecomeReady` |

Why the bounds are enough. A lease needs two holders and a clock that passes it:
with `LockTimeout` 1, a clock that reaches 1 and a skew of 1, readings go to 2,
which allows a takeover in time and one that skew makes early. A retry budget of
two has a retry and a last attempt; a batch of two has an event in hand and one
waiting behind it; one error per run of the model leaves a row in each state an
error can leave it in. An indexer history needs a zombie and its replacement,
one fault for each of them, and a redrive that is handed a record again. In the
pipeline, one member and one fault meet the redrive and the outbox's duplicates;
`indexer_group` has the races between members. `MaxProduced` bounds what the
outbox publishes; redrives may append beyond it. A reindex needs one document
that is counted and one that is not. A walk or a search needs ties, something
older and something newer than the page boundary. Two requests meet at every
await; two faults let a callback be repeated and its commit be unknown. The
worker run needs one process of each kind, because they share nothing but
services, topics and aliases. None of the numbers matters to the safety
theorems of section 5, which hold for all values.

### Findings

Four runs expect a violation: something the documentation says and the code
does not do. `PROJECT.json` quotes the sentences.

- `outbox_failed_published`: a publisher that stalls past its lease sends an
  event of its batch although another one has marked the row `failed`.
- `es_reindex_loss`: documents indexed while `_reindex` copies are lost from
  search at the swap; the count check compares two numbers that both miss them.
- `es_bootstrap_race`: a starting process that found an alias missing adds
  `messages-v1` to it after a reindex has moved it on.
- `consumer_restart_ready`: the STOP that kafkajs emits before a CRASH it
  restarts from sets `running` to false, and nothing sets it again: the consumer
  works but the worker stays unready. The unit test emits CRASH alone.

Known disagreements that a single request shows, and that the model has as the
code has them; no run is spent on them, and no property claims what the
documentation says:

- `docs/observability.md:38` and `docs/implementation-plan.md:384` and `:604` say
  that all error responses include a correlation id. `express.json` is installed
  before every middleware of Nest (`apps/api/src/main.ts:20`), so a body that
  does not parse or is too large is answered outside any context, and when the
  client sent no `x-correlation-id` the filter has none to put in (`ReplyId`).
- `docs/implementation-plan.md:342` promises 413 for a body that is too large.
  The parser's error is no `HttpException`, so `AllExceptionsFilter` answers 500
  (`ParseBody`).

What does hold in those situations is checked next to them: whatever is written
is searchable, search is never without an index, and what was counted survives
the swap, not because the counts agree but because a second swap meanwhile makes
Elasticsearch refuse this one. What the stalled publisher cannot do is checked too: it never changes
a row it does not own. In the other direction readiness is right: it never
vouches for a consumer that has stopped.

## 4. Fairness

`LiveSpec` (module `MCOutbox`) assumes weak fairness of process start and of a
run's steps, which the event loop and its timers give, and of time while some
row waits for a retry or a lease. A process stops or dies only while a
replacement is left to start, as a supervisor would have it, and there is one
replica, as `docs/runbooks/outbox.md` prescribes. Nothing is assumed of the
broker: each send may fail, and a row is then `failed` in the end. `MaxClock` is
large enough never to be reached while a row is outstanding.

`PipelineFairSpec` assumes that a waiting row is settled (`EventuallySettled` of
the outbox), that a free partition is assigned and that a member of the group
goes on with its record. Nothing is assumed of Elasticsearch, whose every answer
may be an error, nor of the operators' commands; crashes, takeovers and failed
DLQ publishes are finitely many (`MaxFaults`). `ReadSpec` assumes only that a
client of the listing that was told there is more asks for it. `FairSpec` of
`ApiRequest` assumes that a request in progress goes on (the driver answers or
throws).

`FairSpec` of `WorkerLifecycle` assumes that work in progress ends, that
shutdown hooks are called, that a starting process goes on while what it needs
is up, and that a process which has exited is started again. The last is an
assumption about those who run the system: nothing in the repository restarts a
process (`docker-compose.yml` has the services only). `BecomeReady` is stated
for the case that the services stay and nobody exits any more (`Calm`). It holds
for the api only because some indexer, which does not start without the
aliases, bootstraps them: an api that started while Elasticsearch was away
(decision 27 of `docs/decisions.md`) never does so again.

## 5. Proofs

`OutboxProofs` proves, for every value of the constants that satisfies
`ConstantsAssumption`:

- `OutboxInvariant`: `InductiveInvariant` always holds, and with it `TypeOK`,
  `PublishedImpliesDelivered`, `NoLostEvent`, `AttemptsWithinBudget` and
  `LockConsistent`, which no run lists on its own (`OutboxTypeOK`,
  `PublishedSafe`, `NothingLost`, `AttemptsBounded`, `LocksConsistent`).
- `OwnedCopiesFresh` and `StrandingNeedsFault`: `OwnedCopyIsFresh` and
  `StrandedOnlyByFault`, which need the invariant but are not part of it.
- the action properties `NoEarlyTakeover` (with clocks `MaxSkew` apart), `FailedLeavesOnlyByRedrive` and
  `PublishedIsFinal` (`NoTakeoverBeforeTimeout`, `FailedIsTerminal`,
  `PublishedRowIsFinal`).
- `OutboxImplementsContract`: the outbox implements `DeliveryContract`.

The argument. The promises about rows are not inductive by themselves, because
a publisher acts on what it carries between its steps. `PublisherInv` adds that:
an acked event is in the topic, a publisher in `acked` or `failing` has an event
in hand, its events were accepted, and every time it captured is past on some clock. Then
`RowCases` shows that each step either leaves every row alone or changes one row
in one of six ways (created, claimed, published, failed, redriven, expired), and
`BatchCases` says the same of batches. Each conjunct, each action property and
the refinement are proved over these cases instead of over the actions. For
`OwnedCopyIsFresh`, `OwnedByClaim` adds that an instance comes to own a row only
by the claim that puts a copy at the end of its batch, and `LastInAppend` that
this copy is then the row's last.

`ApiProofs` proves, from `ApiAssumption`, that `ApiInv` always holds
(`ApiInvariant`), and with it `StoredTogether`, `CreatedIsStored`,
`OnePerRequest`, `OwnCorrelationId` and `OnlyAcceptedStored` (a conjunct that no
run lists on its own), for any number of
concurrent requests and faults. The strengthening says which checks a request
at each stage has passed (`PassedChecks`), in which context it runs
(`InContext`), and that a committed run of the callback is the last one
(`CommittedIsLast`), which is why a request never stores two messages.

`EsProofs` proves, from `EsIndexAssumption`, that `AliasInv` always holds
(`AliasInvariant`), and with it `WritesAreSearchable` and `WorkerHasAliases`;
and `SearchUninterrupted` (`SearchNeverStops`). The aliases change only by a
bootstrap or a swap (`AliasCases`). A swap leaves its target as the only write
index, because Elasticsearch refuses two (`SwapResult`). A bootstrap is the
subtle case: it acts on old answers. It is safe because the aliases are missing
together or not at all (`AliasesTogether`), and because an alias that was found
is still there (`BootKnows`). `CountedSurvivesSwap` proves `SwapKeepsCounted`
from a second invariant, `CopyInv`: the target of a run is its own (`OwnTarget`),
so a swap by somebody else leaves a write index that this run has not resolved
and does not remove (`SwapBlocks`); until then nothing that was counted drops out
of search or copy (`CountedKept`). From the same invariant, `OnlyUnseenIsHidden`
states what the finding `es_reindex_loss` leaves standing: a document drops out
of search only by the swap of a run that has neither counted nor copied it, and
it is still in an index that exists. `WritesAreFound` says that the step which
indexes a document makes it searchable.

`IndexerProofs` proves, from `IndexerAssumption`, that `IndexerInv` always holds,
and with it `NoEventLost` and `LimitRespected`. The subtle part is that members
and redrives overlap: whatever the group or any member, a replaced one included,
is past must be accounted for behind it (`AccountedFor`), and a redriven dead
letter is so by its copy in the topic, which comes later than its original
(`RedriveInv`, `DeadLettersFaithful`). `PassedIsHandled` proves the stricter
`OnlyHandledPassed`, record by record: a copy of the event further on does not
excuse a record that was passed without being indexed, skipped for its version,
or dead-lettered under its own offset. It is inductive because a step passes one
record at most, the one it has dealt with (`PassedDone`), and a member that joins
starts where everything before it was dealt with (`PassedStep`).

`PipelineProofs` proves `PipelineInv` and `KeepsPromise`, the refinement of
`Journey`, from `IndexerInv` and the steps of the contract. A message that is
committed to Kafka but in no store would be lost; `StoresAgree` and `NoEventLost`
exclude it, and each step is shown to be a move of `Journey` or none.

`ListingProofs` proves `ListingInv`, `NothingTwice` and `WalkComplete`, for any
messages, clients and page sizes, also while searches go on. A page is an
initial segment of what lies beyond the cursor in the sort order (`FirstOf`);
that such segments exist follows from the finiteness of the messages, over the
well-founded order of strict subsets, because recursion is not at hand.
`QuietSearchesAreComplete` proves `QuietSearchComplete` from an invariant of its
own, `SearchInv`: what an undisturbed search has been given after `page` pages is,
when no two hits tie, the set of the `page * limit` best (`HitsOfPage`,
`FirstHitsAgree`), because a page starts where the one before ended (`PageEnds`)
and there is another one exactly when hits are left (`AnotherPage`).

`LifecycleProofs` proves, from `LifecycleAssumption`, that `LifecycleInv` always
holds, and with it `WorkHasProducer`, `TopicsBeforeWork` and `ReadyMeansAble`:
modules are initialised before their users (`InitialisedBefore`), loops run only
between start and close (`LoopsInside`), and the api has no part in either
(`ApiOnlyServes`).

`SystemProofs` proves what the components promise together. Its theorems take
the components' assumptions on the constants as hypotheses and nothing else.

- The delivery path first, with the outbox in the place of its contract. A step
  of the publishers, the API, the TTL index or `outbox:redrive` is one of
  `Outbox`, and the group and `dlq:redrive` put nothing into the topic that was
  not there (`OthersAddNothing` of `PipelineProofs`), so that they are stutters of
  it (`OutboxSees`). In the other direction the steps of the outbox are those of
  its contract (`RefinementStep` of `OutboxProofs`), and a record that is sent is
  the delivery of an event whose row was accepted (`SendDelivers`). Hence
  `DeliveryImplementsPipeline`.
- Then the whole. `SystemInv` is the components' invariants and what links them:
  rows and stored messages correspond one to one (`IdsAgree`); what the group has
  written is what the existing indices hold, because a reindex only copies what
  it found there (`IndicesAgree`); members of the group are processes that are up
  (`MembersAreUp`). `SystemRunsComponents` shows that the whole refines the
  specification of each component, so that their theorems carry over, and
  `SystemKeepsPromise` that it implements `Journey`.
- From these: the message of a 201 is never lost (`CreatedNeverLost`); search
  shows only messages of valid, authenticated requests, and one per request,
  whatever is repeated on the way (`SearchIsTrue`); and a member that is about to
  write finds a write alias (`WritersHaveAlias`), which Elasticsearch would else
  create as an index of that name.

`SystemSpec` has no run. Its steps are those of the components, which their own
runs explore; what is new is how they fit together, and that is what the theorems
are about. The product of four components is large for TLC long before two of
them do something interesting at once.

What `SystemProofs` does not claim is that an indexed document stays searchable:
`es_reindex_loss` shows the contrary. `HiddenByReindexOnly` gives the limit.

Left to TLC: liveness (`EventuallySettled`, `ComesToRest`, `WalkEnds`,
`EveryRequestAnswered`, `ShutdownCompletes`, `BecomeReady`), which is out of the
prover's reach together with fairness and ENABLED. Every other property of a
passing run is proved.

## 6. Not modelled

- Group protocol, partition leadership and retention of Kafka; several
  partitions (events of a conversation share one, and partitions share nothing).
- Two replicas whose sends outlast the lease: they may take a row from each
  other for ever without counting an attempt. Safety is checked and proved for
  them, liveness is not: it would need a bound on how long a send may take,
  which the code does not set.
- Clients that send a request again after a 500 or a broken connection: requests
  carry no idempotency key, so the code promises nothing about them.
- `outbox:inspect`: it changes nothing and nothing acts on what it prints. Its
  counts come from separate queries, so a row that moves meanwhile may be counted
  twice or not at all.
- Which documents match a query, and their scores: Elasticsearch decides.
- Liveness probes, which answer `up` whenever the process answers at all.
- Metrics and logging, which no control flow depends on; configuration, read once
  at start, whose values are the CONSTANTS.

## 7. Plan

In the order of importance, all of it done:

1. `Outbox`, `DeliveryContract`, `OutboxProofs`.
2. `SearchIndexer`, `EsIndex`, `Listing` and their proofs.
3. `WorkerLifecycle`, `LifecycleProofs`, `ApiRequest`, `ApiProofs`.
4. `Pipeline`: the contract composed with the indexer, end to end, refining
   `Journey`; `PipelineProofs`.
5. Clock skew in `Outbox`; search in `Reading`; services and readiness of all
   three processes in `WorkerLifecycle`.

6. `System`: API, outbox, indexer and indices themselves, composed and proved to
   implement `Pipeline` and `Journey`; `SystemProofs`.

What could follow: `Reading` and `Listing` in the composition, so that a client's
view is part of it; and a weaker `Journey` in which a document may be hidden by a
reindex that has not seen it, for the whole to implement.
