# A formal model of saga-library

saga-library is a TypeScript library for choreographed sagas over Kafka:
participants handle events, emit further events, and every event carries the
identity of the saga, and of the tree of sagas, it belongs to. The repository
has the library (`src/packages`), a monitor that projects the events of all
sagas into a read model, and example applications (`src/examples`).

This directory holds TLA+ modules for the parts whose behaviour is hard to
test, TLC configurations that check them on small instances, and TLAPS proofs
of the properties that matter most for all instances. `PROJECT.json` lists the
components, the runs with what each shows, the lines that each definition
translates, the hazards of the code with the properties that cover them, and
the disagreements between documentation and code that the runs exhibit.

    tlc -workers 2 -config KafkaTransport.cfg MCKafkaTransport.tla
    tlapm Transport_proofs.tla

## 1. Inventory

### The library

**Kafka transport** (`saga-transport-kafka/src/kafka.transport.ts`,
`watermark-tracker.ts`). State: one producer, one consumer; for each call of
`processBatch` a `WatermarkTracker` and one async loop (*lane*) per message
key. Operations: `connect`, `subscribe` (with retries), `processBatch`,
`publish`, `disconnect`, `healthCheck`. KafkaJS calls `processBatch` for a
fetched batch, keeps the fetch position, commits what was resolved, rejoins the
group. Hard: lanes end in any order; `Promise.all` rejects with the first error
but cancels nothing, so lanes go on as *orphans* beside the next batch; failed
heartbeats, rebalances, crashes; a stop in the middle of a batch. Correct when
no commit passes work undone, messages of a key are first handled in order, and
everything is handled in the end.

**Saga runner** (`saga-core/src/runner/saga-runner.ts`). State: a route map
made at the start, and per message the position in the error flow and an
attempt counter. Operations: `start`, `stop`, `handleMessage` with
`runWithRetry`, `executeWithRetry`, `callOnRetryExhausted`, and the wrapped
`emit` for `final` and `fork` handlers. It is called by the transport and calls
participants, which call the publisher. Hard: retries, compensation and hooks
that follow one another for many messages at once; errors in any of them; the
producer being closed while handlers run. Correct when budgets and the order of
the flow are kept, what is published on the way is marked as the options of the
handler say, and every message ends.

**Saga identity** (`saga-publisher.ts`, `saga-context.ts`,
`message-builder.ts`, `saga-parser.ts`, the fork layer of the runner). State:
the `SagaContextData` that `AsyncLocalStorage` carries, and the headers of
messages in flight. Operations: `start`, `startChild`, `emit`, `emitToParent`
(with an event or a callback), `forSaga`, fork, build and parse. Hard: contexts
are derived from contexts, over process boundaries, to any depth and in any
order, and some messages come without headers. Correct when every piece of code
runs with the true root, ancestors and key of its saga.

**Start and stop of a service** (`saga-registry.ts`, `SagaRunner.start` and
`stop`, `connect`, `subscribe`, `connectConsumerWithRetry` and `disconnect` of
the transport, `SagaRunnerProvider` and the decorators of `saga-nestjs`).
State: what participants declare, the registry, the route map (one entry per
topic, with a saga and a plain handler), the producer, the attempt, the
consumers that attempts have made and the one in `this.consumer`. Hard: each
call to Kafka may fail, an attempt is cleaned up by calls that may fail too,
and a stop may come at any time of a start. Correct when the consumer that runs
is the one the transport knows, every declared handler is the one its message
leads to, and start and stop end.

**OpenTelemetry** (`otel-context.ts`): spans and baggage. Observation, but for
messages that arrive with baggage instead of saga headers.

### The monitor

**Projector** (`examples/monitor/backend/src/@core/saga`). State: the tables
`saga_state` and `saga_event_log` in Postgres, offsets at the broker, updates on
Redis. Operation: `processBatch` in six phases: parse, dedupe, lookup, derive,
persist, publish. Hard: batches of up to 25 partitions run concurrently and the
events of one saga are spread over topics; the lookup is outside of the
transaction that writes; transactions fail, members crash or lose their
partition. Correct when the tables agree with each other and with the log, and
commits skip nothing.

**Live stream** (`redis.service.ts`, `redis-publisher.service.ts`,
`saga-stream.controller.ts`). State: callbacks per channel, the channels Redis
has been asked for. Hard: the first subscriber subscribes and the last one
unsubscribes, and neither is awaited. Correct when Redis sends what is followed
and nothing else.

**Queries** (`queries`, `saga.controller.ts`): the events of a saga with its
descendants, by pages; its tree; statistics. Hard: pages are requests of their
own, at their own times, while the projector writes.

**Frontend** (`examples/monitor/frontend`). State: the SSE store (source, timer,
seen ids, pause), the query cache, the timeline and waterfall computed from
several queries. Hard: reconnection, answers that overtake messages or each
other, data of different moments in one picture. Correct when what a page shows
at rest is what is stored, and a picture has every event in its place.

### The examples

**Telecom flows** (`examples/order-saga/src/telecom`): five choreographies
(recurring billing, SIM swap, bulk activation, upgrade of a plan, provisioning)
with stores in memory, started by a controller. **Recurring flow**
(`recurring-flow`): a billing cycle whose failed attempts a client may retry up
to a limit. Hard in both: messages of different topics come in any order and
twice, what follows an `await` runs after other handlers, records are created
after the message that is about them. Correct when flows end, an outcome is
final, and a customer is charged once.

**Built-in monitor** (`order-saga/src/monitor`): a consumer that keeps every
event in memory, and three pages that fetch what there is and then follow a
stream. **Ping-pong** (`for-root-async`): two participants that emit to each
other.

### How the parts interact

    KafkaJS --batch--> KafkaTransport --message--> SagaRunner --event, emit--> participant
       ^                                                                          |
       +------ publish <--- KafkaTransport <--- message builder <--- SagaPublisher <-+
       |
       +--batch--> Projector --> Postgres --> queries --> pages in a browser
       |               +-------> Redis ----> SSE streams ----^
       +--message--> built-in monitor --> its own pages

The boundaries are interfaces of the code: `SagaTransport` between transport and
runner, `Emit` and `SagaContext` between participants and publisher, headers
between publisher and parser or projector. The modules below are cut there.

## 2. What is modelled

| module | models | from |
|---|---|---|
| `KeyedDelivery` | abstract: at-least-once delivery of a log in key order | what `SagaTransport` promises |
| `KafkaTransport` | `processBatch`, `WatermarkTracker`, the KafkaJS loop around them, the stop | `saga-transport-kafka` |
| `SagaErrorFlow` | abstract: the documented error flow without retries, and what is published on the way | "Error flow" of the README of saga-core, handler options in that of saga-nestjs |
| `SagaRunner` | routing, retries, compensation, hook, emit, stop | `saga-runner.ts` |
| `SagaLineage` | contexts, forks, parents, headers, parsing | publisher, context, message builder, parser |
| `ServiceStart` | discovery, registry, route map, connection with retries, stop | `saga-nestjs`, registry, runner, transport |
| `ReadModel` | abstract: events recorded with the completion of their sagas, offsets behind them | what the tables promise their readers |
| `Projector` | a batch of the projector and its tables | `@core/saga` of the backend |
| `LiveStream` | Redis subscriptions shared by browsers, publication of updates | `infra/redis`, stream controller |
| `LivePages` | a page of the frontend over `LiveStream` and the database | `lib/sse`, `lib/hooks`, live table |
| `SagaDetail` | the page of a saga: paging, tree, waterfall | queries, `lib/transformers` and hooks |
| `SagaTimeline` | the timeline of that page | `timeline.tsx`, `live-detail.tsx` |
| `FlowBus` | what the example flows see of library and Kafka | abstraction of the first four |
| `TelecomFlows` | five flows with their stores and controller | `telecom` |
| `RecurringFlow` | the billing cycle with retries | `recurring-flow` |
| `BuiltInMonitor` | the monitor service and its three pages | `order-saga/src/monitor` |

`LivePages` composes `LiveStream` with a page; `TelecomFlows` and
`RecurringFlow` extend `FlowBus`. `FlowBus` is where the library modules end
and the examples begin: topics are consumed independently, a handled message
may come again (`KafkaTransport`), a handler runs until it ends in one of its
ways (`SagaRunner`), and a saga is identified by its path from the root
(`SagaLineage`). The `MC` modules give constants their values for TLC, the
modules ending in `_proofs` hold the theorems. Definitions named `Mutant_` are
plausible bugs, each next to the definition it would replace; nothing uses
them, and each breaks the property it is listed with in `PROJECT.json`.

### KafkaTransport

The log is immutable and indexed by offsets, with a key for each. An
*invocation* is a slot for a call of `processBatch`: `status` is the state of
the call as KafkaJS sees it, `pc` that of its lanes, `first`, `last` and
`completed` its tracker. `position` and `committed` belong to KafkaJS and the
broker, `handled` and `abandoned` are histories for the properties. One action
is one stretch of code between two awaits:

- `StartBatch`: fetch, tracker, groups, and the synchronous first call of every lane;
- `HandlerReturns`: mark, watermark, `resolveOffset`, heartbeat sent;
- `HeartbeatReturns`: the loop goes on, or returns because the consumer stopped;
- `HandlerThrows`, `HeartbeatRejects`: the lane dies, and with the first of them the call;
- `BatchResolves`, `CommitResolved`, `Rejoin`, `Crash`: KafkaJS and the world;
- `Stop`: `disconnect`.

A lane that is not waited for any more keeps taking its steps: this is the
interleaving that the tests of the repository do not have. External KafkaJS
behaviour (version 2.2.4, as locked) is listed in the header of the module; the
two facts that matter are that `eachBatchAutoResolve` defaults to true, and that
`resolveOffset` assigns the position, backwards too.

### SagaRunner

`at` says which function of the participant works on a message (or how it
ended), `asleep` that it is between two attempts, `attempt` is the loop variable
of `executeWithRetry`. A participant may do anything with its emit and end in
three ways: return, throw a `SagaRetryableError` (whose `maxRetries` is never
looked at), throw anything else. Messages share only the producer, which `Stop`
closes first; from then on an emit fails (`EmitFails`). `Fatal` collects where a
non-retryable error goes from each function. `calls` and `emitted` are histories;
`emitted` is the last publication, which `SagaErrorFlow` restricts.

### SagaLineage

The state is the set of contexts in which code may be running; user code acts
in any of them at any time, so messages are handled late and in any order. What
`buildOutboundMessage` writes and `SagaParser` reads are functions between
contexts and headers: absent headers are absent from the domain, and defaults
are taken as the code takes them. `lineage` and `startKey` record the truth that
contexts are compared with. `Bridge` feeds the parser's second form, baggage.

### ServiceStart

Initially every participant may declare anything: topics with saga or plain
handlers, `final`, `fork`, none at all, and its provider may not resolve.
`Register` is one round of the loop of `onModuleInit`; `Route` is
`buildRouteMap` with its two errors. From then on every await is a step that may
fail: `Connect`, `EnsureTopicsExist`, `Try` (an attempt makes a consumer),
`Proceeds` and `Fails` (connect, subscribe, run), `Clean` (its disconnect),
`Backoff`. `StopRunner`, `StopProducer` and `StopConsumer` are `disconnect`, at any
time. `consumers` has the state of the consumer of each attempt, `current` is
`this.consumer`, and `early` records that the stop came before the start had
ended.

### Projector

A worker is a batch in progress with what it has read so far; the phases that
wait for Postgres or Redis are actions. `Lookup` and `Persist` are separate, so
the view may be stale when it is used. `StatusesAfter` is the loop of
`DeriveChangesCommand`, `Upserted` the `ON CONFLICT` clause, evaluated on the row
as it is then. A transaction that Postgres rolled back for a deadlock and that
succeeds on a retry leaves no trace and is one `Persist`; one that fails for good
is `PersistFails`, a failed query is `QueryFails`. `Takeover` hands the partition
of a slow member to another one while the first is still working.

### LiveStream and LivePages

`callbacks` is `channelCallbacks`, `commands` the subscribe and unsubscribe
commands that are on their way to Redis in order, `redis` what Redis has carried
out, `wire` the events on their way to each browser. Other browsers come and go
all the time. A page is either the table, which follows the channel of all sagas
through `createSseStore` (`source`, `timer`, `status`, `seen`, `paused`) and merges
messages into its cache (`Flush`), or the page of a saga, with a stream of its
own (`useSse`) whose messages invalidate its query after a pause. `Poll`,
`Refetch` and `HandleRefresh` are the refetches of the table, `Serve` and
`Receive` the two halves of a request. A saga is a version number, its
`eventCount`. `handed` and `excused` are histories: what a table was told of, and
which sagas had their last update lost, paused or overtaken.

### SagaDetail and SagaTimeline

Events of a tree are numbered by publication and reach the tables in batches
topic by topic, so an effect may be there before its cause (`Project`). The
queries of the page are read steps: `ReadPage` one page after a cursor, of a load
or of a refetch; `FetchTree`; `FetchTreeEvents` for each saga of the subtree. A page
has a set of events, which are in the order of their numbers. `Below`, `Span`,
`Depth` and their helpers are the transformers over what has been loaded;
`Timeline` and `Orphans`, which build a tree of nodes by recursion, are in
`SagaTimeline`, a module that only TLC uses.

### TelecomFlows and RecurringFlow

A message is in `bus` for good and handled when its id is in `handled`.
Participants sleep before they act, so a handler is one step at the end of the
sleep; what comes after the await of a publication is an element of `todo` and
runs later, for instance `StoreRecord`, the creation of a record after the
message about it was published. `store` (or `recurring`, `plan`, `items`) are the
stores. Redelivery, a failed heartbeat, a request that fails between counting an
attempt and publishing it, and a restart with empty stores are faults; what an
update did not find, or wrote over, is recorded in `missed` and `late`.

### BuiltInMonitor

`HandleMessage` is the consumer, which gets the topics in any order; `Answer`
the API; `Open`, `Serve`, `Receive`, `ReceiveEvent` and `Subscribe` the life of
a page, `Tick` the timer of the dashboard with its refresh, `ClearAll` its
button. The three pages differ in what a live event does to them
(`ProcessEvent`, `HandleEvent`, `Belongs`).

## 3. What the runs check

| run | distinct states | bounds |
|---|---|---|
| `kafka_consumption` | 66,000 | 3 messages with keys a b b, 2 invocations, 2 faults |
| `runner_errors` | 194,000 | 4 messages, 1 retry, 1 rejection |
| `lineage_identity` | 266,000 | 3 sagas, 3 contexts at a time, 2 keys |
| `service_start` | 1,151,000 | 2 participants, 1 topic, 2 attempts |
| `projector` | 392,000 | 2 workers, 2 partitions with 2 and 3 messages, 2 faults |
| `projector_lost` | to the violation | the same, 1 fault |
| `live_pages` | 1,273,000 | the page and another browser, 1 saga, 2 updates, 2 faults |
| `saga_detail` | 47,000 | 6 events of 3 sagas on 3 topics, pages of 2, 3 fetches |
| `built_in_pages` | 412,000 | a saga and its child, 2 events, 2 faults |
| `built_in_dashboard` | 752,000 | 1 saga, 2 events, refresh every 2 ticks, 1 fault |
| `telecom_flows` | 13,000 | one request, 0, 1 or 3 lines, 1 fault |
| `recurring_flow` | 28,000 | 3 requests, at most 0 (no number), 1 or 2 attempts, 1 fault |

What each property says, run by run:

- `kafka_consumption`: commits cover only handled or given-up messages
  (`CommittedCovered`); only a stopped consumer gives any up (`AbandonOnlyOnStop`); first handlings are in key order (`KeyOrder`); two handlers on one
  key need a fault (`OverlapNeedsFault`); the transport implements `KeyedDelivery`
  (`ImplementsDelivery`); a log is consumed unless the consumer stops
  (`LogIsConsumed`), and after a stop all lanes and commits end (`StopDrains`).
- `runner_errors`: retry budgets (`RetryBudget`), the hook after the budget
  (`HookAfterBudget`); the runner implements `SagaErrorFlow`: the order of the functions,
  and what they publish on the way (`ImplementsErrorFlow`); every message ends (`MessagesEnd`).
- `lineage_identity`: true roots (`RootIsTrue`), full ancestry with headers
  (`AncestryIsTrue`), the key of the tree (`StartKeySticks`).
- `service_start`: a running consumer is the known one, is not reported down while
  its group is stable, and is gone after a stop that found the start ended
  (`OneConsumerRuns`); each handler of each participant that resolves is where its
  message leads, and two for one message stop the start (`EveryHandlerIsRouted`);
  start and stop end (`StartAndStopEnd`).
- `projector`: one row per event (`OneRowPerEvent`); a saga is completed exactly when
  one of its final events is in the log (`CompletedIsLogged`); counts
  (`CountCoversLog`); the projector implements `ReadModel`: events appear together with
  the completion of their sagas, nothing is taken back, offsets only move forward, over
  what is recorded or lost (`ImplementsReadModel`); what it takes to lose
  a compensation (`RegressNeedsRace`); every event is in the log in the end, or in a
  transaction that failed (`EventsAreProjected`).
- `live_pages`: with no command on its way the process is subscribed to exactly
  what is followed (`SubscriptionsMatch`); at rest a page shows the versions of the
  database, but for sagas with a reason (`PageFollows`); outages end with a
  connected page (`Reconnects`).
- `saga_detail`: the last page loaded, nothing that was there at its first page is
  missing and nothing appears twice (`PagesCoverLog`); each event is in the timeline once, below
  the event that caused its saga (`TimelineIsWhole`); spans of a saga follow each
  other and depths are true (`SpansTile`).
- `built_in_pages`: the status of a group ends up as that of its latest event
  (`GroupStatusIsTrue`); a page misses only what was not sent to it or lost with a
  connection (`FeedMissesOnlyTheGap`). `built_in_dashboard`: the counts settle on the
  server's (`DashboardCatchesUp`).
- `telecom_flows`: a bulk is announced complete when its lines are
  (`CompletionCoversLines`); nothing follows a final event (`FinalIsLast`); at rest records show
  an outcome unless an update missed them, came late, or a handler broke
  (`RestShowsOutcome`); flows end (`FlowsEnd`).
- `recurring_flow`: never more attempts than allowed (`AttemptsWithinMax`); one charge
  (`ChargedOnce`); no suspension of what was paid (`SuspendedUnpaid`); attempts end
  (`AttemptsEnd`).

Several of these properties are weaker than one would like, because the code is:
`CommittedCovered` counts what a stop gives up (and `AbandonOnlyOnStop` says that
nothing else gives anything up), `StartKeySticks` is about trees started with a key,
`OneConsumerRuns` leaves out a
stop during the start, `RestShowsOutcome` has its three excuses. In each case the
comment at the property names the excuse, and the next section the trace.

### Where documentation and code disagree

`projector_lost` exhibits one: `kafka-projector.service.ts:108` says that after a
failed transaction the offset is not resolved and KafkaJS retries the batch, but
`processBatch` returns normally, `eachBatchAutoResolve` is not disabled, and the
batch is resolved and committed.

Others were met while modelling. Each is a behaviour of the model, most of them
in the excuse of a property:

| the sentence | the code |
|---|---|
| the watermark "prevents message loss" (`saga-transport-kafka/README.md:132`) | the early return on a stop (`kafka.transport.ts:236`) looks to KafkaJS like a batch processed in full, and unseen messages are committed |
| "sequential within the same key" (`:126`) | lanes of a rejected batch overlap with its redelivery (`kafka.transport.ts:233`) |
| `disconnect` closes gracefully (`doc/custom-transport.md:57`) | the producer is closed first, while handlers still emit (`kafka.transport.ts:102`) |
| the key "defaults to rootSagaId" (`doc/concepts.md:21`) | or to that of the context in which `emit` is called, which may be another saga (`saga-publisher.ts:139`) |
| COMPENSATING is sticky (`monitor/backend/README.md:104`) | unless a batch with an older lookup commits later (`prisma-saga-state.repository.ts:212`) |
| idempotent by event id (`:108`) | an event twice in one batch is counted twice (`kafka-projector.service.ts:83`) |
| "Full stats refresh every 10s" (`dashboard.html.ts:394`) | once 60 ticks are remembered, their number stays a multiple of ten: a refresh every second |
| "re-renders only on connect/disconnect" (`sse-provider.tsx:206`) | the snapshot is changed in place, and never re-renders anything |
| "Fallback: refetch when SSE is disconnected" (`live-saga-table.tsx:58`) | for the same reason the table does not see the disconnection |
| the migration "gets its own rootSagaId" (`upgrade-approval.participant.ts:47`) | `startChild` keeps the root of its parent |
| the first span "starts at saga.startedAt" (`transformers/waterfall.ts`) | `startedAt` is that of the last event in the batch that inserted the row (`derive-changes.command.ts:62`) |

Smaller ones: `executeWithRetry` never reads the `maxRetries` of a
`SagaRetryableError`; a `final` handler that publishes through
`SagaPublisher.emit`, and not through its `emit` argument, publishes an event
without the hint; a query `lines` or `maxAttempts` that is no number makes a
bulk that never ends and a cycle without a limit; `MIGRATING`, written after an
await, may overwrite `COMPLETED`; a `disconnect` during the backoff of a start
leaves the next attempt's consumer running; a handler that emits and then throws
a retryable error emits again in each attempt; a payload that is not JSON is
taken for a message that is not of a saga (`saga-parser.ts:24`);
`injectBaggage` activates its baggage for an empty callback
(`otel-context.ts:82`); a heartbeat of the timer that rejects is not caught
(`kafka.transport.ts:254`).

### Why the bounds are enough

- Transport: three messages with keys `a b b` make a lane with two messages and
  one with one, so lanes end out of order, a lane dies between its messages and
  a watermark has a hole. Two invocations are an orphan beside a live batch
  (three, and four messages, were explored for safety too); two faults let a
  rejected batch be followed by a crash or a rejoin, or by a second rejection.
- Runner: one retry distinguishes the first, the retried and the exhausted
  attempt. The four messages have every kind of route and every option between
  them; they interfere only through the producer.
- Identity: three sagas are a grandparent, a parent and a child, or a tree and an
  independent one; three contexts are enough for a parent's and a child's code beside
  a handler; two keys are that of a tree and that of another.
- Start: two participants conflict or not on one topic; two attempts are one that
  fails and is cleaned up, and one after it, beside which a stop may run.
- Projector: a saga whose compensation and completion are on one topic and a
  late step on another is the smallest log with every race between two batches;
  the second saga makes a batch write two rows. Two workers are two partitions,
  or one partition with its old and new member; two faults are a takeover and a
  failure on top of it.
- Live pages: one other browser is enough to be first or last on a channel, one
  command on its way to be overtaken by the next; a window of one id drops the
  id that comes again after another; two updates are one shown and one on its
  way; two faults are an outage and what is lost or repeated around it.
- Saga page: the tree has a fork, a sub-saga of it, an event back to the root and
  a late event after a gap that is cut; with three topics, every subset that keeps
  the order within topics may be there at each of the three reads.
- Built-in monitor: `HistorySize` and `Period` stand for 60 and 10; the relation that
  matters, that the history is a multiple of the period, is kept. Two events
  swap their topics' order; the child makes a group.
- Flows: three lines complete in any order, one line completes before its bulk is
  stored, none never does; up to two attempts with three requests are a retry
  that succeeds, one that is the last, and one too many. One redelivery,
  restart or failure falls at every step of a flow.

`CHECK_DEADLOCK FALSE` is set where the system does stop: the log is consumed, a
service is stopped, a flow has ended, a bound is reached. No symmetry is used.

### Fairness

- `KafkaTransport`: weak fairness for the steps of the event loop and of KafkaJS
  (fetching, lanes whose handler or heartbeat returns, resolving, committing):
  promises that are settled continue, and KafkaJS fetches for as long as it runs.
  A handler that never returns is outside of `LogIsConsumed`, as it is in the
  code, where it blocks its lane for good. None for throws, heartbeat failures,
  rejoins, crashes and the stop.
- `SagaRunner`: delivery, timers (`Wake`), redelivery by the transport, and each
  function of a participant ends in one of its ways, none preferred.
- `ServiceStart`: what was asked of Kafka is answered, by success or failure, and
  timers fire. Nobody has to call a stop.
- `Projector`: fetching, and the phases of a batch: Postgres and Redis answer.
  Failures are bounded and not fair.
- `LivePages`: a source opens or fails, timers fire, a backend that stopped is
  started again. Lost connections are bounded and not fair.
- `BuiltInMonitor`: the consumer polls, requests are answered, the timer of the
  dashboard fires. The application need not publish.
- `TelecomFlows`, `RecurringFlow`: weak fairness for the participants together;
  a run has finitely many messages, so each is handled. None for clients and
  faults.

## 4. What is proved

TLAPS checks the theorems for every value of the constants that satisfies the
named assumptions in the modules (a log that is not empty, keys for all offsets,
natural bounds, `NoKey` not among the keys given, the viewer among the clients). That the
parents of sagas form a tree (`AcyclicAssumption`, `TreeAssumption`) is because ids are
fresh and a saga is started by code that runs in its parent.

**`Transport_proofs`**, about `KafkaTransport`: `Invariance` shows `Spec => []IInv`. The safety
properties are not inductive: a commit takes over the fetch position, which any
invocation, also an orphan of long ago, may assign from its own tracker. `IInv`
therefore adds that everything before the position (`PositionCovered`) and before
the first offset of any invocation (`FirstCovered`) is covered, that trackers
count handled messages only (`CompletedHandled`), and that while the consumer runs
a lane that has returned has finished its group (`ReturnedLanesDone`), which is what
makes the automatic resolve of the last offset harmless. From it `TypeCorrect`,
`CommitsAreCovered`, `NothingAbandonedWhileRunning`, `KeysInOrder`, and `Refinement`:
every step is a step of `KeyedDelivery` or a stutter. `OverlapIsOfFaults` has an
invariant of its own (`OneCall`): without a fault there is one call at a time, and a
call that has ended has no lane left.

About `ServiceStart`, in the same module: `ServiceIInv` says where a consumer may be at each point of a start
(`AttemptKnown`: between attempts none is known and none runs, within one the known
one does not run yet) and that a stop which is not early finds a start that takes no
further step (`StopKnown`). From it `ServiceTypeCorrect` and `ConsumerIsKnown`. For
`HandlersAreRouted` the invariant is `Registered`: of the participants passed so far, those
that resolve and handle something are in the registry; that a registry which is not
refused has one participant per handler follows from the first place a participant
has in it, a smallest number.

**`SagaRunner_proofs`**: `IInv` ties the history of calls to the attempt counter of
the function at work and says that what comes later in the flow has not been
called (`CallsCounted`). From it `TypeCorrect`, `BudgetsKept`, `HookComesLast`;
`Refinement` shows that with retries as stutters the runner implements
`SagaErrorFlow`, and that each publication is one it allows (`PublishRefines`).

**`SagaLineage_proofs`**: `IInv` adds `LineageIsClosed`: the ancestors of a saga are
its parent and the ancestors of that. The proof goes by what a context *is right
about*: lemmas show that a root, a child, a rebuilt parent, a rekeyed event, a
published and parsed message and a bridged one are right when what they come from
is, and that creating a saga disturbs none of it; each action is then a
combination of them. From it `RootsAreTrue`, `AncestorsAreTrue`, `NoWrongAncestor` (what
is left of the ancestry without headers is a prefix of the true one), `KeysStick`,
`TypeCorrect`.

**`Projector_proofs`**: `TypeCorrect`; `OneRow`, from the uniqueness of the primary key and
the set `fresh` of a batch. `CommitsAreProjected` needs `IInv`: everything before the fetch
position is covered (logged, of no saga, or lost with a failed transaction), and so
is everything before each batch, whether its worker still owns the partition or
not; of a batch's own messages those not covered are in `fresh` until they are
persisted (`JobCovers`). A commit then takes over what its batch has covered.
What the loop of `DeriveChangesCommand` computes is taken from its recursion
equation: `LoopRuns` shows that a function satisfying it exists for every batch,
by the least end of a batch for which there would be none, and `StatusTurns`
what a turn changes. The lemmas that follow (a saga is COMPLETED after the loop
exactly if it was before or a final event of it counted; which offsets count) carry three
theorems. `RegressionNeedsRace` and `CompletionIsLogged` need `ReadInv`: a batch whose
view says COMPLETED is right for good, because that status is never left.
`CountIsCovered` needs `AloneInv`: without a takeover every batch belongs to the
owner of its partition, and if no event was sent twice nothing of its `fresh` is
in the log before it persists; the rows are then counted with the theorems on cardinality.
`Refinement` maps the events of the log to `recorded` and the COMPLETED sagas to `completed`
and shows that every step is a step of `ReadModel` or a stutter, from all of these
and `OffsetInv`: the fetch position is what is committed, and the batch of the worker that
the group knows begins right behind it, so that a worker whose partition was taken over
can neither commit nor set an offset back. A `Persist` is then a `Record` of what it adds
to the log, and `CompletedIsLogged` on both sides of the step gives the sagas it completes.

**`LivePages_proofs`**: `SubscriptionsAreShared`. The table of callbacks is the inverse of
who follows what (`CallbacksFollow`), and the last command about a channel on its
way to Redis, or without one Redis itself, agrees with the table (`CommandsSettle`);
a client without a connection follows nothing (`PageInv`). `PagesShowTheDatabase` adds
`LiveInv`: updates are published and reach a browser in the order of their versions
(`OrderInv`), and for every saga one of three things holds (`NewsInv`): it is excused; or the
page and every answer on its way agree with the database, or will be corrected by what
is pending; or the latest update is on its way and the page has not seen it. At a
settled page the third cannot be.

**`RecurringFlow_proofs`**: `TypeCorrect` and `AttemptsAreBounded`. A retry checks the status only;
that it has an attempt left is `RetryHasAttempt`, which the handler of failures
establishes, redelivered or not. `ChargedAtMostOnce` and `SuspensionIsUnpaid` need
`AttemptInv`: without faults at most one message of the cycle is on its way, none while
the record is in a status that allows a retry, and once a charge was made only
messages that follow a payment. What holds with faults too is kept apart (`FlowInv`),
because the second theorem promises something after redeliveries as well.

**`TelecomFlows_proofs`**: `FlowInv` says that a flow is sequential or an activation in bulk,
and which of them it is no step changes.
- `TypeCorrect` contains that ids are unique. A handler numbers what it publishes on
  from what its message has caused already (`BusInv`), so it cannot repeat an id when it
  runs again after a redelivery.
- Sequential (`SeqAll`): without faults one message is alive, or one handler goes on, and
  `InTime` says of it which sagas have ended before: none while it is in the saga of the
  request, that of the request once it is in a child saga. Participants differ only in
  how they pass a message on (`Passes`), so the four upgrade, migration, portability and
  billing chains share the lemmas `SeqMove` and `SeqSplit`.
- `RestInv`, with faults or without: a record that is not settled is in the care of a
  message that waits and leads to an update of it, of a handler that goes on, or of
  what the property excuses.
- In bulk (`BulkAll`): completions are one per sub-saga of a line (`LinesOnce`), the
  record counts no more than have been handled, and the announcement, made when it
  reaches the total, therefore comes when the set of completed sub-sagas is the set of
  all; a completion not yet handled contradicts an announcement, so there is one. With
  faults `BulkRest` remains: counted completions and messages that wait are enough for
  the total, unless an update missed the record.

From it `CompletionIsComplete`, `FinalEventIsLast` and `RestHasOutcome`, for any number of lines
the controller accepts (at most ten) and any number of faults, about one request: two share
no saga and no record.

**`MonitorPages_proofs`**, about `BuiltInMonitor`: `PageMissesOnlyTheGap` from `PageInv`. An
event that was sent to the page is on it, or on its way to it, in the stream or in an
answer (`FeedInv`); it is one of those the service has kept (`StoreInv`). An answer that was
made before an event and arrives after it must leave what the stream has brought: there
is one lemma for what an answer does to the page (`StepReceives`) and one for what an event
does (`StepReceivesEvent`). `GroupsAreTrue` needs `PublishedInv` (times do not decrease, a parent publishes
before its child) and what three operators compute: `findRoot` ends at the true root once
all parents are known (`RootOfKnown`), flattening the lists of a group gives
its events (`MergedIsGroup`), and the last one after a stable sort is a latest one
(`SortedLastIsLatest`). Walks up a tree are recursive functions; that there is one
satisfying its equation is `UpTheTree`, by a saga for which there would be none though
there is for its parent.

About `SagaDetail`, in the same module, with the same lemma: `PagesCoverTheLog` from `PagesInv`.
`Paged` says of pages read one after the other that they have, each once, the events up to the
last cursor out of those there were at the first page, and of the pages of a request in
progress that there are more to come. It survives the projector, because what is
below a saga, and its events in the log, only grow (`BelowGrows`, `EventsGrow`). An event that
is projected behind the cursor is missed, and was not there at the first page.
`SpansAreTiled` needs the types only: the next event of a saga is a smallest number, the
earliest start exists, and with no saga missing every one is below the root (`AllBelowRoot`).

Only model-checked: liveness (every temporal property but the refinements and the
action properties above), which is out of the prover's reach with fairness, and
`TimelineIsWhole`, about nodes built by recursion over a list: what they are for every list
would take an induction over data.

## 5. What is not modelled

- Contents: payloads, names, descriptions, amounts, tracing, logging, layout, and
  timestamps but for their order where something depends on it.
- OpenTelemetry spans; baggage in an active context (`SagaLineage` takes baggage as a
  bridge writes it); legacy messages with the saga in the body.
- In the flows, the moments between the emits of one handler: a handler that awaits
  several publishes them in one step. Consumers may take them in any order all the same.
- A start after a stop: what a stop gave up then stays lost, while later messages of
  the same keys are handled.
- Row locks inside a Postgres transaction: `Persist` is one step, so the order in which
  `PersistBatchCommand` sorts its rows is not visible.
- The heartbeat timer of the transport, and delays as numbers: only their order.
- Statistics, predictions, attention lists and short-lived cached answers of the
  backend; counters and sorted sets in Redis; several replicas of the backend.
- Filters, forms, drawing, mock data; the list of recent live events; the load test
  of the dashboard and the scripts; topics missing from `ALL_TOPICS` of the built-in monitor
  (it does not follow `rf.*` and `device-provisioning.*`).
- The ping-pong example, which only logs and emits; metrics and wiring of modules.

These are read-only, observation, or without state. What could be added is an abstract
subscription that `LiveStream` implements.
