# A TLA+ verification of the graphics service

This directory models the service's own logic: its request/reply client for the
statistics service, its JetStream consumer and publisher, the lifespan that
starts and stops them, the way it stores requests, and the way it builds charts.
TLC checks the models on small instances; TLAPS proves their safety properties,
and the refinements as far as they are safety, for every instance. Paths below are
relative to `src/app/`.

## 1. Inventory

The service is one asyncio process (FastAPI under uvicorn). Everything runs in
one event loop, so an interleaving can happen at an `await` and nowhere else.
The lifespan (`app.py`) starts three background services, each with connections
of its own; handlers of HTTP requests call into them concurrently; at shutdown,
when the handlers have returned, the lifespan stops them again.

| Part | State it keeps | Operations | What is hard | What makes it correct |
|---|---|---|---|---|
| `NatsStatisticsClient` (`infrastructure/messaging`) | connection, subscription, table `_pending` from correlation id to future | `start`, `request`, callback `_handle_response`, `stop` | responses lost, late, duplicated, of other replicas; timer against response; cancellation; `stop` in the middle of calls | a call ends, once, with its own answer or an error; the table neither loses nor leaks it |
| `NATSConsumer` | client, JetStream context, subscription, `_running`, set of active tasks | `start`, processing loop, a task per message, `stop` | redelivery, lost acknowledgements, broken connections, outages in which a connect never ends, failing reconnection, a crash, `stop` at any point | at-least-once handling; every message settles once outages end; `stop` waits for the tasks, ends even in an outage, and leaves nothing open |
| `NATSPublisher` | client, context, `_connected` | `connect`, `publish`, `disconnect` | concurrent callers each of whom may reconnect; lost acknowledgement; outages; a stream that takes other subjects | success means stored; one failure is survived; nothing stays open |
| Persistence: `RequestRepository`, `SqlAlchemyUnitOfWork`, `DatabaseManager` | rows, open transactions, the pool | `save`, `commit`, `rollback`, session life cycle | races on one id, ambiguous commit, failed flush in a unit of work, pool used up, deadlock | one row per id; 201 and 409 mean what they say; units of work are atomic |
| Graphics build: `GraphicsService`, strategies, `MetricResolver`, providers, exception handlers | per request: the resolver's cache, the lists built so far | `build`, `resolve`, `execute` | a sequence of remote calls each of which may fail, a catalogue that changes in between | complete and consistent answer or an error; bounded number of calls |
| Chart data: `DataProcessor`, series and visualization builders | none | pure functions | nulls, uneven rows, zero as "no position", floating point, bucket edges | nothing counted twice or dropped, no value invented |
| Lifespan (`app.py`) | which services exist | start, stop in order | partial failure of start and of stop; NATS away; a publisher that only a handler connected | start-up reaches serving; each service is used in the order it relies on; every service that was started is stopped |
| RPC provider and GET routes of the graphics API | none | pass-through, a resolver per request | as a build: each call ends in an answer or an error | as `GraphicsBuild` |
| Redis cache, health service, auth helpers, settings, logging, container, migrations, interfaces | none that outlives a call | - | - | not modelled (section 8) |

Interaction: a graphics build calls the providers, a provider makes one
`NatsStatisticsClient.request()`; `POST /nats/publish` calls the publisher;
`POST /service/request` calls `Service.create_request`, which calls
`RequestRepository.save`; the consumer hands messages to a handler. The modules
compose along these lines: `GraphicsBuild` relies on `RpcPromise`, which
`StatisticsClient` implements; `NATSConsumer` extends `JetStream`; `Lifespan`
extends `NATSPublisher` and knows the consumer and the statistics client as
`ServiceLife`, which `NATSConsumer` and `StatisticsClient` implement;
`RequestStore` implements `TransactionalTable`.

## 2. Plan

Done, in this order:

1. `RpcPromise`, `StatisticsClient`, `StatisticsClientProofs`: the client every chart depends on.
2. `JetStream`, `NATSConsumer`, `NATSPublisher`: messaging.
3. `RequestStore`: persistence.
4. `GraphicsBuild`, `Binary64`, `ChartData`: charts.
5. `ServiceLife`, `Lifespan`: the composition of the background services, with outages of NATS and the subjects of the stream.
6. `TransactionalTable`: what a unit of work promises, and that `RequestStore` keeps it.
7. A crash and restart of the consumer's process; the GET routes in `GraphicsBuild`.

8. The proofs: `RequestStoreProofs`, `NATSPublisherProofs`, `LifespanProofs`, `NATSConsumerProofs`, `GraphicsBuildProofs`, `ChartDataProofs`, on `FoldProofs`.

Next, for the model: `GraphicsBuild` with its calls made of `RpcPromise`
instances instead of the assumption that each ends.

Next, for the proofs: that a build's whole loop takes the steps of an abstract
"one answer per item" specification; that a deadlocked unit of work, once undone,
leaves the saves of others as they were; that `NATSConsumer` never has more
tasks for a message than deliveries of it.

## 3. Conventions

An action is one run of a coroutine between two awaits; where two awaits with
nothing observable between them follow each other they are one action. Log
lines are awaits too (aiologger), and are kept where an interleaving at them
matters (`NATSConsumer.stop`). What is outside the repository (NATS server,
statistics service, PostgreSQL, clients' reconnection, binary64) is marked
*External* in the modules and gives every outcome the code could see.
Delays (back-off, sleeps) are abstracted to "later". Definitions whose comment
begins with *Mutant* are the forms a plausible bug would give the definition
that follows; no specification uses them. Every property is violated under the
mutant that `PROJECT.json` pairs it with, so none holds by the shape of the
model.

## 4. Modules and the code

**RpcPromise** - what callers may rely on: `Open`, `Reply` (by the service),
`Return`, `GiveUp`. Connections, futures, table and timer are invisible.

**ServiceLife** - what the lifespan may rely on of a service: `StartBegins`,
`StartEnds`, `StopBegins`, `StopEnds`, the last two pairs well or with an
exception, and `Crash`, which begins a new life (docker-compose.yml restarts the
container). A stop under way ends; a start under way does while what it waits for
is `reachable`. For the consumer that is a NATS server, since its `nats.connect`
has no limit on its attempts; the statistics client's has, so there it is `TRUE`.

**StatisticsClient** - `call[c]` is where `request()` stands (or its outcome),
`fut[c]`/`result[c]` its future, `expired[c]` the timer of `asyncio.wait_for`,
`pending` the keys of `_pending`, `bound` whether `_nc` and `_js` are set, `sub`
whether `_sub` is. `Register` runs to the first await (the publish);
`PublishOk`/`PublishFail` are its two outcomes; `TimerFires`, `ResumeTimeout`
and `ResumeDone` follow `asyncio.wait_for`, where a timer that fired in the turn
in which the response arrived wins. `Abandon` cancels the calling task.
`stop()` is three actions, since unsubscribing and draining are awaited, and
ends early where nats-py raises. `KeepsPromise` maps the client to `RpcPromise`:
a call in flight is `open`, a reply was given when a response was published.
`LivesAsService` maps `life` to `ServiceLife`; `start()` is one action.

**JetStream** (external), **NATSConsumer** - `mstate`/`deliveries` are the
server's view of a message, `link[k]` the connection of the k-th client the
process opened, `reachable` whether there is a server: while there is none, no
connection is up and `Connect` (nats_consumer.py:107) does not return;
`cur` is `_nats_client`, `created` the newest client, which
`_js` always belongs to, `psub` the client of `_psub`. `loop` is where
`_message_processing_loop` stands, `task[d]` where the task for delivery `d`
stands, `batch` what reached the pending fetch. `StopBegin`, `StopWait`,
`StopWaited`, `StopClose`, `StopClear` are the runs of `stop()` between its
awaits. `Crash` is the end of the process at any point before `stop()` has
ended: the server's view survives, everything else begins anew, and what ran is
delivered again after `ack_wait`. The branch for `_psub` being None is
unreachable and left out.

**NATSPublisher** - `pc[p]` is where the caller `p` of `publish()` stands, `Boot`
the lifespan's `connect()`; `cur`, `js`, `connected` are the fields shared by all
callers; `stored[p]` which of its two attempts the stream has stored. The checks
for `_js` being None at :143 and :166 cannot fail: `disconnect()` runs when no
handler does. `reachable` says whether a NATS server answers, `stream` with
which subjects the stream was declared: `{stream_name}.*` by the consumer
(`flat`), `settings.subject`, `{stream_name}.>`, by the publisher (`deep`);
`add_stream` of the other one fails and is passed over. `subject[p]` is drawn
when `p` begins. `BeginConnect`, `BeginPublish` and `BeginDisconnect` are the
code; `BootBegin`, `PublishBegin` and `DisconnectBegin` add the order in which
the service calls them.

**Lifespan** - `stage` is where `lifespan()` stands, `consumer` and `stats` the
lives of these services; the publisher's module is extended, and its code
operators are called without the guards of its own `Next`. `ConsumerFailed` is
the except clause that passes the publisher over; `nats_publisher` is None
exactly when the lifespan's `connect()` was never called. `StopStats` follows
the last handler, as uvicorn's graceful shutdown has it. `UsesPublisherRightly`
is the whole of `NATSPublisher!Spec`, fairness included.

**TransactionalTable** - rows of sessions invisible until a commit the session
asked for, then visible at once (interfaces/uow.py). `RequestStore` maps `rows`
and `writes` to it; `asked` is its history variable.

**RequestStore** - `rows` are committed rows with the session that wrote each,
`writes` those of open transactions, `conns` the connections in use. A `Save` is
one `Service.create_request`; a `Uow` is any body of an `async with` block:
saves, commits, rollbacks, caught or escaping exceptions. `Fail` is what an
exception does to each kind of session.

**GraphicsBuild** - `job[b]` is the coroutine of one request: its place, the
resolver's cache, the series and diagrams so far. The operators `Begin`,
`Proceed`, `Resolve`, `WithData` are the code between two calls, the actions are
the ends of calls. Each series carries the version of the catalogue its field
came from; `Status` is the table of the exception handlers. `Read`,
`MetricsListed` and `ReadReturns` are the GET routes: at most one call each.

**ChartData** - `BuildItem` applies everything the strategy applies to the
datasets of one item, but for the deltas that the response drops. Values are natural numbers of halves, a null is the empty
set, averages are fractions. **Binary64** is external: sums, products and
quotients rounded as Python's float does, on which the bounds of a histogram
depend.

## 5. Runs

| Run | Instance | Shows |
|---|---|---|
| `StatisticsClient` | 2 calls, 1 foreign id | table, futures, both refinements, every call ends, `stop()` ends (383k states) |
| `NATSConsumer` | 1 message, 2 deliveries, 1 broken connection, outage or crash, NATS there or not at the start, 2 start attempts | at-least-once, settlement, `stop()` awaits the tasks there are, a `ServiceLife`, the loop ends (475k) |
| `Lifespan` | 2 publishes, 2 attempts each, unbounded outages | stored when successful, never stuck on "connected without a client", the publisher is used as it relies on, shutdown is complete or breaks off at a `stop()` that raised, start, callers and shutdown end (175k) |
| `RequestStore` | 1 save, 2 units of work, 2 ids, pool of 2 | uniqueness, meaning of 201 and 409, transactions, pool, saves end though units of work deadlock (50k) |
| `GraphicsBuild` | builds and reads of every shape, one after the other, over 2 codes, 2 items, 1 catalogue change | completeness, consistency, no stale catalogue, bounded calls, answer (28k) |
| `ChartData` | 2 entities; 3 dates with values 0, 1, 2.5 and null; 2 dates with values at bucket edges; 3 rule sets | pie, line, buckets partition whole positions (303k states) |

Bounds and why they are enough:

- Two calls are what it takes to confuse calls, one foreign id to receive an
  answer nobody waits for; all ids are treated alike.
- Two deliveries show redelivery, loss and exhaustion, and both may have a task
  when `stop()` is called; one message suffices for properties about each
  message. `MaxClients` is set so that it never blocks a reconnection
  (`BoundsAssumption` in the MC modules, evaluated by TLC). One fault is a
  broken connection, an outage or a crash; an outage at the start of the process
  is none, so a start may wait for the server and then meet a fault. `max_retries` is 2
  instead of 5: each further attempt repeats the second.
- Two publishes interleave every pair of `connect()`s; the server may come and go
  any number of times. The lifespan runs once: a restart begins it anew with a
  stream that exists, which `Init` allows.
- Two ids and two units of work make the shortest deadlock; a pool smaller than
  the number of sessions makes it run out (`SmallPool`). A unit of work that
  saves and commits races with the save as a second save would.
- Requests share nothing but the catalogue and what a handler might keep, so one
  handler that serves one request after the other stands for all.
- Two items are the shortest loop whose second round can fail or meet a newer
  catalogue. `CallCap` lets the count of calls exceed what `CallsBounded` allows.
- Three dates give a null before, between and after values.

Every run sets `CHECK_DEADLOCK FALSE`: each of these systems stops, when the
calls have ended, the service has shut down or the item has been built. That
nothing stops too early is what the liveness properties say.

### Fairness

- Event loop: a ready coroutine runs and an expired timer fires (`asyncio`), so
  resumptions, the 30 s timer of a call, the 1 s timeout of a fetch and the 30 s
  of `NATSConsumer.stop` have weak fairness.
- `js.publish` has a timeout of its own in nats-py: it ends, one way or another.
- The server: in `NATSConsumer`, `ack_wait` runs out, and while there is a server
  broken connections come back and one that is pulled from, or connected to, again
  and again does answer in the end (strong fairness).
- `nats.connect` with `max_reconnect_attempts=-1` keeps trying for as long as there
  is no server, so in `NATSConsumer`, `NATSPublisher` and `Lifespan` it is owed an
  end only while a server is reachable. `NATSConsumer` does not assume that outages
  end: `LivesAsService` says that `stop()` ends without it and `start()` if a server
  stays reachable, and `EveryMessageSettles` and `LoopEnds` are about behaviours in
  which one does, for a loop that reconnects in an outage hangs until it is over.
  In `NATSPublisher` and `LifespanSpec` that outages end (`<>[]reachable`) is part
  of the specification. `OutageSpec` is the same without it.
- The lifespan's own steps are resumptions; that it is told to stop is not
  assumed. `unsubscribe()` and `drain()` end, by a timeout if need be.
- Database: calls return, the pool's timeout and PostgreSQL's deadlock detection
  work, and the body of a unit of work ends.
- Nothing is assumed of the statistics service (a call ends by its timer), of
  message handlers, of replies reaching the server, or of `stop()` being called.

## 6. What the checks found

Six runs are expected to be violated: each states what a comment, docstring,
message or test says, and TLC shows what the code does instead.

| Run, property | Statement | What happens |
|---|---|---|
| `NATSConsumerLateTask`, `NoTaskAfterStop` | nats_consumer.py:87 "Wait for active tasks to complete" | a fetch under way while `stop()` looks at the set creates tasks later; they run on a closed client |
| `NATSConsumerOpenClient`, `DisconnectedAfterStop` | nats_consumer.py:84 "... and disconnect from NATS." | the loop's reconnection overwrites `_nats_client`; the old client reconnects by itself and stays |
| `NATSConsumerStopRaises`, `StopReturns` | tests/test_nats_consumer.py:186-188 | the last task ends during the log line; `asyncio.wait` of the empty set raises, and shutdown breaks off |
| `LifespanOutage`, `StartsWithoutMessaging` | app.py:53 "NATS unavailable, starting without messaging" | while no server answers, `nats.connect` (nats_consumer.py:107) neither returns nor raises; the service never begins to serve |
| `GraphicsBuildInvalid`, `InvalidOnlyIfRequestIs` | exception_handlers.py:115 "Request validation failed" | the handler sees only payloads of the statistics service |
| `ChartHistogram`, `HistogramCountsAll` | visualization_builder.py:89 "Builds a histogram of latest values distribution." | for 0 and 3 the largest value is in no bucket |

Noticed on the way, without a run: the publisher has the consumer's defect, a
client that `connect()` replaced (nats_publisher.py:49) stays open after
`disconnect()` ("Disconnect from NATS server.", :184), which is why
`ShutdownComplete` is about the newest client only; an averaged position such as
100.5 is in no bucket, though tests/test_position_distribution.py:140 says
"Entities with position > 100 fall into 100+ bucket." (10.5, 30.5 and 50.5 are in
none either), which is why `PositionsPartition` is about whole positions; deltas
computed at strategy.py:78 never reach the response, for the aggregated dataset
has none;
which subjects may be published depends on who declared the stream first, and
with `.env.sample`'s stream the default subject of `POST /nats/publish`,
"template.test", is in none; the statistics client is started once only, so
after a failed start, or a connection nats-py gave up after 60 attempts, every
chart is refused until a restart (nats_statistics_client.py:46); a filter all of
whose ids are malformed becomes no filter (strategy.py:149-153), so the chart
shows unfiltered data; a pool that is used up makes the health check report the
database as down; no route uses the unit of work; the branch for a missing strategy class
(service.py:61) is unreachable with the configuration provider there is.

## 7. What is proved

Every invariant and every action property of the passing runs is a theorem, for
every value of the constants that satisfies the assumptions below; TLC
evaluates these on its instances. The names are those of the theorems in
`PROJECT.json`. Only `CallsPublisherRightly` is about fairness too, and there it
is assumed and handed on, not reasoned about.

Each module proves `Spec => []IInv` (`Invariant`), from `InitIInv` and one lemma
per part of `IInv` or per action, and reads the properties off `IInv`.

| Module | For any | Assumed of the constants |
|---|---|---|
| `StatisticsClientProofs` | calls, foreign ids | they are disjoint (uuid4) |
| `NATSConsumerProofs` | messages, limits on deliveries, batches, retries, clients, faults | `max_retries`, `max_deliver`, the batch size and `MaxClients` are positive, `MaxFaults` is a number |
| `NATSPublisherProofs`, `LifespanProofs` | publishes, retries, clients | `max_retries` and `MaxClients` are positive; the lifespan's `connect()` is none of the publishes |
| `RequestStoreProofs` | saves, units of work, ids, size of the pool | saves and units of work are disjoint; there are ids; the pool has a connection |
| `GraphicsBuildProofs` | handlers, codes, products, entities, items, changes of the catalogue, lists of visualizations | position metrics are codes; there are codes and items; visualizations are lists of strings |
| `ChartDataProofs` | entities, dates, natural values | values are natural numbers (of halves), `MaxPoints` and `MaxDatasets` numbers, the histogram has a bucket |

**StatisticsClientProofs** - `TypeCorrect`, `NeverOrphaned`, `NeverLeaks`; the
action properties `SettlesOnce`, `StopReleases`; `Implements`, the refinement of
`RpcPromise`'s safety; `ClientLives`, that of `ServiceLife`'s. `NoOrphan` and
`NoLeak` are not inductive: that a late response to an ended call does no harm
needs to know that a future with a result has left the table, and that an expired
timer has left a done future behind (`CallInv`); that the answer is the call's own
needs to know where results come from (`ResultInv`: a result is a response that
was sent, to this id, and a response to one of our ids was sent only after the
request was made). `AwaitedReply` is the step from a done future to the outcome.

**NATSConsumerProofs** - `ConsumerTypes`, `AckedIsHandled`, `DeadIsClosed`,
`StopAwaits`; `ConsumerLives`, the refinement of `ServiceLife`'s safety, crashes
included. `AckedOnlyAfterHandled` needs that a task that acknowledges has handled
its message (`TaskInv`). `StopAwaitsTasks` needs that `stop()` waits for all tasks
that were active when it was called (`WaitInv`), which in turn needs that none of
them is created anew: deliveries are numbered upwards, and what is on its way to
the loop has never been a task (`FreshInv`).

**NATSPublisherProofs** - `PublisherTypes`, `SuccessStored`, `FlagOnClient`,
`NoSingleFailure`. `ConnectedHasClient` follows from `ClientInv`: client and
context are set together, and no caller is at work once `disconnect()` has begun.
What a caller may rely on at each await is `CallerInv`.

**LifespanProofs** - `StepPublisher` shows that at each stage the lifespan and the
routes call the publisher only where its module allows it (`StageInv`); with the
fairness both specifications state this gives `CallsPublisherRightly`, so the
publisher's theorems hold of the service (`LifespanSuccessStored`, ...) without
being proved again. `ShutdownIsComplete` needs that the services' lives follow the
stage (`LivesInv`), so that a shutdown that broke off did so at a `stop()` that
raised.

**RequestStoreProofs** - `StoreTypes`, `UniqueRows`, `SavedStored`,
`DuplicateStored`, `LeavesNothing`, and `Transactional`, the whole of
`Spec => Table!Spec`. `SavedIsStored` needs that a save that commits owns the row
it inserted, and `IsTransactional` that whoever commits has asked for it
(`StageInv`); the limit of the pool, that the connections are a finite set.

**GraphicsBuildProofs** - `BuildTypes`, `AnswersAll`, `FreshCatalogue`, `FewCalls`,
`DiagramsMatch`. `JobInv` says what one build is like where it stands, `AtItem` and
`Between` what it is like inside its loop; the operators `Begin`, `Resolve`,
`Proceed`, `WithData` are shown once to lead from one to the other
(`ResolveGood`, `ProceedGood`, `FetchedGood`), and the actions inherit it.
`AnswersEveryItem` is not inductive: half-way, the series answer the metric items
up to the current one (`Answered`); `CallsBounded` needs how many those are;
`OneFreshCatalogue`, that all series come from the cache (`Cached`);
`DiagramsMatchSeries`, what the loop over `requested_visualizations` draws for an
item that has no diagrams yet (`ShownIs`). `MaxItems` must be positive: an alert
history has a series though its request lists no item, so with 0 `TypeOK` fails.

**ChartDataProofs** - `InOneSlice`, `Mirrored`, `LineFollows`,
`PositionsPartitioned`: all that the run `ChartData` checks, now for any number of
entities and dates. The state is built in one step, so `IInv` only says that the
chart is the one that belongs to the input; the work is in the lemmas about the
operators: the ends of a row and of its reverse (`EndsOfRow`), sums and averages
between the least and the greatest value, and disjoint buckets.

**FoldProofs** - what the community modules' folds compute, which the provers know
nothing of: the recursion has a solution and `Sum` adds up a function over a finite
set in any order (`SumsExist`, `SumStep`, `SumBounds`). The induction theorems
cannot be instantiated; the induction is by the smallest counterexample instead
(`Smallest`, `SmallestSet`). `GraphicsBuildProofs` does the same for `FoldLeft`.

Two operators are written so that this is possible: `WithData` folds over
`requested_visualizations` as the loop at strategy.py:93-107 goes over them, and
`FirstValue` and `LastValue` are at the least and the greatest position of a value.

Model-checked only: all liveness properties, and of `LivesAsService` the part that
is liveness (they depend on fairness and ENABLED, which the prover does not reason
about), and `HistogramCountsAll` and the other violations, which are
counterexamples and need no proof. `Binary64`, on which only the histogram's bounds
depend, declares no theorem.

## 8. What is not modelled

- Wording, logging, metrics, sentry, CORS; JSON encoding, except that a payload
  may be malformed (an exception of the handler or the provider).
- Rounding to 4 or 6 decimals, percentages, labels, legends, the statistics of a
  histogram: no property is about them. `normalize_to_percentage` is never called.
- Reads of the repository (`get_by_id`, `get_list`), `create_all`, `drop_all`:
  no caller in the service. `dispose()`, pre-ping and recycling of connections.
- Of the stream's configuration, everything but its subjects (limits, storage,
  retention); that a message expires in the stream.
- In the lifespan, what has no effect on the services: sentry and the patching
  of loggers at the start, `dispose()` of the engine and the closing of redis at
  the end. A second signal that cuts the shutdown short is a crash.
- A limit on the consumer's active tasks: the code has none to state.
- The redis cache and the health check (one command each, no state), the auth
  helpers (unused by routes), settings, logging, dependency container,
  migrations and abstract interfaces.
