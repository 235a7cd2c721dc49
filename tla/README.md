# HaoShortLink in TLA+

TLA+ models of HaoShortLink, a C++ short-link service (`src/apps/shortlink_server`), its
access-statistics consumer (`src/apps/shortlink_event_consumer`) and the small HTTP framework they
run on (`src/HttpServer`). Paths below are relative to `src/`.

## 1. The system

```
 browser ── nginx ── shortlink_server ──┬── MySQL: short_links, users, sessions, statistics tables
                      (N I/O threads)   ├── Redis: link cache, create rate limit
                                        └── Kafka: hao.shortlink.access.v1
                                                      │
                         shortlink_event_consumer (group) ── MySQL statistics tables
                                                      └── Kafka: dead-letter topic
```

| Component | State | Operations | Talks to | What is hard |
|---|---|---|---|---|
| Event consumer (`apps/shortlink_event_consumer/src`) | group membership, message in hand, retry counters, open transaction, DLQ delivery flags | poll, classify, persist, dead-letter, commit, exit | Kafka, MySQL | crash between two effects, lost replies, rebalances with the message in hand, poison messages, replay |
| Statistics tables (`sql/004…`, `AccessStatistics.cpp`) | receipts per event, totals, hourly rows | INSERT IGNORE, UPSERT, SELECT | consumer, API | each event once, order of arrival irrelevant, reading two tables while they change |
| Event producer (`KafkaAccessEventPublisher.cpp`, `RedirectHandler.cpp`) | bounded local queue, poll thread, counters | publish, delivery report, shutdown flush/purge | Kafka, redirect path | never delays or fails a redirect; every accepted event reported once |
| Link repository and MySQL pool (`MySqlShortLinkRepository.cpp`, `utils/db`) | `short_links` rows, idle connections, waiting threads, sessions | create, find, list, update; getConnection, isHealthy, background check | MySQL | unique codes under concurrent creates, a connection lost or replaced inside a transaction, lost wake-ups |
| Link cache (`RedisCachedShortLinkRepository.cpp`, `RedisShortLinkCache.cpp`, `ShortLinkService.cpp`) | cached records with TTL | find (read-through), update then erase | Redis, MySQL | stale fill after an invalidation, failed invalidation, expiry of link and of entry |
| Auth (`AuthService.cpp`, `MySqlAuthRepository.cpp`) | users, hashed session tokens | register, login, authenticate, logout | MySQL | registration in three statements on a pooled connection; expiry, a logout that fails |
| Rate limiter (`RedisFixedWindowRateLimiter.cpp`) | counter with TTL | check | Redis | window boundary, counter without TTL, fail-open |
| HTTP API (`ShortLinkHttpApi.cpp`) | none | create, list, update, statistics, health | all of the above | order of checks, cursor pagination, consistent statistics answer |
| HTTP server and parser (`HttpServer.cpp`, `HttpContext.cpp`) | per-connection parse state and buffer | onMessage | muduo | partial reads, several requests in one read |
| Server metrics (`HttpMetrics.cpp`, `ShortLinkMetrics.cpp`) | table of routes, atomic counters | record, render a page | every I/O thread | one table and its counters shared by the I/O threads, read while they change |
| Consumer observability (`ConsumerMetrics.cpp`, `ConsumerObservabilityServer.cpp`, lag in `main.cpp`) | lag gauges, health flag, one listening socket | observe, refresh, serve, stop | Kafka, scraper | offsets asked for at different moments, rebalances, a stop with a silent client on the line |
| TLS adapter, framework sessions, router, middleware, CORS | see section 13 | | | - |
| Configuration, migrations, deployment, web page, scripts | static | | | - |

What makes each component correct:

- *Consumer, statistics tables.* A committed offset never skips a message; each event is counted
  once in every row it belongs to, whatever is retried, replayed or delivered twice; a receipt never
  stands for a half-recorded event; only defective messages are buried; a lone consumer catches up.
- *Producer.* No redirect waits for Kafka; every event is counted as delivered, failed or dropped,
  exactly once; shutdown ends in bounded time.
- *Link repository and pool.* A link answered as created exists, with the code that was answered;
  two creates never share a code; no getter waits while a connection is free; a session is never
  replaced inside a transaction; creates that wait for each other get no further than a duplicate check.
- *Link cache.* An answer is at most one TTL (and the time of two requests) old; an update leaves no
  entry behind that it should have erased; a cached link never redirects after its expiry.
- *Auth.* A session authenticates its owner until logout or expiry, and nobody else; a user exists
  once per name.
- *Rate limiter.* At most the limit per window while Redis answers; no counter lives on without a TTL;
  `Retry-After` tells the truth to half a second.
- *HTTP API.* A listing page by page shows every link once; the two parts of a statistics answer
  belong together.
- *HTTP server and parser.* The requests parsed do not depend on how their bytes are cut into reads.
- *Server metrics.* No request is lost with a series made twice; a page read while requests go on is
  off by no more than those in flight, and never goes back.
- *Consumer observability.* A backlog always shows, a refresh never makes it look smaller than it was,
  a drained partition goes back to zero, and the process stops when told to.

## 2. Modules

| Module | Models |
|---|---|
| `AccessEvents` | message contract, statistics rows, UPSERTs (pure) |
| `AccessConsumer` | the consumer processes, Kafka group, transaction per statement |
| `AccessProjection` | abstract promise of the pipeline: each event recorded at most once and as a whole, offsets committed only over handled messages |
| `AccessConsumerSafety` | properties, the refinement mapping to `AccessProjection` (`INSTANCE … WITH`), the inductive invariants |
| `AccessConsumerProofs` | TLAPS proofs about the consumer, the refinement among them |
| `MCAccessConsumer` + 2 cfgs | instances for TLC |
| `ShortLinkCache` | one link behind the Redis cache: lookups, updates, failures, time; properties and inductive invariant |
| `ShortLinkCacheProofs` | TLAPS proofs about the cache |
| `MCShortLinkCache` + 1 cfg | instance for TLC |
| `ConnectionPool` | `DbConnectionPool`: getters and readiness probes on one mutex and condition variable; properties and inductive invariant |
| `ConnectionPoolProofs` | TLAPS proofs about the pool |
| `MCConnectionPool` + 2 cfgs | instances for TLC |
| `EventPublisher` | `KafkaAccessEventPublisher`: publishing threads, poll thread, shutdown; properties and inductive invariant |
| `MCEventPublisher` + 1 cfg | instance for TLC |
| `HttpConnection` | one HTTP connection: parser, `onMessage`, `onRequest`; properties and inductive invariant |
| `HttpConnectionProofs` | TLAPS proofs about the connection |
| `MCHttpConnection` + 1 cfg | instance for TLC |
| `ShortLinkCreate` | the transaction of `create`, sessions of MySQL, the pool's checker thread; properties and inductive invariant |
| `ShortLinkListing` | extends it with a client that pages through the links |
| `ShortLinkCreateProofs` | TLAPS proofs about creation and listing |
| `MCShortLinkCreate` + 1 cfg | instance for TLC |
| `RateLimiter` | the script of the create limit (pure) |
| `Accounts` | users and sessions, and the way of a create through authentication and the limit; properties and inductive invariants |
| `AccountsProofs` | TLAPS proofs about accounts and the limit |
| `MCAccounts` + 1 cfg | instance for TLC |
| `StatisticsQuery` | a statistics request: its window, its four statements, beside the consumers as `AccessProjection`; properties and inductive invariants |
| `MCStatisticsQuery` + 1 cfg | instance for TLC |
| `HttpMetrics` | the counters of the routes and of the redirects, and the page of a scrape; properties and inductive invariant |
| `MCHttpMetrics` + 1 cfg | instance for TLC |
| `Sums` | the sum of counts, as the number of their units (pure) |
| `CountingProofs` | TLAPS proofs about sums, about the answers of `StatisticsQuery` and about `HttpMetrics` |
| `ConsumerObservability` | lag gauges, health and observability thread of one consumer process; properties and inductive invariant |
| `KafkaProofs` | TLAPS proofs about the publisher and about the consumer's gauges |
| `MCConsumerObservability` + 1 cfg | instance for TLC |

Twelve runs check 41 properties, 40 in the eleven runs that pass; `pool_stranded` is expected to fail.

How the modules hang together: `AccessConsumerSafety` shows that the consumer implements
`AccessProjection`, and `StatisticsQuery` reads the tables while `AccessProjection` writes them, so what
it shows holds beside the real consumer. `Accounts` takes a create as far as the limiter,
`ShortLinkCreate` from there; `ConnectionPool` is what both stand on. `EventPublisher` and
`AccessConsumer` meet in the log of Kafka, `HttpConnection` and `HttpMetrics` in `onRequest`.

A definition marked `Slip` is a variant of its neighbour with a plausible bug. No next-state relation
uses it; the mutation entries of `PROJECT.json` put it in the place of the original, and the
property named there then fails.

## 3. The event consumer

### State and actions

`pc[c]` is where a process stands in `KafkaAccessEventConsumer::run` and `handleMessage`
(`main.cpp`), in `MySqlAccessStatisticsWriter::process` or in `KafkaDeadLetterPublisher::publish`;
`cur[c]` is the Kafka message in its hand, `attempt[c]` the counter of the retry loop it is in,
`txn[c]` what its open transaction has written, `copies[c]` and `report[c]` the DLQ producer's queue
and the two flags its delivery callback sets. `log`, `committed`, `members`, `owner` and `position`
are Kafka's; `links`, `receipts`, `totals`, `hourly` are the MySQL tables.

| Code | Actions |
|---|---|
| start-up, `subscribe`, rebalance | `Start`, `JoinGroup`, `Assign`, `SessionTimeout` |
| `run`: `consume` and `handleMessage`'s contract checks | `Poll` |
| `process`, one action per SQL statement | `StartTransaction`, `InsertReceipt`, `MarkIgnored`, `FindShortLink`, `UpsertTotals`, `UpsertHourly`, `MarkAggregated`, `CommitTransaction` |
| its `catch` blocks, and the retry loop of `handleMessage` | `StatementFails`, `CommitReplyLost`, `PersistFailed` |
| `KafkaDeadLetterPublisher::publish` and its retry loop | `DlqProduce`, `DlqDelivered`, `DlqFlushed`, and their failures |
| `commitWithRetry` | `CommitOffset`, `CommitOffsetFails`, `OffsetReplyLost` |
| signals, crash, destructors | `Stop`, `Crash`, `Exit` |
| outside | `Produce`, `CreateLink`, `ResetOffset` (the replay of the runbook) |

InnoDB is modelled by what the writer relies on: the row lock of an uncommitted INSERT makes a second
INSERT IGNORE of the same `event_id` wait; writes become visible at COMMIT; a lost connection rolls
back. The client library reconnects by itself (`DbConnection.cpp:27`) but refuses to inside an open
transaction, so a connection lost there surfaces as `StatementFails`.

### Runs and bounds

| Run | Instance | Question |
|---|---|---|
| `consumer_single` | 1 process, 1 partition, 3 messages of 5 kinds, 2 faults, 2 attempts each, fairness | every error path of the loop; safety, refinement; the lag ends |
| `consumer_group` | 2 processes, 1 partition, 2 messages (the same event may come twice, or be no event), 2 faults, 1 attempt each, fairness | two processes with the same event in hand, late commits of a dropped member; refinement; every message is handled |

Three messages let a failed offset be covered by a later one and an event come twice with another in
between. Two faults put a second failure inside the recovery from the first and exhaust the two
attempts of a loop. The visits fall on both sides of an hour boundary (3599999 and 3600000 ms),
one code may have no link, and two kinds of message are no events. Deadlock is not checked: when the log is full, the faults are used up and
everything is committed, the system rests.

### Fairness

`FairSpec` assumes weak fairness of what a running process does by itself (`Work`), of starting a
process that has exited (`compose.kafka.yaml:97`, `restart: unless-stopped`), of joining the group
again, and of the group coordinator dropping dead members and completing the assignment. Nothing is
assumed of faults; their number is bounded, so a behaviour has a last one. No action needs strong
fairness.

With two consumers `EventuallyCaughtUp` does not hold, and `consumer_group` checks the weaker
`EventuallyHandled`: a member that was dropped and has rejoined commits the message it still holds,
the broker checks its membership and not the partition, and the committed offset moves back behind
the new owner's. The lag is then above zero until the next message or rebalance, but nothing is lost
or counted twice. In the same way a late commit can undo a replay reset unless the group has been
stopped first, which the runbook demands; the model resets offsets only when no process runs.

### Proved (`AccessConsumerProofs`)

From the assumptions on constants of `AccessEvents` and `AccessConsumer` (positive attempt limits,
`None` distinct from real values), for any sets of processes, partitions, messages and any bounds:

- `Invariance`: `Spec => []Inv`. `CommittedIsHandled` is not inductive: that a message may be
  committed depends on what the process knows of it (`ConsumerInv`: all before it is handled; at
  `commit_offset` it is handled itself; a reported DLQ copy is in the topic), and that all before it
  is handled depends on what the owner of the partition has read ahead (`PositionInv`).
- `TypeCorrect`, `NoMessageLost` (`CommittedIsHandled`) and `OnlyDefectsAreBuried`
  (`DeadLettersAreDefects`) follow from `Inv`.

The proof has one lemma per action. What is handled stays handled (`Handled` is monotone), so an
action disturbs only the process that takes it and the partitions it moves.

- `RecordInvariance`: `Spec => []RecordInv`, inductive together with `Inv`. `WritesInv` says what an open
  transaction has written at each statement; `LockInv` that while it holds the lock of its receipt the
  event has no committed receipt and nobody else holds one of the same event; `LinkInv` that the
  link it counts for is there.
- `RefinesProjection` (`ImplementsProjection`): the consumer, statement by statement, implements
  `AccessProjection`. A COMMIT that takes effect is `Record`, answered or not, by `RecordInv`, unless the
  transaction wrote nothing and it is a stutter; a copy that reaches the dead-letter topic is `Bury`;
  a committed offset is `Commit`, since `Inv` says that everything up to it is handled; messages, links
  and the operator's reset map to themselves; all other steps stutter.
- `AuditHolds` (`StatisticsMatchReceipts`): every totals row is the number of its receipts, with the
  first and the last of their times, and every hourly row the number of its receipts. The
  refinement leaves `Record` as the only step that writes a table; it adds one member to the finite
  set a row counts. `SourcesInv` says that a receipt names a message of the log.
- `LoneConsumerCommitsInOrder` (`CommitsInOrder`) has the hypothesis that there are no two
  consumers, which the property is about: `LoneInv` says that the one process reads on from the
  committed offset or, dropped and back with a message in hand, from the one before it. With two
  the property is false, as said above.

The liveness properties are only model-checked; they are out of the prover's reach.

### Left out

Wording of logs, metrics, the JSON text and base64 of payloads (a message is a record with its
*shape*), the Kafka client's internal retries (a failed `commitSync` is one attempt of the code), the
window between the coordinator's decision and the callback in which a revoked owner still polls
(revocation is instantaneous; the message in hand survives it).

## 4. The link cache

### State and actions

One short link. `history` holds the values its MySQL row has had, the last is the row: a cached or
held record is an index into it together with the time it was read, so that a stale record can be
told from a fresh one. `cache` is the Redis entry with the deadline of its TTL; `clock` counts
seconds, the granularity of `nowEpochSeconds` and of SETEX. `pc` is where a request stands:

| Code | Actions |
|---|---|
| `handleRedirect` → `resolve` → `findByCode` | `Ask` |
| `RedisShortLinkCache::get`: GET; failure is a miss; DEL of an entry that does not parse | `CacheGet`, `CacheGetFails`, `DiscardEntry` |
| `MySqlShortLinkRepository::findByCode` | `FindByCode`, `FindFails` |
| `RedisShortLinkCache::set`: TTL from the clock, then SETEX, or `erase` | `ComputeTtl`, `SetEntry`, `DropExpired`, `CacheWriteFails` |
| `resolve`'s decision and the response | `Resolve`, `Respond` |
| `updateLifecycle`: UPDATE, SELECT, DEL | `UpdateRow`, `SelectUpdated`, `EraseEntry` |
| its failures | `UpdateReplyLost`, `InvalidationFails` |
| `create` | `Create` (its committed effect) |
| time, key expiry, eviction | `Tick`, `Evict` |

A SETEX or DEL that takes effect but whose reply is lost is `SetEntry` or `EraseEntry`: the caller
ignores the result. A server that dies between UPDATE and DEL is `InvalidationFails`. An update by
another owner changes no row and erases nothing, so it is left out.

### Runs and bounds

`cache_races`: one reader that looks the code up again and again, two updates, TTL 2 s, a link that
expires at 3 s or never, 5 s, three versions, one failure. The reader fills late and then hits what
it filled; the writes and the erasures of the updates come in every order. The bound
of `AnswersWereRecentlyRight` is close: an answer as old as one TTL and one delay is reached, and the
second delay is what the proof leaves for a lookup that hits in the last moment of an entry. A
second reader adds nothing but states here (two readers and one update were explored while the model
was written), and the theorems hold for any number of both. Deadlock is
not checked: time is bounded, so behaviours end.

`MaxDelay`, the time a request may be under way, is an assumption of the model and enters the bound
of `AnswersWereRecentlyRight`. The code limits only the attempt to connect to Redis (one second); its
commands and MySQL's have no limit of their own, and the bound a deployment gets is what its sockets
enforce. There is no liveness here: the promise is bounded staleness, not eventual freshness, and an
entry ends with its TTL.

### What the runs show

- An answer can be old by one TTL plus the time of the lookup that filled the entry plus the time of
  the one that is answered. The document says the TTL bounds the stale window: the fill that overlaps
  an update adds its own delay.
- A stale entry is left only by a lookup that overlaps an update (`cache.version < cache.filled`) or
  by a failed invalidation.
- An entry may outlive its link (`docs/LIFECYCLE_DESIGN.md:74` wants the TTL not to end later): the
  seconds left are computed before Redis starts to count them. Redirects are safe, since `resolve`
  checks the expiry of a hit again.

### Proved (`ShortLinkCacheProofs`)

From `CacheAssumption` alone, for any TTL (the fallback to 3600 included), any numbers of requests and
any bounds: `CacheInvariance` (`Spec => []Inv`), `CacheTypes`, `BoundedStaleness`
(`AnswersWereRecentlyRight`) and `UpdatesAlwaysInvalidate`. The inductive argument is one of ages: a
request is under way for at most `MaxDelay` (`RequestInv`); a record being filled was read after its
request began, so the entry's deadline is at most `asOf + MaxDelay + Ttl` (`EntryInv`); a request that
hits the entry began before that deadline (`LookupInv`), and adds at most `MaxDelay` again. `Current`
is stable: no write changes what the row was at a time that has passed (`CurrentStays`).

## 5. The connection pool

### State and actions

`idle` is the queue `connections_`; `pc[t]` is where an I/O thread stands in `getConnection` or
`isHealthy`, `held[t]` the connection it has taken, `inbox[t]` the requests its event loop has still
to serve, the first one now. A critical section of `mutex_` is one action; `cv_.wait` moves the thread
into the wait set (`waiting`, `probe_waiting`), `notify_one` moves any one thread of the set out of
it, and the woken thread competes for the mutex with everybody else.

| Code | Actions |
|---|---|
| `getConnection`: the loop around `cv_.wait`, `front`, `pop` | `Acquire` |
| its ping and reconnect outside the lock | `Ping` (answers or was reopened), `ReconnectFails` |
| the deleter: `push`, `notify_one` | `Release` |
| `isHealthy`: `wait_for` with the predicate | `AwaitIdle`, `AwaitTimesOut` |
| its `DbConnection::probe`, the answer of `handleReadiness` | `Probe` |
| clients; the C++ standard | `Arrive`; `SpuriousWakeup` |

`init` has run before the server starts, so `initialized_` is always true. No request of the service
holds two connections at a time; one that uses several in turn counts as several requests.

### Runs and bounds

| Run | Instance | Question |
|---|---|---|
| `pool_probes` | 4 threads, 1 connection, both kinds, 5 requests, 2 failed reconnections, fairness | conservation; every query is answered while nobody probes; a probe that has begun ends |
| `pool_stranded` | 3 threads, 1 connection, both kinds, 4 requests, no failure, fairness | expected to fail: readiness behind a stranded getter |

Four threads on one connection have three waiters, a newcomer that overtakes a woken thread, and two
failures in a row; a lost wake-up among getters needs two connections, and `NoLostWakeup`, which the
theorem `WakeupsNotLost` proves for any numbers, excludes it. One waiting getter, one waiting probe and one thread that returns the only connection are
what `pool_stranded` needs, and two waiting probes beside one connection are what it takes for a probe
that no notification reaches and only the timeout ends. The requests are bounded, so
behaviours end and deadlock is not checked: the liveness properties say what must have been answered by then.

### Fairness

Weak fairness, thread by thread, of what a thread does by itself (the mutex is not held for long by
anybody) and of the timeout of `wait_for`. That a request gives its connection back assumes that
statements of MySQL end: pooled connections are opened without a read timeout, so this is an
assumption about the server and the network, not something the code enforces. Nothing is assumed of
requests to come, of spurious wake-ups or of failures.

### What the runs show

- With at least as many connections as threads, the default of four each, nobody ever waits on the
  condition variable, and readiness is answered at once.
- With fewer connections than threads, `notify_one` is enough among getters, since each of them takes
  a connection when woken. A probe takes none and passes no notification on: a getter that waited
  beside it stays in the wait set although a connection is idle, until some later return
  (`ReadinessAnswered` fails in `pool_stranded`). A readiness request behind that getter on the same
  event loop gets no answer, whatever timeout `isHealthy` has of its own. `ServerConfig.cpp` does not
  relate `server.thread_num` to `mysql.pool_size`.

### Proved (`ConnectionPoolProofs`)

From `PoolAssumption` (finite sets of threads and connections), for any numbers of them:
`PoolInvariance` (`Spec => []Inv`), `PoolTypes`, `NoConnectionLost` (`ConnectionsConserved`),
`FewEverWait` (`WaitersAreFew`), its corollary `NobodyEverWaits` and `WakeupsNotLost`
(`NoLostWakeup`). `ConnectionsConserved` needs to know that a thread holds a connection exactly while
it pings or uses it (`ThreadInv`). `WaitersAreFew` is a counting argument (`EmptyHands`): with the
queue empty the map from connections to their holders is an injection into the threads that hold one,
and neither those who wait nor the one about to wait does. `NoLostWakeup` counts too: a return adds
one connection and one woken thread, an `Acquire` removes at most one of each. The liveness properties
are model-checked only.

## 6. The event publisher

### State and actions

`queue` counts the messages whose delivery is open, `reports` the delivery reports that wait for a
callback; together they are `rd_kafka_outq_len`, and what the queue limit counts. `enqueued`,
`delivered` and `gauge` are the metrics. `pc[t]` is where an I/O thread stands in `publish` (an outcome
of `rd_kafka_producev` that it is about to count, for one), `poller` and `main` are the poll thread and
the main thread. `recordQueueSize` is two steps of its caller: it reads the length (`seen`) and stores
it (`Store`).

| Code | Actions |
|---|---|
| `handleRedirect`, `publishAccessEvent` | `Visit` |
| `publish` | `Produce`, `ProduceFails`, `SerializeThrows`, `Count`, `MeasureQueue` |
| broker, `message.timeout.ms` | `Settle` |
| `deliveryCallback`, on whichever thread polls or flushes | `DeliveryCallback` |
| `pollLoop` | `PollReturns`, `CheckStopping`, `LastPollReturns` |
| signal thread, destruction of `server` | `Quit`, `JoinThreads` |
| `~KafkaAccessEventPublisher` | `JoinPoller`, `Flushed`, `FlushTimesOut` (with the purge), `SecondFlushTimesOut`, `MeasureAtEnd`, `Destroy` |

Events are counted, not told apart: what becomes of their content is the consumer's matter. That the
broker stores a retried message once is left to the idempotent producer.

### Runs and bounds

`publisher_lifetime`: two threads, a queue of two, three redirects, one failure, under fairness of the
threads alone. Three redirects overflow the queue with another publication under way, and the
shutdown may begin at any moment.
Kafka may settle a message or not, so an outage of any length is among the behaviours. Deadlock is
not checked: the process ends.

### Fairness

Weak fairness of each I/O thread inside `publish`, of the poll thread and of the shutdown once the
signal has come. A flush may time out whenever something is left, which is what its time limit
amounts to without a clock. Nothing is assumed of Kafka, of redirects to come or of the signal.

### What the runs show

The metrics add up at every moment if one counts the threads between `rd_kafka_producev` and
`recordAccessEventEnqueue`; without them `delivery_total` may exceed `enqueue_total`. Redirects and
shutdown do not depend on Kafka. The gauge is right in the end only thanks to the poll thread: the
callback still counts the message it reports, so its own measurement is one too high.

### Proved (`KafkaProofs`)

From `PublisherAssumption`, for any number of threads, size of the queue, redirects and failures:
`PublisherInvariance` (`Spec => []Inv`), `PublisherTypes`, `MetricsAddUp` (`EveryEventAccounted`),
`ShutdownLeavesNothingOpen` (`NothingLeftOpen`) and `NoUseAfterDestroy`
(`ProducerOutlivesItsUsers`). `EndInv` strengthens them with what each stage of the shutdown has
achieved. The liveness properties are model-checked only.

## 7. The HTTP connection

### State and actions

The stream of one connection is a sequence of units, a line with its CRLF or a byte of a body; a unit
carries the number of the request it was sent for, so that a mix-up shows. `wire` is on its way, `buf`
is muduo's input buffer, `state` and `request` are `HttpContext::state_` and `request_`, `pc` is where
the I/O thread stands in `onMessage`. `handled` keeps the requests the router was called with,
`answers` what was sent before the server shut down its side (`open`); muduo drops what is sent after.

| Code | Actions |
|---|---|
| client; arrival of data | `ClientSends`; `Read` (any number of units) |
| `parseRequest`, request line | `RequestLine`, `BadRequestLine` (with what `processRequestLine` has stored by then) |
| header lines, end of headers | `HeaderLine`, `BadHeaderLine`, `EndWithoutBody`, `EndWithLength`, `EndWithoutLength`, `EndWithBadLength` (`std::stoi` throws) |
| body, incomplete input | `Body`, `Incomplete` |
| `sendErrorResponse` | `Refuse` |
| `onRequest`, `handleRequest`, `HttpContext::reset` | `OnRequest` with the outcome of router and handler |

Bytes of a body that nobody has read make one line with the line behind them; whether there is a colon
in it is left open. The service registers no middleware, so the outcomes of a request are those of the
router and the handler. TLS is off. A client declares the length of the body it sends, or none, or an
unusable one; a GET has no body.

### Runs and bounds

`http_stream`: three requests out of twelve kinds (bodies of 0 and 2 units, HTTP/1.0 and 1.1,
keep-alive and close, six ways of being malformed), reads of any size, fairness. Three requests put
one before and one after the one that closes or is refused. `Width`, 2^64 in the code, is 64 there,
above the length of any stream.
Deadlock is not checked: a client that has sent everything rests. Fairness: what was sent arrives, and
the I/O thread runs.

### What the runs show

- However the stream is cut, answers come in order and only to requests that were sent, and the
  handler sees every request as sent, up to the first malformed one.
- `onMessage` answers one request per read event. Of two requests that arrive together the second
  waits until more bytes come, so `LoneRequestAnswered` speaks of clients that wait for each answer.
- A request whose Content-Length is negative is never answered: the int becomes a `uint64_t` that no
  body reaches.
- After a refusal or a close the server goes on reading. Requests that follow one with
  `Connection: close` are executed and their answers are dropped; after a refusal `request_` is what
  the refusal left, and later lines may complete it. A refused request line is even parsed again, in
  spite of the assertion `method_ == kInvalid` in `setMethod` (`HttpServer/src/http/HttpRequest.cpp:17`):
  `processRequestLine` has stored the method by the time it refuses the version. Release builds leave the
  assertion out and refuse the line once more.

### Proved (`HttpConnectionProofs`)

From `HttpAssumption`, for any requests a client may send, any number of them, pipelined or not, and any
way their units are cut into reads: `InvAlways` (`Spec => []Inv`), `TypeCorrect`, `AnswersAlwaysInOrder`
(`AnswersInOrder`) and `RequestsHandledAsSent` (`HandledAsSent`).

`HttpAssumption` says what a client sends (`WellSent`), that no body is longer than `MaxBody`, and
that a negative Content-Length, once it is a `uint64_t`, is more than all that is ever sent: with 64 bits
no client sends enough to make it true of a body. `Width` and `MaxBody` are parameters, and the
bound is what it takes for any of their values.

`HandledAsSent` follows from where the parser stands. Until it has refused a line it is in step with the
client (`InStep`): there is a stream, the units of all requests one after the other, and a position in it
such that the buffer and the wire hold just the rest of the stream from there on, and such
that the position lies in the request next to be handled, where `state` and `request` are what reading
that request so far has to leave behind. A read moves units from the wire to the buffer and changes
neither; a request sent makes the stream longer at its end (`StreamGrows`); each step of the parser moves
the position by what it has taken. Once it has refused a line (`Refused`) it may be out of step, but then
the connection is shut down, and the requests before the malformed one have been handled as they were
sent. The stream is bound by an existential quantifier over
all functions, so TLC cannot evaluate `InStep` as it stands; it was checked with the stream computed
from `script` in its place. `LoneRequestAnswered` is liveness and model-checked only.

## 8. Creation and listing of links

### State and actions

`table` holds the committed rows of `short_links`, `pending[t]` what the open transaction of a
connection has written, `session[t]` the server's side of it and `inTransaction[t]` what the client
library believes; `checking[t]` is the code whose index entry it has locked, or waits to lock, for a
duplicate check. `pc[t]` is the statement of `create` that comes next, `request`, `id` and `record` are
variables of the code, `answer` is the HTTP answer. A request uses one connection, so a connection
is named by its thread; how connections are handed out is section 5. `story` and `torn` are history
variables for the properties.

| Code | Actions |
|---|---|
| `handleCreate`, `createShortLink` | `Arrive`, `Respond` |
| `getConnection`: ping and reconnect | `GetConnection` |
| `create`, one action per statement | `StartTransaction`, `Insert`, `InsertRefused`, `ReadLastInsertId`, `AssignCode`, `AssignRefused`, `ReadRecord`, `Commit` |
| INSERT and UPDATE that wait for a lock | `AwaitEntry` |
| its `catch` clauses | `StatementFails`, `CommitUnanswered`, `LockWaitTimesOut`, `DeadlockFound`, then `Rollback` |
| `checkConnections` | `CheckerCopies`, `CheckerVisits` |
| MySQL and network | `SessionLost` |
| `handleList` and `list`, and a client that follows `next_cursor` | `BeginListing`, `ReadPage` |

InnoDB is modelled by the locks on the entries of the unique index on `code`. An entry written by an open
transaction is locked by it. Who finds that entry asks for a shared lock on it, to see whether the code
is a duplicate, and waits (`AwaitEntry`). When the owner commits, the waiters are refused; when it rolls
back, each of them has its shared lock (`Inherits`), keeps it until its own transaction ends, and can enter
the code only when no other has one. Two that inherit stand in each other's way: InnoDB finds the
deadlock and rolls one of them back (`DeadlockFound`), which its handler answers 500. The shared lock is
in truth one on the entry and the gap before it, and is left on the neighbouring entry when its own is
gone; so `DeadlockFound` may also happen to two that inherited locks on different codes, which may
share a gap. That a lock on a gap may make further inserters wait is left out: who waits so has entered
nothing yet, and for others it is only slow.

The client library reconnects by itself under a statement
(`OPT_RECONNECT`, `DbConnection.cpp:27`), but not while it believes a transaction to be open; when a
statement fails there, the model leaves open whether it still believes so afterwards. `reconnect()` of
the checker takes no mutex; that it runs at the same moment as a statement is undefined behaviour of
the client library and not modelled, the two come one after the other.

### Run and bounds

`links`: three threads, three ids, requests for a code of the id's own or for `c2`, which is also the code
of id 2, two owners, one fault (a lost session, a lost reply to COMMIT or a lock wait that times out),
pages of one and two links. One fault and a checker thread that may visit at any moment put a
reconnection before every statement. Three threads are an owner of a code and two who wait for it, the
least for a circle of duplicate checks: two creates for `c2` and one whose id gives it, or all three for
`c2`. Three links are what a listing needs for a page, a next page and
a link committed between them. To keep the run small a client pages only while at most two creates are
under way, and nothing is explored after the end of its walk (`Explored`, a CONSTRAINT); without a client all
interleavings of the three creates are explored. Deadlock is not checked: ids run out.

### What the run shows

- Who is told 201 has a committed link with the right code and owner; who is told 409 or 500 has none,
  except that a COMMIT whose reply is lost is answered 500 and has taken effect.
- This holds as long as the checker thread does not reconnect the connection inside a create. It may:
  it copies the idle connections under the mutex and visits them without it (`DbConnectionPool.cpp:163`,
  `182`), and a request may have taken one by then. When that connection has just lost its session, the
  rest of the create runs outside a transaction: an INSERT may be committed on its own, without a code,
  and a COMMIT may end nothing and be answered 201 for a row that was rolled back. `disturbed` marks
  these creates, `torn` the rows inserted outside their transaction; without them in `CreatedIsStored`,
  `FailedLeavesNothing` and `LinksAreWhole`, TLC reports such behaviours. They are exempt from no more than
  that: a 201 names the right owner and code even then and is false only of a row inserted in the
  transaction and rolled back; a failed create leaves a row behind, and a row lacks a code, only if
  it was inserted outside.
- A code made of an id may be one somebody has asked for. The create that gets the id is answered 500,
  not 409, and the next one goes on with the next id.
- Whoever has entered a code into the index waits for no other create until its transaction ends
  (`HoldersGoOn`). So no circle of waiting creates has one that has entered a code: the
  circles that do occur are of duplicate checks whose owner has rolled back, and cost one of the creates a
  500.
- A walk through the pages shows all links the owner had when it began, in the order of their ids and
  none twice. Links that are created meanwhile may be missed: ids are given by INSERT and become
  visible at COMMIT, so one may appear behind the cursor.

### Proved (`ShortLinkCreateProofs`)

From `CreateAssumption`, for any numbers of threads, codes, owners, requests and faults:
`InvAlways` (`Spec => []Inv`), `TypeCorrect`, `CreatedAlwaysStored` (`CreatedIsStored`),
`FailedAlwaysLeavesNothing`, `ConflictAlwaysReal`, `LinksAlwaysWhole` and `HoldersAlwaysGoOn`, with the
exemptions for disturbed creates and torn rows that the properties state. Nothing is
assumed of `encodeBase62` but its type: different ids may even have the same code, the unique index
alone keeps links apart. `SessionInv` says that an open transaction belongs to a create that
nothing has disturbed, `RowInv` that it holds nothing but the row of that create and what the local
variables say of it, `TableInv` that ids are never used twice and that no open transaction holds a code
of another link. `AnswerInv` is proved on top of `Inv` (`AnswerInvAlways`): what a create reads back of its
row is true of it in a transaction or outside (`RecordInv`), and the lock of a duplicate check is for
the code that is about to be entered (`CheckInv`).

`ListingAlwaysExact` (`ListingIsExact`) is proved for any walk, any sizes of its pages and any creates in
between: `CursorInv` says that what was shown is at or before the cursor, and what the owner had at
the beginning is shown or behind it. It rests on ORDER BY and LIMIT as what they promise: the
`n` lowest ids, or all if there are fewer (`IsLowest`); pages are sets of ids, and the order in which a
page lists them is that of the numbers. The row fetched beyond the page is only counted.

## 9. Accounts and the create limit

### State and actions

`users` and `sessions` are the two tables of migration 005; a row is named by its number, and so is a
token. `lastInsertId[t]` is what MySQL keeps per connection, `key` the counter in Redis with the millisecond
it expires in. `clock` counts milliseconds and passes by any of `Pauses`; the sessions see its full
seconds (`nowEpochSeconds`), Redis the milliseconds, and its TTL is rounded to the nearest second. `pc[t]` is the statement that comes next on a thread, `token` and `user` are variables of
the code, `issued[c]` the tokens in the hands of a client. Links are reduced to their owner and who
asked for them: the transaction that makes them is section 8.

| Code | Actions |
|---|---|
| routes, cookies in and out | `Arrive`, `Respond` |
| `registerUser`, `createUser` | `InsertUser`, `SelectUser` |
| `login`, `findCredentials` | `FindUser` |
| `createSession` | `InsertSession` |
| `logout`, `revokeSession` | `Revoke` |
| `requireAuthenticatedUser`, `findUserBySession` | `Authenticate` |
| `RedisFixedWindowRateLimiter::check` in `handleCreate` | `CheckRate`, `CheckRateFails` |
| `handleCreate` behind it | `CreateLink` |
| MySQL, network, operator, clock | `StatementFails`, `Reconnect`, `Disable`, `Tick` |

Not one of these statements is in a transaction. A statement may fail, or take effect and have its
reply lost; a connection may lose its session at any moment and is opened again by the client library
(`DbConnection.cpp:27`) or the checker, which forgets `LAST_INSERT_ID()`. The script of the limiter is
atomic, as Redis runs it; `check` may fail before it or after it, and the create then goes on. A client
may go on using a cookie it was told to clear.

### Run and bounds

`sessions`: two clients who want two spellings of one name, four requests on two threads, sessions of
two seconds, a limit of one create in two seconds, one failure or disabled user, and three and a half
seconds that pass in pauses of 750 and 1250 ms: of a window there may remain 1250 ms, which TTL rounds
down, or 750 and 500 ms, which it rounds up. Four requests are two registrations and a login and a create, or a registration, a login, a logout and a
create. The counter starts missing or, at the limit, without a TTL. Limits of two with six requests of
one client were explored while the model was written. Deadlock is not checked: requests run out. No
fairness is assumed; the promises are safety.

### What the run shows

- Nobody acts in another's name (`AccountsAreSeparate`), although the new row is read back
  through a pooled connection: an INSERT that fails leaves `createUser` by an exception, and one that
  succeeds sets `LAST_INSERT_ID()` afresh.
- A request that comes after a session has ended by logout, expiry or a disabled user opens nothing.
  A logout that MySQL refuses is answered 500 and keeps the cookie.
- A registration may be answered 500 and leave the account behind; its owner can log in with it, and a
  second registration is told 409.
- Windows follow one another: two full ones may touch, so `2 * Limit - 1` creates may be admitted within
  less than a window, and never more.
- Who waits as long as `Retry-After` says may be up to half a second early, for `TTL` rounds to the nearest
  second, and be refused once more; half a second later the window is over, even when the counter had
  lost its TTL (`WindowEndsAsTold`). Without that half second TLC reports a refusal 1250 ms before the end of a
  window that is told to wait one second.

Left out: the checks of names, passwords, bodies and origin, and `registrationEnabled`, whose
refusals change nothing; hashing and tokens, taken as collision-free; `GET /api/me`; Redis losing the
counter.

### Proved (`AccountsProofs`)

From `AccountsAssumption` and that of `RateLimiter`, for any threads, clients, names, requests, limits and
windows: `InvAlways` (`Spec => []Inv`), `TypeCorrect`, `AccountsAlwaysSeparate` (`AccountsAreSeparate`) and
`EndedSessionsStayDead` (`EndedSessionsAreDead`). `StageInv` says what a thread may hold at each
statement, `OwnInv` that it is of the client who asked; the row that `LAST_INSERT_ID()` names is
the crucial case, and a lost session makes it zero, never somebody else's. A session that has ended
stays ended: rows are revoked and users disabled for good, and the clock only goes on.

`LimitingAlways`, `NeverABurst` (`NoBurst`) and `WindowAlwaysEndsAsTold` (`WindowEndsAsTold`) are about the
limiter. `NoBurst` speaks of two windows and is inductive only with what is known of the last one
(`WindowInv`): the creates it has admitted are the last of all, the first of them opened it unless
something was counted without being admitted, and all but `Limit - 1` of those before were over a
whole window earlier.

## 10. The statistics query

### State and actions

`links`, `receipts`, `totals` and `hourly` are the tables, written by `AccessProjection`: its instance
`Projection` gives the actions `CreateLink` and `Record`, one visit at a time and all of its rows
together. A consumer records a visit only after it has happened (`now`). `stage[r]` is the statement
that comes next in `handleStatistics` and `MySqlAccessStatisticsRepository::get`; `asked`, `query`,
`summary` and `trend` are the local variables of request `r`. `earlier` remembers which requests had
been answered when one began.

| Code | Actions |
|---|---|
| a request of an authenticated user | `Ask` |
| `getForOwner` | `FindForOwner` |
| `parseStatisticsQuery` | `ParseQuery` (`Window`, `Refused`) |
| `get`: its check and SELECT of the link | `SelectLink` |
| SELECT of the totals; SELECT of the hourly rows | `SelectTotals`; `SelectTrend` |
| a statement throws | `StatementFails` |
| consumers, other creates, time | `Record`, `CreateLink`, `Tick` |

The statements are not in a transaction, and each takes a connection of the pool that commits by itself,
so consumers record between any two. Timestamps before 1970 are refused by `parseUtcTimestamp`, so a
parsed one is a natural number or garbled.

### Run and bounds

`statistics`: two requests of two users with seven query strings (open, an hour window that cuts the
visits in two, one day, the longest window of days, one bucket too long, an unknown interval, a garbled
time), four visits in two partitions that record them out of order, times before, at and after a
midnight. Two requests are what `earlier` needs; the visits put a failed one outside an open window, a
success on each side of midnight and a failure an hour later. The first statistics of a link that is
created late are among the behaviours. Times are days after the epoch, because TLC computes with 32
bits. No fairness is assumed; behaviours end when the visits are used up.

### What the run shows

- The trend is read after the summary, so it may show visits the summary does not count yet, never the
  other way round: what the summary counts is in the trend or outside of its window (`PartsAgree`), and
  so is the last visit it names (`LastVisitIsInTrend`). With the two statements swapped neither would hold.
- An answer never falls behind an earlier one, although visits are recorded out of order: the UPSERT
  keeps the later time.
- `docs/ACCESS_STATISTICS_DESIGN.md:152` says that `from` defaults to seven days before the aligned
  `to`. It is seven days before the end of the *current* bucket, even when `to` is given
  (`ShortLinkHttpApi.cpp:455`), so a request with an old `to` alone is refused as not increasing.

### Proved (`CountingProofs`, first part)

From `QueryAssumption` and the assumptions of `AccessEvents`: `QueryInvariance` (`Spec => []Inv`),
`AnswersGoForward` (`AnswersNeverGoBack`), `ParsedQueriesAreValid` and `AcceptedQueriesStayValid`: the
handler and the repository write the same check twice, and agree for all inputs at all times.
`RequestInv` strengthens `AnswersNeverGoBack` with the tables: what a request has read is `NoLess`
than what earlier answers show, and the tables are `NoLess` than what anybody has read. A `Record`
only raises counts and maxima.

`VisitsInvariance` (`Spec => []VisitsInv`) is what `PartsAlwaysAgree` (`PartsAgree`) and
`LastVisitAlwaysInTrend` (`LastVisitIsInTrend`) follow from. The tables belong together
(`TablesInv`): a total is the sum of its hours, and the hour of the last visit has a row. What a
request has read of one stays behind the other (`ReadingInv`), since the trend is read later. SUM is
defined as a number of units, the cardinality of the pairs of an hour and a visit in it
(`SumOf` of `Sums`), so that it needs no recursion and its laws no induction: one more visit is one more member,
and the GROUP BY of the trend is a bijection between the units of the hours in the window and those
of its points.

## 11. The metrics of the server

### State and actions

`routes` is `routes_`, a key for every method and route; `series` holds every `RouteMetrics` ever made,
and `handle[t]` is the pointer a thread has got from `findOrRegister`. `redirects` is
`redirectCounters_`. `pc[t]` is where a thread stands between the lookup and the additions. A page has
two parts; `parts[t]` holds those it has not opened yet, `todo[t]` the counters of the open part it has
still to read, and `page[t]` the values of those it has read. `ReadBefore` is the program's order of
reading: the statuses of all routes, then, route after route, the buckets, the total and the sum. Names
such as `MetricsSpec` keep the module apart from `StatisticsQuery`, with which it shares its proofs.

| Code | Actions |
|---|---|
| `onRequest`: the request and its duration | `Begin` |
| `ShortLinkService::resolve`, `recordRedirect` | `Resolve` |
| `findOrRegister`: shared lock; unique lock | `Find`; `Register` |
| `record`: status, bucket, sum, count | `CountStatus`, `CountBucket`, `AddDuration`, `CountRequest` |
| `handleMetrics`: `prometheusMetrics() + renderPrometheus()` | `OpenPart` (lists the routes, or the redirects), `Read`, `Rendered` |

The two operands of `+` in `handleMetrics` may be evaluated in either order, so `OpenPart` takes either
part first. The additions and the reads are `memory_order_relaxed`; the model lets other threads see the additions of a
thread in program order, as x86 does; the code does not ask for it. A compiler or processor that
reorders relaxed additions to different counters would weaken `SkewBounded`, not the other three.

### Run and bounds

`scrapes`: two I/O threads, three requests (redirects with two results and two durations, a
request no route matches, scrapes), one bound of the histogram. Two threads meet an unknown route at
once; three requests give a scrape, what disturbs it, and a second scrape to compare with. No
fairness is assumed, and deadlock is not checked: requests run out.

### What the run shows

- Threads that meet a new route at the same moment agree on one series (`EveryRequestIsFound`): the
  second look under the unique lock is needed.
- A page is not a snapshot: a histogram may hold one request more up to a bound than in total, for each
  other thread (`SkewBounded`); a page during which nothing else ran is exact, and no page shows less
  than one that was rendered before it began.
- A scrape is recorded after it was rendered, so it does not count itself.

### Proved (`CountingProofs`, second part)

From `MetricsAssumption` (finitely many threads; natural durations; increasing bounds), for any number
of threads, bounds and requests: `MetricsInvariance` (`MetricsSpec => []MetricsInv`), and from it all
four properties of the run (`RequestsAreFound`, `SkewIsBounded`, `ScrapesGoForward`, `QuietScrapes`) and
`CountersOnlyGrow`, the action property that no step takes a route away or makes a counter smaller.

None of the properties is inductive, because a request is counted in five steps. `MetricsInv` says what
a counter holds between them: its total, its statuses and its buckets add up to the recorded requests
plus those that threads have already added there on their way through `record` (`SeriesInv`, with
`Reached`; `RedirectsInv` for the redirects, which are counted first). `ThreadInv` says that the thread
adds to the series of its own route, for which `findOrRegister` must give every route one series.

- *Skew*: the total is the last addition of `record` and is read after the statuses and the buckets. At
  the moment it is read, what exceeds it are requests that other threads have in hand, at most one
  each; the numbers read before are no more than those of that moment (`Behind`), and afterwards the
  page does not change (`SkewInv`).
- *Going forward*: `Behind` bounds every published number by its counter, and counters only grow, so
  what a page reads is at least its `floor`. `PageInv` says that a page has or will have every counter
  it has been asked for, so that none is missing at the end.
- *Quiet scrapes*: while a thread is `alone`, the others stay idle and its own request is not in
  `record` yet, so nobody is `Underway` and every number on the page is still what its counter holds
  (`QuietInv`).

Sums over the statuses of a series, over its buckets up to a bound and over requests are numbers of
units, as in section 10, with the same lemmas: an addition makes one sum one larger, and when a request
is recorded it leaves the requests underway for the recorded ones, so that `Reached` stays the same.

## 12. The observability of the consumer

### State and actions

The module shares its proofs' module with `EventPublisher`, the other end of Kafka, hence names such as
`WatchSpec`.

`lag` and `healthy` are those of `ConsumerMetrics`; `log`, `committed`, `assigned` and `position` are
Kafka's view of the partitions, `cached` the high watermark librdkafka remembers. `consumer` is where the
main thread stands in `run`, `observeMessageLag`, `refreshLag` or the destructors, `server` where the
observability thread stands in `serve`. What happens between poll and commit is `AccessConsumer`'s
matter; here a message is handled or ends the process.

| Code | Actions |
|---|---|
| `main`, the constructors | `Subscribe`, `SubscribeFails` |
| `run` | `CheckStop`, `PollMessage`, `PollTimesOut` (with a refresh that is due or not), `PollFails` |
| `observeMessageLag` before handling: at least 1, then by the remembered watermark | `Observe`, `Refine` |
| `handleMessage`, `commitWithRetry` | `Handle`, `HandleFails`, `Commit`, `CommitFails` |
| `observeMessageLag` after the commit | `SettleLag` |
| `refreshLag`: committed offsets, one watermark after another, `replaceLag` | `AskCommitted`, `AskWatermark`, their failures, `ReplaceLag` |
| the destructors | `Close`, `RequestEnd`, `ShutListener`, `JoinServer` |
| `serve`, `handleConnection` | `CheckEnd`, `WaitInVain`, `Accept`, `Receive`, `ReceiveTimesOut`, `Answer` |
| Kafka, other consumers, clients, signals | `ProduceMessage`, `Rebalance`, `OtherCommits`, `LearnWatermark`, `Connect`, `SendRequest`, `Signal` |

`least` is a history variable: the smallest lag of a partition since the refresh began. What a refresh
gathers is forgotten when it returns.

### Run and bounds

`consumer_watch`: one partition, two messages, three changes of the assignment, two failures, two
attempts to commit, one client. Three changes take the partition away in the middle of a message, give
it back, and take it away again; the properties speak of one partition at a time, and the theorems
hold for any number of them. Deadlock is not checked: the process ends.

### Fairness

Weak fairness of the two threads, and strong fairness of `PollTimesOut(TRUE)`: `lag_refresh_ms` is a
period, so a loop that keeps finding nothing to read refreshes again and again. `LagFallsBack` uses it
only where the partition stays drained, when every poll does time out. Nothing is assumed of
clients or Kafka; the timeout of one second on an accepted connection is what lets the thread go on.

### What the run shows

- A message in hand always shows in the gauge, even when librdkafka has no watermark yet (BUG-006 in
  `docs/BUGS.md`), and even after its partition was given to another consumer.
- The committed offsets are asked for before the watermarks, so a refresh overstates the lag by what
  happened in between and never understates it.
- A partition that stays with the consumer and is drained goes back to zero, if only at the next
  refresh. That is not so for one it has lost: `refreshLag` returns before `replaceLag` when the
  assignment is empty (`main.cpp:438`), and a consumer that has lost its last partition goes on
  reporting the old lag, whoever reads the partition now (`docs/ACCESS_STATISTICS_DESIGN.md:226` expects
  the lag to fall back once consuming goes on).
- A signal ends the process from any state, and a client that says nothing delays it by at most one
  timeout.

Left out: the counters of messages, retries and dead letters and the time of the last success, which
are single additions; a client so slow that a response needs many sends; a disabled listener.

### Proved (`KafkaProofs`)

From `WatchAssumption`, for any partitions, clients and bounds: `WatchInvariance`
(`WatchSpec => []WatchInv`),
`BacklogAlwaysShows` (`LagCoversHand`) and `RefreshIsHonest` (`RefreshNeverUnderstates`). `RefreshInv`
is why: since the committed offset was read, the watermark has only grown, so `least` stays below what
the next answer will give. The liveness properties are model-checked only.

## 13. Not modelled, and why

`PROJECT.json` lists every component with its status and every hazard with the properties that cover
it. One hazard has none: GET, SETEX and DEL of Redis have no time limit of their own, and the models
bound the time of a request without saying what enforces it.

- *TLS adapter*: `shortlink_server` never calls `enableSSL`, and nginx terminates TLS in the
  deployment. The adapter pumps bytes through OpenSSL's memory BIOs, and what could go wrong is in
  OpenSSL's behaviour, which the code does not show.
- *Framework sessions*: `SessionManager` keeps sessions in memory for other users of the framework; the
  service has sessions of its own (section 9).
- *Router, middleware, CORS*: configured before the server starts and stateless afterwards.
- *Password hashing, tokens, request and event ids*: cryptography and random numbers, taken as
  collision-free.
- *Repositories in memory*: stand-ins of the tests, under one mutex.
- *Configuration, migrations, deployment files, scripts, the web page*: static, or start-up that
  succeeds or ends the process.

Everything that must eventually happen is model-checked only: liveness under fairness, and `ENABLED`,
are out of the provers' reach. So is induction over data, which is why sums are cardinalities here and
no module of the project needs a recursive definition.

## 14. Plan

1. `AccessEvents`, `AccessConsumer`, `AccessProjection` with proofs, the refinement among them: done.
2. `ShortLinkCache` with proofs: done.
3. `ConnectionPool`, `ShortLinkCreate` and `ShortLinkListing` with proofs: done.
4. `EventPublisher` with proofs: done.
5. `HttpConnection` with proofs: done.
6. `RateLimiter` and `Accounts` with proofs: done.
7. `StatisticsQuery`, `HttpMetrics` and `ConsumerObservability` with proofs: done.
8. Pure checks of codes, URLs, timestamps and Base62 against reference definitions.
