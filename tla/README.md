# A formal model of the telemetry pipeline

TLA+ modules, TLC configurations and TLAPS proofs for the monitoring system in
this repository: agents sample a host and send metrics, logs and spans to a
collector, which publishes them to NATS JetStream; an aggregator stores them in
PostgreSQL; an API serves them to a dashboard and the alert thresholds to the
agents.

```
agent --gRPC--> collector --publish--> JetStream TELEMETRY --deliver--> aggregator
  ^                                                                        |
  | GET thresholds (30 s)                                          INSERT  v
  +------------------------------- api <-------------------------- PostgreSQL
                                    | SSE, REST
                                    v
                                dashboard
```

## 1. Inventory

| Component | State it keeps | Operations | What is hard |
|---|---|---|---|
| Agent streams, `cmd/agent/collector.go` | `failCount` (atomic), `intervalStatus` (mutex), `warnedHigh` and the network snapshot `prev` per goroutine | four streams sample, send, log and alert; `streamLogs` sends a heartbeat log and span every 60 s | five goroutines share two summaries in separate atomic steps; outages; shutdown cancels sends under way; counters that wrap |
| Config poller, `cmd/agent/config_poller.go` | three thresholds behind a lock | GET every 30 s | stale answers, no timeout |
| Collector handlers, `cmd/collector/grpc_server.go`, `handler.go` | none but calls under way | gRPC `SendMetrics`, `SendLogs`, `SendSpans`; HTTP POST of one item | a batch is published item by item; errors that hide a stored item; the reconnect buffer |
| Collector process, `cmd/collector/main.go` | two servers, the NATS connection | start, SIGTERM, `GracefulStop`, `Shutdown`, `Close` | shutdown with calls under way |
| Rate limiter, `cmd/collector/ratelimit.go` | a token bucket per client address | allow or 429 | racing first calls; the map only grows |
| NATS client, `internal/nats` | connection, stream, durables | `Publish`, `Subscribe`, `Close` | at-least-once delivery, AckWait, MaxAckPending, reconnects that end |
| Aggregator consumers, `cmd/aggregator/consumer.go` | prefetched deliveries, a callback per kind | decode, insert, ack or nak | redelivery, crash between insert and ack, shared durables, the unique `span_id` |
| Aggregator process, `cmd/aggregator/main.go` | `ready`, a goroutine per kind | migrate, connect, run, stop | readiness before `Subscribe`, failed start-ups, servers that are away or hang at shutdown |
| Storage, `internal/storage`, `migrations` | tables `metrics`, `logs`, `spans`, `settings`; migration version | inserts, queries, upsert of a setting, retention job | the unique index; time-window queries with LIMIT; rows removed under readers |
| API thresholds, `cmd/api/thresholds.go` | the setting in memory and in the table | GET, PUT, load on start | two copies written apart, several replicas |
| API live stream, `cmd/api/sse.go` | `since` per connection | snapshot, then a window every 3 s; the server list every 5 s | rows arrive after their time stamp; streams that never end at shutdown |
| API read handlers, `cmd/api/handler.go` | none | one query per request | answers that overtake each other in the browser |
| Dashboard, `cmd/api/static/index.html` | server list, trace in view, EventSource | load, refresh, reconnect, render | overlapping requests, incomplete traces |
| Configuration, logging, metrics, tracing set-up, generated code | - | - | - |

What makes each correct: the **aggregator** acknowledges nothing it has not
stored, duplicates rows only when a fault makes it, and lets one kind of
telemetry not hold up another; its **process** comes to consume once the servers
are up and ends when it is told to. The **collector** says yes only when
everything is in the stream, its own span stands for a complete batch, and a
planned stop cuts no call. Joined, what a client was told is accepted reaches the
tables. The **rate limit** holds for each address and for no other. The **agent**
reports an outage once, raises no alarm when it is merely stopped, notices both
outage and recovery, and its network rates add up. The **thresholds** of table,
replicas and agents come to agree. The **live stream** shows each new row, and not
over and over. The **dashboard** shows each span of a trace once, under the right
trace, and its server list comes to show the newest values.

## 2. Modules

| Module | Models | Proofs |
|---|---|---|
| `TelemetrySink` | abstract at-least-once sink: accepted, recorded, settled, dropped | |
| `Aggregator` | consumers, durables, redelivery, rows; implements `TelemetrySink` | `AggregatorProofs` |
| `AggregatorProcess` | one aggregator process: start-up, readiness, goroutines, connections, shutdown, restart | `AggregatorProcessProofs` |
| `Collector` | handlers, publish, late and lost stores | `CollectorProofs` |
| `CollectorProcess` | `Collector` inside its process: both servers, SIGTERM, SIGKILL | `CollectorProcessProofs` |
| `Pipeline` | `Collector` and `Aggregator` composed over the stream | `PipelineProofs` |
| `TokenBuckets` | abstract rate limit: an atomic bucket for each address | |
| `RateLimiter` | the map of token buckets and its racing callers; implements `TokenBuckets` | `PartsProofs` |
| `Agent` | goroutines, failure counter, status, alerts | `AgentProofs` |
| `NetRates` | network counters, their snapshots and differences | `PartsProofs` |
| `Thresholds` | PUT handlers, settings row, replicas, pollers | `ThresholdsProofs` |
| `LiveStream` | windows of `streamMetrics` over rows that arrive late | `PartsProofs` |
| `ServerList` | `QueryServices`, its SSE stream, refreshes, the browser's map, restarts of the API | `PartsProofs` |
| `Trace` | spans table, `GET /traces/:trace_id`, the tree of `loadTrace` | `PartsProofs` |

`MC*` modules give the constants values; `*.cfg` are the runs. Operators named
"Mutant" in a comment are plausible errors in the code beside them; substituted
for the real definition, each violates the property it is paired with.

### Aggregator

A message stands at its durable consumer as `none`, `waiting`, `pending`,
`redeliver`, `acked` or `expired` (`status`). A worker is a goroutine of a replica;
`buffer` holds what `cons.Consume` prefetched and `pc` where the callback of the
head is. `Skip`, `InsertOk`, `InsertFails`, `InsertAggregatorSpan` are the paths
through `consumeMetrics`, `consumeLogs` and `consumeSpans`; `Ack` and `Nak` are
the two ends of the closure in `Subscribe`. The server's part (`Deliver`,
`AckWait`, `Expire`) is external and follows the consumer configuration.
`faults` counts what a fault-free run does not have: lost acknowledgements,
crashes, an insert whose error hides a commit, a delivery whose AckWait ends
while it is held. An insert that fails cleanly is not a fault and may happen at
any time. `Publish` is any collector's successful publish; messages are not
ordered within a durable, which allows more than the server does.

Two deliveries of one message may be handled at once, by two replicas; the
unique index then lets one insert fail. `SpanID` says which spans are the same one
to the index: a client that repeats a failed call sends a span again in another
message, and the second insert conflicts for ever. Rows have no index that rejects a
repeated metric or log: `DuplicatesNeedFaults` states how many there can be.

### Collector

A call publishes item `<<r, 1>>`, `<<r, 2>>`, ... and a traced batch its span
after them. `Send` hands an item to the connection, `Store` and `Lose` are what
becomes of it, at any time later: an error of `js.Publish` (`Failed`) says
nothing about either. A value that `json.Marshal` refuses is a `Failed` whose
item is lost. HTTP calls have one item and may be rejected beforehand.

### CollectorProcess

EXTENDS `Collector` with `phase`: `serving`, then `grpc` (GracefulStop waits), `http`
(`srv.Shutdown` waits, 10 s at most: `TimeUp`), `exited`. gRPC calls are accepted in
the first phase only, HTTP calls in the first two. `Kill` may come at any time.
Handlers that the end of the process cuts off are `Abort`; what they had handed to
the connection may still be stored, for `nc.Close` only begins to drain.

### Pipeline

An instance `C` of `Collector` and an instance `A` of `Aggregator`. An item the
server stores for the collector (`C!Store`) is in the same step published to the
durables (`A!Publish`); every other step belongs to one side. Items are of their
request's kind, except the collector's own span, and all decode: what
`json.Marshal` writes in the collector `json.Unmarshal` reads in the aggregator.
A client that repeats a failed call is another request, and `SpanID` relates its
spans to those of the first.

`MCPipeline` restricts the behaviours to be checked (`MCNext`) to two scenarios, for
their product would be too large: those of the traced batch, with faults and both
replicas; and those of the spans without faults, where one replica handles all.
In the second the batch `g1` has two spans, of which one holds the durable's only
place while the other waits behind it, and `g2`, sent when the call of `g1` has
failed, repeats the first of them.

### AggregatorProcess

`main` walks through storage.Connect, the migrations, nats.Connect,
EnsureStream, the health server and `Run`, with a failing variant of each step
that can fail. `Exit` is what the process leaves behind: nothing, except that
migrations under way leave the database dirty, and golang-migrate then refuses
it. `nats` and `postgres` change at will; PostgreSQL may also hang. The migrations
have a connection and no context of their own: they need PostgreSQL to answer, fail
while it is down and wait while it hangs, until the liveness probe ends them. A kind's
goroutine ends when `Subscribe` fails or the context is cancelled; `Run` waits for
all. After `MaxReconnects` failed attempts the connection is closed for good.
`LivenessProbe` and `Start` are the part of Kubernetes. `missed` is history: the kinds
the process has itself given up.

### RateLimiter

`LookUp` is one step, under the lock; `Allow` and `Refuse` come any time later. A
bucket is identified by the call that created it. The clock ticks in units in
which `Rate` tokens are added; golang.org/x/time/rate adds them continuously, so
that every instant of a tick counts as its beginning.

### Agent

The steps of a stream are separated where it touches what is shared:
`Add(1)` (`Count`), `Load`, `Store(0)` (`Reset`), `raiseStatus` (`Raise`). A send
succeeds while the collector is `up`, and fails while it is `away` (unreachable, or
answering with errors) or after the context is cancelled. The collector may also
be `hung`: it accepts calls and does not answer. No call of the agent but its
farewell log has a deadline, so each place of the code that calls the collector
waits there (`Returns`) until the collector is something else or the agent is
stopped. Such a wait counts no failure.
`failCount` is counted up to 4: the code distinguishes less than three, three
and more. A disk stream watches one mount.

### NetRates

One interface and one direction of `streamNetwork`: `prev` is a map by interface
name, and both directions are treated alike. Counters count modulo `Word`, and
less than a word is sent between two snapshots. A snapshot reports (`Report`),
finds the interface for the first time or gone (`FirstSeen`), fails
(`SnapshotFails`, which keeps `prev`) or finds that the clock went back
(`ClockWentBack`). `bytes`, `unread` and `replaced` are history: the true traffic.

### Thresholds

A setting is identified with the PUT that asked for it. `Bind`, `StoreInMemory`
and `Save` or `SaveFails` are the steps of `handleSet`; the lock covers the
second only. The upsert runs under the request's context and at the server: `upserts`
are those PostgreSQL may still `Commit`. A save succeeds after its commit; one that
failed, because its request was cancelled or its connection broke, or whose replica
was killed, may commit at any time later or never. `Restart` is a replica stopped by
`srv.Shutdown`, which waits for handlers; `Crash` does not. A poll is a `Fetch` from any replica, then an `Apply`.

### LiveStream

One connection. Rows are sampled with a time stamp and stored any time later.
`Snapshot`, `Stamp`, `TickerFires`, `Update` follow `streamMetrics`: `now` is read
when the ticker fires, the window ends at a `time.Now()` read after that and before
the query runs (`Push`), and the next window starts at `now`. Time passes between the
end of a window and the tick after it, which `TickerFires` states as `clock > to`. After
the snapshot `since` is read anew, so that what lies between the end of its window
(`shown`) and the beginning of the updates (`opened`) is in neither: `InTheGap`. A query returns the newest `Limit` rows or
fails. All clocks are taken to agree: skew adds nothing but more late rows.

### ServerList

One API process and one browser. `QueryServices` is `DISTINCT ON` as a set of
results, for it leaves open which of several rows with the same time stamp it
takes. `push` is the result under way over the EventSource, `answers` those under
way to refreshes; `TakeIn` is what the page does with either. `Stop`, `Shut` and
`Restart` are the API's, `Connect` and `ConnectFails` what an EventSource does when
its stream ends: it connects again, or gives up for good after an HTTP error.
`crossed` is history: a query ran while another's result was under way.

### Trace

The table with its unique `span_id`, the retention job, requests that overlap and
the page. What the senders say is a span's parent is arbitrary: absent, missing
or circular. `Rendered` counts how often `renderSpan` is called for a span at depths
up to `d`; no tree is deeper than there are spans, so `Renderings` stops there.
`Ancestors` follows the parents in view, and a span is `Circular` when the way up
from it comes to some span twice.

## 3. Runs

| Run | Question | Instance | States |
|---|---|---|---|
| `aggregator_safety` | no loss, paid-for duplicates, trace spans, refinement of the sink | traced metric, undecodable log, 2 spans of one `span_id`; 2 replicas, 2 pending, prefetch 2, 1 fault | 757 326 |
| `pipeline` | accepted is kept, and stored in the end; a stored collector span follows its batch; spans settle without faults | a traced batch of 1 with its span, 2 replicas, 2 faults; or a batch of 2 spans and a repeat of the first, no fault; 1 pending, prefetch 1 | 65 633 |
| `aggregator_delivery` | *violated*: spans are delivered | 2 spans, 1 replica, 1 fault | |
| `collector_calls` | yes means stored; span after its metrics; prefix; a planned stop cuts nothing and ends | a traced batch of 3, an untraced one of 2, an empty one, one HTTP call; SIGTERM, SIGKILL | 57 888 |
| `agent_streams` | error once, no false alarm, status only popped; outage and recovery noticed; agent stops | 2 streams, one with a threshold, 1 outage, a collector that hangs at any time | 339 739 |
| `thresholds_puts` | saved PUTs keep their order; memory matches table; agents follow | 3 PUTs, 2 replicas, 1 agent, 1 fault | 1 204 212 |
| `thresholds_restart` | *violated*: values survive restarts | 2 PUTs, 1 replica, no fault | |
| `thresholds_replicas` | *violated*: a change reaches the agents | 1 PUT, 2 replicas, no fault | |
| `parts` | live stream: no gap but one, at most twice; rates add up; rate limit and whose flood; trace shown once and of the trace named; server list catches up and does not go back | 2 rows, LIMIT 1, clock to 5; words of 4, 6 bytes; 4 calls of 2 addresses, burst 1; 3 spans with any parents, 2 traces; 4 metrics, 2 refreshes | 280 617 |
| `livestream_late` | *violated*: new rows are pushed | 2 rows | |
| `process_life` | ends on a signal; closes nothing in use; consumes in the end | 2 kinds, 2 reconnects | 1 980 |
| `process_ready` | *violated*: ready means consuming | 2 kinds, 2 reconnects | |

`parts` runs five modules that share no state. A behaviour chooses one of them and
leaves the others as they began, so its states are the sum and not the product
of theirs.

Why the bounds suffice. Two replicas and one fault allow a message to be handled
twice at once and a crash between insert and acknowledgement; with two faults (in
`pipeline`, on fewer messages) a crash meets a lost acknowledgement. Two spans and one
place are what it takes for a span to wait behind another, and a repeat of the first
for one that conflicts for ever; `SpansSettleWithoutFaults` fails there without the part
of its premise about repeats (`SpansDiffer`). The messages
of `aggregator_safety` take every path through the callbacks. A batch of several
items has a first and a last one. Two streams are what it takes to have one
between `Load` and `Store` while the other passes the third failure. Three PUTs
allow two that overlap and one that comes after. A clock of six values holds the
snapshot and several windows, each able to overlap the next, and a LIMIT of one
cuts off a row. A counter of four values wraps within six bytes. Three calls of an
address race for its limiter, one more has its own. Three spans form every tree,
chain and circle with missing members. Two refreshes and a push overtake each
other in every order; of the four metrics two are tied, one is older and one has
another name. Two reconnects are one that does not close the connection and one
that does. The theorems of section 5 hold for all values.

Deadlock is not checked where the system really ends or its bound does: the
agent stops, calls are answered and the process exits, all messages are settled
and the faults used up, clocks are at their bounds, a pod that is removed is not
started again. `Thresholds` is checked for it: replicas may always be restarted.

Symmetry is used in `aggregator_safety` only, over replicas: its properties are
invariants and a refinement that mentions no replica.

### What the violated runs show

- **Spans can block each other for a day.** A span whose row is stored and whose
  acknowledgement is lost comes back, meets the unique index, is Nak'ed and comes
  back again. It keeps its place among the 512 outstanding deliveries until the
  stream ages it out. When all are taken by such spans no other span is
  delivered. The run uses one place for 512.
- **A ready aggregator may be deaf.** `ready` is set before anything has
  subscribed. A kind whose `Subscribe` fails is given up while the others go on,
  and `/health` stays ok; so it does when nats.go has given up the connection.
- **PUT requests that overlap** can leave memory and table with different
  settings, and the next restart decides. (A save that fails is answered with 200 all
  the same; this run has none.)
- **The second API replica** never reads the settings row again.
- **Late rows are not pushed.** Every tick cuts off the rows that are between
  agent and database at that moment; a reload shows them.

What the passing runs and their exceptions show besides:

- The agent notices a collector that is away, and not one that hangs: its calls have
  no deadline (`client.go:79`), so streams and heartbeat wait in silence until the
  collector answers, drops the connection or the agent is stopped (`OutageNoticed` is
  about the first only, `AgentStops` holds for both).
- The order of PUTs that were saved is kept (`LaterSaveWins`); one that failed or was
  killed can still commit after a later one was saved, and take the table back.
- A row sampled between the end of the snapshot and the first update window is sent by
  neither (`InTheGap`).
- A traced metric may have a row and no aggregator span: the second insert failed, or
  its replica ended between the two. `AggregatorSpansMatchRows` claims the other
  direction only.
- A client that sends a span a second time blocks a place of the durable, as a lost
  acknowledgement does (the premise of `SpansSettleWithoutFaults`).
- A collector span is published last and its failure only logged, so metrics may
  name a parent that never exists; `ShownOnce` shows that the dashboard displays
  what is below it all the same, unless spans are circular.
- A heartbeat span that is lost takes the status of its interval with it.
- An aggregator that is stopped while migrations run leaves a database that no
  later start accepts (the second alternative of `StartsInTheEnd`).
- An interface that is created anew is reported with a rate as if its counter had
  wrapped (the premise of `RatesAddUp`).
- A dashboard that reconnects while the ingress has no API behind it stays without
  its stream until it is loaded again (the second alternative of `ListCatchesUp`).

## 4. Fairness

- Aggregator: the server delivers what it may and ends the AckWait of
  deliveries nobody holds (weak); callbacks go on (weak); an insert that is
  possible again and again succeeds at last (strong: PostgreSQL does not fail
  for ever). Nothing is assumed of publishers, faults or expiry.
- Aggregator process: steps of `main`, of the goroutines and of Kubernetes are
  taken (weak), for every call in them has a timeout or a context; nothing is
  assumed of servers or signals. A start-up step that is possible again and again
  is not cut short for ever by the liveness probe (strong): the probe waits some
  seconds, a start-up takes less.
- Collector: a publish returns (nats.go gives it 5 s), what the connection holds is
  stored or lost, and `main` goes on. The pipeline takes the aggregator's fairness
  only: its promises begin where the client was told yes.
- Agent: goroutines run, and calls return unless the collector hangs and nobody stops
  the agent. The collector need not come back or end its silence, nor anyone stop the
  agent. `select` picks among what is ready, in the streams as in `streamLogs`, so
  `ctx.Done` is taken if it is ready time and again (strong).
- Thresholds: agents poll. Which replica answers is left open, and neither handlers
  nor upserts need ever end.
- Server list: a stopping API exits within its 10 s and is started again (weak);
  it may be stopped time and again, but not always just before it pushes
  (strong: a push follows a connection at once). Nobody need press reload.
- `LiveStream`, `NetRates`, `RateLimiter` and `Trace` have safety properties only.

## 5. Proofs

Every invariant and every action property that a passing run checks is also a
theorem, for all values of the constants under the named assumption of the module:
sets of messages and spans are finite, limits are positive, bounds are natural
numbers, and the value that stands for "none" is no message, call or span. Each
theorem is of the form `Spec => []P`, `Spec => [][A]_vars`, or a refinement. An
invariant that is not inductive is strengthened; what it takes is said here.

- `AggregatorProofs`: `TypeCorrect`, `NothingLost`, `OnlyPublishedRows`, `Refinement`.
  `NoLoss` is not inductive: an `Ack` is right only because the callback stored the
  row before (`HandledIsStored`), and a delivery that is handled was published
  (`HeldIsPublished`). `Refinement` maps every step to one of the sink or to a
  stutter; a repeated insert and a late acknowledgement stutter.
- `DuplicatesArePaidFor` is a counting argument. `Copies(m)` are the deliveries of `m`
  in workers' queues that may still insert it, `Owed(m)` says that the server has
  one more to make. `Budget` states that rows, copies and what is owed are one in
  all, and one more for each fault. A delivery turns what is owed into a copy, an
  insert a copy into a row, a `Nak` a copy into what is owed; a lost
  acknowledgement, an AckWait that ends while the delivery is held, a hidden
  commit and a crash add at most one and cost a fault. A queue that moves up has no
  more copies than before (`QueueMovesUp`, by a surjection).
- `SpansStandForRows`: there are no more aggregator spans than rows, because a worker
  that is between the two inserts of a traced metric holds a row that has no span yet
  (`SpanBudget`). Rows may well be more: nothing is claimed of those without a span.
- `AggregatorProcessProofs`: `ProcessTypes`, `NothingIsClosedInUse`. The first needs that
  the reconnect counter reaches its limit only as the connection is closed
  (`GivenUpAtTheLimit`); the second that a goroutine which has yet to subscribe
  also keeps `main` in `c.Run` (`RunsUnderMain`).
- `CollectorProofs`: `AcceptedIsStored`, `SpanAfterMetrics`, `StoredPrefix`, from one
  invariant, `Progress`: everything before `next[r]` is stored, nothing after it
  was ever sent, whatever the connection still holds.
- `CollectorProcessProofs`: the process is a `Collector` (`ProcessRefines`), so
  `AcceptedThroughStop` follows from `AcceptedIsStored`; `PlannedStopIsClean` needs
  that no call is open, or can be opened, behind the phase that waited for it
  (`Closed`).
- `PipelineProofs`: `CollectorInside` and `AggregatorInside` show that each side of the
  pipeline is a behaviour of the component alone, so its theorems hold inside:
  `PipelineLosesNothing`, `PipelinePaysForDuplicates` and `PipelineIsASink` (the joined
  system implements `TelemetrySink`) are those of the aggregator. `Joined` ties the
  collector's stream to the aggregator's messages; with it `EndToEnd` leads from the
  client's answer to the tables and `SpanRowAfterMetrics` from a row back to the
  batch.
- `AgentProofs`: `AgentTypes`, `LoggedOnce`, `AlarmsAreTrue`, and the action property
  `StatusGoesIntoSpan`. `AlarmsAreTrue` needs `FailureHasCause`: a failed send that is
  on its way to an alert was caused by an outage or by the cancellation, and a
  cancelled agent cannot alert. `StatusGoesIntoSpan` rests on `WorseIsNoBetter`: what
  `raiseStatus` stores is never milder than what was there, and nothing but the
  heartbeat writes the status besides.
- `ThresholdsProofs`: `ThresholdsTypes`, `SavedInOrder`, `MemoryAndTableAgree`. The
  second needs that a request which came after another found it answered
  (`AfterAnswered`), that a request whose save succeeded has no upsert left
  (`UpsertsAreOpen`), and that while the table holds a saved setting no upsert of a
  later PUT has been committed, unless that PUT failed (`LaterIsUncommitted`). The one
  step that goes back is the late commit of a PUT that failed, and what it brings is
  not a saved setting. The third needs that a replica differs from the table only on
  account of a handler between its two writes (`Agreement`).

`PartsProofs` holds the theorems about the modules that `MCParts` puts side by side.
`PartsBehave` shows that each of them behaves in the run as its own specification
says, which gives `PartsTypes`.

- *Live stream*: `StreamTypes`, `NoGaps`, `AtMostTwice`. A stored row that no window
  has taken is not before the end of the snapshot, and lies in the gap after it or
  ahead of `since` (`NotYetPassed`), because `now` was read before the query; a row sent twice lies behind it (`SentRowsPassed`), because the next tick
  comes after the query's end.
- *Network rates*: `NetTypeCorrect`, `NoTrafficInvented`, for counters of any width.
  The counter is the previous one plus the traffic since, wrapped at most once
  (`Wrapped`), and the unsigned difference undoes one wrap (`MinusUndoesWrap`).
- *Rate limiter*: `LimiterTypes`, `BurstBounds`, `RefusedOnlyForOwnFlood`, `AtomicBuckets`. What an address
  has spent since any moment says nothing of what it may spend next: the tokens
  that are left belong to the bound. `SpentAndSaved` states that both together stay
  within the rate and one burst, from every moment on; `NothingLost` that they come
  to no less, from the moment the bucket was last full. An empty bucket then has let
  through all that the time since then allows, which is why a refusal is the
  address's own doing. Racing calls all ask the limiter in the map, which belongs to
  their address (`LimiterOfItsAddress`), and one that is not in the map is full and
  unused (`UnusedIsFull`). With the same two facts `AtomicBuckets` maps every step to
  one of `TokenBuckets`: `LookUp` stutters, for an address without a limiter has a full
  bucket already. No run checks this refinement.
- *Trace*: `TraceTypes`, `SpansOfTheirTrace`, `SpanShownOnce`. A span is rendered once
  when some ancestor within reach is a root, and not at all otherwise
  (`RenderedBelowRoot`). Among as many steps up as there are spans, a way without a
  root comes to some span twice (`EndlessIsCircular`, by the pigeonhole principle),
  and one that does so never ends (`CircularIsEndless`).
- *Server list*: `ListTypes`, `LastSeenNeverGoesBack`, an action property. Unless a query
  ran while another result was under way, at most one result is under way, and it
  covers whatever of the browser's entries the table still has
  (`OneResultUnderWay`). `QueryCoversTable` is what `DISTINCT ON` promises: for every row
  of the table a result that is as new, whichever of tied rows it takes.

`Rendered` and `Ancestors` are recursive functions. The library's theorems on
recursion and induction take operators as parameters, which the installed provers
cannot instantiate; the section *Numbers* of `PartsProofs` derives what is needed with
sets in their place, from the well-foundedness of strict inclusion among finite
sets: `LeastNumber`, `Induction`, `SequenceExists` (a first element and a step function
have a sequence), `MaxOfNumbers`.

Only model-checked: liveness (`AcceptedIsStoredInTheEnd`, `SpansSettleWithoutFaults`,
`StartsInTheEnd`, `StopsOnSignal`, `StopEnds`, `OutageNoticed`, `RecoveryNoticed`, `AgentStops`,
`AgentsFollow`, `ListCatchesUp`), for temporal reasoning under fairness and `ENABLED` are
beyond the prover; and what the violated runs refute.

## 6. Not modelled

Sampling (gopsutil) and the contents of messages; `QueryLogs`, `getLogs`, `getMetrics`,
one query per request without state; charts, logs and forms of the dashboard;
authentication; configuration, logging, metrics and tracing set-up, wiring
without behaviour of its own; generated code; the size of the connection pool;
deployment beyond replica counts, probes and restarts.

Hazards without a property, with the reason in `PROJECT.json`: the unlocked cache of
`hostname()` (every write stores the same value), the poller's lack of a timeout
(fairness of `Poll` assumes an answer), the threshold that is read twice in one
check (the outcome is left open), the map of limiters that only grows.

## 7. What is left

1. The aggregator's process around its consumers, as `CollectorProcess` is around the
   collector, so that the theorems of `Aggregator` carry over to what a signal stops.
2. Several API replicas behind `ServerList`, and clients that repeat metrics in front of
   `Pipeline`, which stores them again.
