# A TLA+ model of the ortb5 ad server

ortb5 is a Go ad server: a fork of Prebid Server to which a video ad pipeline
(`endpoints/video_pipeline.go`, `endpoints/demand_adapter.go`), a ClickHouse
writer (`endpoints/video_analytics_clickhouse.go`) and a dashboard
(`endpoints/dashboard.go`) were added. This project models the video pipeline and
the dashboard, where the state, the concurrency and the money are, and the
services of Prebid Server that keep state between requests: module hooks, price
floors, stored requests, currency rates and one analytics module. It states what
has to be true of them whatever the interleaving of requests, beacons, tickers,
crashes and restarts. Paths below are relative to `src/`; `VP` is
`endpoints/video_pipeline.go`.

## The system

### How a video ad is served

A player asks `/video/vast` or `/video/ortb` for a placement. The handler looks
the placement up in the *ad server config store*, counts the request in the
*video statistics*, asks every demand source in parallel (*demand waterfall*;
for an OpenRTB source *winning bid selection* picks one bid of the response) and
answers with the best fill. It then leaves two things behind for later: the
billing notice (BURL) of the winner, for five minutes, and the dimensions of the
auction (publisher, advertiser, bidder, country ...), for thirty minutes.

The player fires beacons. An impression beacon is deduplicated, credited to the
dimensions and the publisher, and triggers the BURL (*impressions*). Other
beacons are credited and kept in a ring of recent events (*tracking store*).
Every request, fill and beacon is also written to ClickHouse if it is configured
(*ClickHouse metrics*). A ticker saves the statistics every thirty seconds and
forgets what is too old. The dashboard edits ad units and campaigns and pushes
them into the config store, reads the statistics, and resets them.

### Around it

The *dashboard* keeps its entries in files (*entity stores*) and pushes every ad
unit, with the campaigns it resolves, into the config store (*ad unit
synchronisation*). An OpenRTB auction runs *module hooks* at eight stages, takes
its *price floors* from a cache that a background loop fills, its *stored
requests* from a cache that follows a database or an HTTP endpoint, and its
*currency rates* from a periodic update; *pubstack* logs it.

### Inventory

| Part | What is hard about it | What has to be true | Module |
|---|---|---|---|
| Tracking store (VP 404-593) | the ring wraps, and the map beside it must shrink with it | `all` returns the last events in order, with their own fields; the map does not grow | `TrackingStore` |
| Config store (VP 217-400) | debounced saves that overlap, failed saves, crashes within a save, restarts | the file never goes back, no change is forgotten | `ConfigStore` |
| Demand waterfall (VP 1530-1830, `demand_adapter.go`) | any order of answers, errors, panics; notices that must be called once | the best fill is served; each notice has one owner; every request is answered | `DemandWaterfall` |
| Bid selection (VP 3254-3364) | ties, floors, bids without creative | the winner is the best eligible bid | `BidSelection` |
| Video statistics (VP 697-1230) | a reset during a save; exit during a save | what is saved stays, what is reset goes | `StatsStore` |
| Impressions (VP 1320-1370, 4360-4452) | duplicates in concurrent handlers, expiry against arrival, reset against credit | counted once per time-to-live; billed once; counters agree | `Impressions` |
| ClickHouse metrics | full queue, ambiguous insert errors, close during use | stored at most once, no silent loss, close ends | `ClickHouseMetrics` |
| Entity stores (`endpoints/dashboard.go`) | unserialised saves over one temporary file, crashes | the file is whole and current | `EntityStore` |
| Ad unit synchronisation (`endpoints/dashboard.go`) | pushes that overtake each other, deletion during a push | the pipeline serves what the dashboard shows | `AdUnitSync` |
| Hook execution (`hooks/hookexecution`) | answer, time-out, panic and rejection at once | one report per hook, the payload is what was reported, nobody stays blocked | `HookExecution` |
| Price floor fetcher (`floors/fetcher.go`) | full channel, small pool, retries, stop | one fetch per URL at a time, no URL is lost | `FloorFetcher` |
| Pubstack (`analytics/modules/pubstack`) | pushes while the channel is closed and reopened | in order, once; close does not wait for the network | `EventChannel` |
| Stored requests (`stored_requests`) | fetches, polls and two channels of events write one cache | the cache follows the backend | `StoredRequests` |
| Currency rates (`currency`, `util/task`) | updates that fail, stale rates | the rates in use are not too old | `RateConverter` |

`PROJECT.json` lists all the parts, the ones without a module included, and the
hazards with the line where each of them bites.

## The modules

Every module has the state as variables, one action per step that other
goroutines can observe, and a specification `Spec`; `FairSpec` adds fairness.
Modules that are checked together have a prefix in these names (`RingInit`,
`StoredSpec`, `storeVars`). A step is what happens under one lock, one channel
operation or one statement of the file system or the database. An operator that
begins with "Mutant of" in its comment is a deliberately wrong version of the
definition after it; it is not part of the specification and is there to show
that a property can fail.

**TrackingStore** and **BoundedLog.** The variables are the fields of the Go
struct: the ring, `pos`, the sequence number and the map of optional fields.
`Record` is `record`, `All` is what `all` returns. `BoundedLog` is what a reader
expects, a log of the last `Capacity` events; `TrackingStore` implements it, with
`All` as the refinement mapping.

**ConfigStore.** `Set` and `Remove` change the map and restart the 500 ms timer;
`TimerFire` starts a saver; a saver takes `saveMu`, copies the map, and writes
and renames a temporary file, or replaces the rows in a transaction. `Crash`,
`Shutdown` and `Restart` may come at any point. Every content carries the number
of the change it comes from, which exists only in the model. Both backends are
in one model; `getDashDB` gives the same answer throughout a process.

**DemandWaterfall.** One request from the fan-out to the response. `Execute(s)`
is an adapter: the answer of the demand, the floors, the validation of the AdM,
the win notice. `Panic(s)` is an adapter that panics: `safeGo` recovers and no
result is sent. `Collect` receives one result, `Respond` is what `VASTEndpoint`
and `ORTBEndpoint` make of the winner. Documents are reduced to the properties of
a bid that the control depends on.

**BidSelection.** One step looks at one bid. The reference definition is the
quantified one: the winner may win and beats every other bid that may.

**StatsStore.** The counters are the set of increments they include, which tells
apart everything that a save, a reset or a restart may do to them. `save` is
split at the copy, the write and the rename, `reset` at the clearing of the
counters and the removal of the two files.

**Impressions** (with **MCImpressions** for its symmetry). `StoreBURL` and
`CacheDims` are what a served request leaves; `Arrive`, `SeenOrAdd`, `CreditDim`,
`CreditPub` and `Bill` are `ImpressionEndpoint` from lock to lock; `EvictDims`,
`EvictBURLs` and `EvictSeen` are the clean-up of the ticker; `Reset` is `reset`.
Time is counted in units no longer than the shortest time-to-live, and nothing
bounds how long a handler or the clean-up takes: the clock may pass any number of
units between two of its steps. A handler reads the clock once, when the beacon
arrives, and the clean-up once, after the save. `expires` and `owed` note what a
BURL was stored with and whether it has to be called.

**ClickHouseMetrics.** `Record`, `Send`, `Fallback` and `FallbackInsert` are a
call of `Record`; `Receive`, `Tick`, `Stop` and `Inserted` are `run`; `Reset`,
`QueryGrouped`, `QueryTotal`, `Answer`, `Close` and `CloseDB` are the other
methods. An insert may fail, and one that fails may have reached the table; one
into a closed database fails and is reported like any other. The server behind
the driver is modelled from how the code uses it.

**EntityStore.** `ChangeEntry` is `create`, `update`, `delete` or `modifyFn`;
`CopyEntries`, `OpenTmp`, `WriteTmp` and `RenameTmp` are `storeSave` and
`atomicWriteJSON`. File names refer to inodes, because a writer keeps the inode
it has opened when another one renames it. What two writers leave in one inode
may or may not parse. `clean` notes that the last save ran alone.

**AdUnitSync.** The handlers of ad units and campaigns and the goroutine of
`SyncAllToPipeline` are workers that read the campaign store three times and
then register a configuration. `PostConfig` and `DeleteConfig` are
`AdServerConfigEndpoint`, which sets or removes a configuration without the
dashboard. `overtaken` notes the ad units whose entry has changed since the push
that registers them read it, `direct` those that this endpoint has written last.

**HookExecution** (with **MCHookExecution** for its plans). One stage: the merged
plan of host and account, two goroutines per hook, the collector, the handling of
the responses and the contexts of the modules. A payload is the sequence of the
changes made to it. The eight stages differ in three ways: whether a hook may
reject (`IsRejectable`), whether the payload is a request that is scrubbed for a
hook without permission (`UpdatesRequest`; at the other stages
`handleModuleActivities` returns the payload as it is), and whether the caller
uses the payload that `executeStage` returns or the object it points to, where a
change is made at once (`UsesReturned`).

**FloorFetcher.** `Miss` and `SendMiss` are a request, `Receive`, `Tick`,
`PopDue`, `TickEnds` and `LoopEnds` the loop of `Fetcher`, `Take`, `Fetched` and
`SendBack` a worker of the pool, `Stop` the method. A fetch fails, or succeeds and
is cached, or succeeds and is not (floors that cannot be encoded, or that the
cache refuses): only the first counts as a failure. The pool is a library and is
modelled from its use.

**EventChannel.** `GetChannel`, `CheckDone`, `PushAccepted` and `PushRefused` are
a request; `BufferEvent`, `FlushTick`, `StartDrain`, `DrainEvent` and `FlushLast`
the collector; `SendNext` and `SendEnds` the sender; `Update`, `Terminate`,
`CloseReturns` and `Open` the changes of configuration.

**StoredRequests.** `MissCache`, `FetchRows`, `FetchFails` and `SaveFetched` are
`fetcherWithCache`, where a fetch that returns errors may return rows too, and
they are saved; `StartPoll` to `PollEnds` one poll of
`DatabaseEventProducer` or of `HTTPEvents`; `ReceiveSave`,
`ReceiveInvalidation` and `StopListener` the listener. The data of an entry is
the time of its last change. `HTTPEvents` takes the time of the tick it
received, which may have waited in the ticker's channel; `Ticks` allows any time
since the last update, which includes a few that cannot occur. `raced` and
`skipped` name the entries for which the code gives no guarantee (below).

**RateConverter.** `StoreRates`, `StoreTime` and `UpdateFails` are `update`,
`TakeTick` is the loop of the ticker task, `TickRates` and `PassTime` are the
ticker and the clock. Only the fetch takes time, up to its time-out.

**MCVideoPipeline**, **MCDataServices**, **MCDashboard**, **MCBackground** check
several parts in one run. The parts share no state: a behaviour chooses one part,
takes its steps and leaves the others in one initial state, so that the states
are the sum of those of the parts and not their product. Fairness is that of the
parts.

## What the runs check

Every run is `tlc -config <file>.cfg <module>`. Seven of them pass; five show a
place where the code does not do what a comment of its own says (next section).

| Run | Instance | States | Properties |
|---|---|---|---|
| `video_pipeline` | ring of 3, 6 records; 2 increments, 2 resets, 2 exits, 1 failed save; up to 4 bids, 3 prices, 2 weights, 2 floors; 1 or 2 sources, both protocols, 3 kinds of demand, panics | 346,190 | `ExtrasOfLiveRecords`, `ImplementsBoundedLog`; `DurableUntilReset`, `ResetEventuallyForgotten`; `BestSoFar`; `BestFillServed`, `NoticesHaveOneOwner`, `Answered` |
| `config_store` | 2 placements, 2 savers, both backends, 3 changes, 1 exit, 1 failed save | 133,749 | `NoLostUpdate`, `DiskNeverGoesBack`, `PlacementsSurvive`, `EventuallySaved` |
| `impressions` | 2 auctions, 2 handlers, 2 beacons, 1 reset, 3 ticks | 1.7 million | `CountsFarApart`, `BilledOnceIfDue`, `DimensionsBacked`, `DimensionsWithinPublisher` |
| `data_services` | 3 events, queue of 1, batch of 2, 1 reset, 1 snapshot; 1 entry, 1 request, 2 changes, both producers; 3 intervals, 3 thresholds, 14 units of time | 101,114 | `DataTypeOK`; `StoredAtMostOnce`, `NoSilentLoss`, `BreakdownWithinTotal`, `EventuallyFlushed`; `CacheFollows`, `EventuallyFollows`; `RatesNotTooOld` |
| `hook_execution` | 3 hooks of 2 modules, 4 plans, 3 stages | 355,963 | `TypeOK`, `EveryHookReported`, `PayloadExplained`, `RejectionEndsStage`, `ContextKept`, `EventuallyQuiet` |
| `dashboard` | 2 ad units, 2 campaigns, 2 workers, 2 changes, of the dashboard or direct; 3 saves, 3 changes, 1 crash | 364,132 | `ConfigsAgree`, `EventuallyAgree`; `FileWholeIfAlone`, `SavedIfAlone` |
| `background` | 2 URLs, 1 request, 1 pool worker, 2 retries; 1 pusher, 2 channels, 3 events | 52,610 | `BackgroundTypeOK`; `OneJobPerURL`, `MissesAreFetched`; `InOrderAndOnce`, `CloseEnds`, `EventsLeave` |

Why the bounds are enough for the cases of interest:

- *Tracking store*: six records go round a ring of three twice.
- *Config store*: two savers are one that holds `saveMu` and one that waits for
  it, and a third change can restart the timer while both are there.
- *Demand waterfall*: the collector compares two results at a time, and two
  sources give every order of arrival, a tie, a loser with notices, and a fill
  beside an error or a panic.
- *Bid selection*: four bids hold two ties and a bid between them that is not
  eligible.
- *Statistics*: with two resets the second one meets a save started after the
  first, and with two exits a restart loads a file that a crashed save left.
- *Impressions*: the times to live are 1 tick for a BURL and 2 for the other two,
  where the code has 5, 10 and 30 minutes. Two beacons are a first one and either a
  duplicate in the other handler or one after the entry is forgotten, and three
  ticks let the second be counted again. With three beacons both come in one
  behaviour; that instance is listed below.
- *ClickHouse*: a queue of one is full with one event waiting while two more
  are recorded; a batch of two is flushed by size as well as by the ticker.
- *Entity store*: with three saves one can rename the file that a second has
  truncated while a third copies the map. *Ad units*: one push is overtaken by
  another, and a second change comes while both run.
- *Hooks*: a group of three is one hook that rejects, one that is cut off and
  one that answers meanwhile; two groups show what the first leaves. The stages
  are a body that is returned, a request changed in place and scrubbed, and a
  response of a stage that cannot be rejected.
- *Price floors*: two URLs compete for one worker and one place of the pool. They
  do not show the loop waiting for itself (next section), which takes three URLs;
  that instance takes eight minutes and is listed below. *Pubstack*: with two
  channels a push is late for the first while the second is open.
- *Stored requests*: two changes are a change and a deletion, the least that two
  polls can bring out of order; each exception named below occurs.
- *Rates*: 14 units are more than the bound on the age for every setting, and
  with a bound of one unit less the property fails.

Larger instances were checked without a run of their own: `MCBackground` with 3
URLs and one retry (228,457 states, all its properties), `FloorFetcher` with 3
URLs and capacities 1 and 2 (4.3 million, safety), `StoredRequests` with 2
entries (856,068, all its properties) and with 2 requests and 3 changes (1.5
million, safety), `AdUnitSync` with 3 workers (835,137, `ConfigsAgree`),
`Impressions` with 3 beacons (5.8 million), with a time-to-live of 3 for the
dimensions and 4 ticks (5.9 million), and with both (23.9 million), all their
properties, and `EventChannel` with 2 pushers and 4 events (556,000, safety).

### Fairness

| Specification | Assumed | Because |
|---|---|---|
| `ConfigStore` | the timer fires, a saver that can move does (weak) | `time.AfterFunc` and goroutines that are never blocked for good; a failed save is a step of its own and nothing forces or prevents it |
| `DemandWaterfall` | some step is taken while one can be (weak) | the request context has a deadline (`resolveEndpointTimeout`, VP 1653), so a call of a demand source returns |
| `BidSelection` | the loop goes on (weak) | sequential code |
| `StatsStore` | the saver and a reset that has begun go on (weak) | the 30 s ticker fires for ever, file operations return |
| `ClickHouseMetrics` | `Receive`, `Inserted`, `CloseDB` (weak); `Tick`, `Stop` (strong) | a Go `select` chooses at random among the cases that are ready, so a case that is ready again and again is chosen; statements have a deadline |
| `StoredRequests` | polls, listener and fetches go on (weak); a query that is repeated succeeds in the end (strong) | ticker task and `select`; without the second a backend that is down for ever is not followed by anybody |
| `HookExecution` | the server's own goroutines go on (weak); nothing of the hooks | the time-out of a group bounds the wait |
| `AdUnitSync` | handlers and pushes run to their end (weak) | they hold one lock at a time |
| `FloorFetcher` | loop and workers go on (weak); receiving, sending and the ticks of a URL (strong) | `select`, and senders that wait on a channel are served in order; an HTTP call has a time-out |
| `EventChannel` | collector, its ticker and `Close` (weak); nothing of the sender | the network may be down for ever |

Nothing is assumed of beacons, requests, failures, crashes or of the users of
the dashboard. `Impressions`, `TrackingStore`, `EntityStore` and `RateConverter`
are checked for safety only.

`Answered` excepts a request with an adapter that panicked. In that case the
collector, which waits for one result per source and watches no context (VP
1572), waits for ever: `safeGo` recovers the panic and nothing is sent. The runs
do not check for deadlock: every model stops where its bounds are used up, the
bids are exhausted, or the process or a service has been closed. What has to go
on is stated as liveness.

## Where the code and its comments disagree

Five of the disagreements have a run in which TLC finds a behaviour of the code
that breaks what the comment says:

- `config_store_shutdown` (`ShutdownFlushes`): "Shutdown stops background
  goroutines and flushes pending data to disk" (VP 1503). A placement changed
  less than 500 ms before is lost: the debounce timer is neither run nor waited
  for.
- `config_store_load_fails` (`PlacementsSurvive`): "Configs are persisted to disk
  so placement settings survive server restarts" (VP 218). When `load` fails it
  leaves an empty map, and the next `save` replaces everything persisted by it.
  `config_store` shows the same property to hold when `load` succeeds.
- `waterfall_win_notice` (`WinNoticeOnlyForServed`): "Win-notification URL — fire
  when bid wins (before serving)" (VP 3257). With two sources the adapter of the
  one that loses has called its NURL before the results are compared.
- `stats_store_reset` (`ResetForgets`): "reset clears all stats from memory and
  removes the on-disk persistence file" (VP 1199). A save that copied the
  counters before the reset renames its file after the removal.
  `ResetEventuallyForgotten` shows that the next save repairs this, unless the
  process stops first.
- `impressions_recounted` (`CountedOnce`): "only counted once" (VP 1416). It is
  once in ten minutes; `CountsFarApart` is the property that does hold.

Others were met while reading and have no run:

- `ExtraDemand` is "tried in waterfall order when the primary source returns no
  fill" (VP 139); all sources are asked in parallel.
- `Opportunities` counts "VAST served (adapter returned a creative)" (VP 602);
  the adapter between OpenRTB and Prebid never sets `NoFill`
  (`endpoints/demand_adapter.go:327`), so a response without a winner counts.
- `Shutdown` is "safe to call multiple times" (VP 1504); the second `Close` of
  the ClickHouse store closes a closed channel. `Close` does not drain the queue,
  which `NoSilentLoss` allows for.
- A NURL is skipped if it was fired "during this process lifetime" (VP 4158);
  `firedNURLs` is cleaned after ten minutes.
- `atomicWriteJSON` says "so the file is never left in a partially-written
  state" (`endpoints/dashboard.go:779`). Saves of one entity store overlap and
  share one temporary file: one of them can rename the file another has just
  truncated. `FileWholeIfAlone` and `SavedIfAlone` say what is left of the
  promise. `bid_reports.json` is even opened by two stores (VP 1450 and
  `endpoints/dashboard.go:3244`), each of which saves its own entries.
- A deletion is passed on "so deleted ad units stop serving immediately (no zombie
  placements)" (VP 2273). A `SyncAllToPipeline` that listed the ad unit before the
  deletion registers it again afterwards, and it is served until it is removed at
  `/video/adserver`. `ConfigsAgree` excepts this case and no other.
- A campaign that is resolved from `DemandLinks` is asked twice, as the primary
  and as extra demand (`endpoints/dashboard.go:929`).
- `Shutdown` of the rules engine "waits for the tree manager to finish processing
  any remaining build instructions" (`modules/prebid/rulesengine/module.go:102`);
  it waits for the channel that it has just closed itself.

### What the properties except

Some properties hold with an exception that the code really has:

- *Ad units*: a push that read its ad unit before a change, or a deletion, and
  registers it afterwards leaves the older configuration in the pipeline until
  the next push (`ConfigsAgree`, `overtaken`). What `/video/adserver` sets or
  removes is not known to the dashboard and stays until the next push of that ad
  unit (`direct`).
- *Impressions*: a beacon may arrive before the BURL expires and its handler reach
  the BURL after. The clean-up may then have dropped it, and it is not called; if
  not, it is called late. `BilledOnceIfDue` promises the call to a counted beacon
  whose handler comes to the BURL in time.
- *ClickHouse*: `Close` leaves what is in the queue there, and a `Record` that
  finds the queue full afterwards inserts into a closed database, which fails and
  is reported.
- *Hooks*: a rejection discards the changes of its group only where the caller
  uses the returned payload (entry point, raw request, exit point). A request or
  response that is changed in place keeps what the hooks of the group changed
  before the rejection. On a stage that cannot be rejected, a hook that rejects
  still cuts off the others of its group, and their responses are dropped.
- *Price floors*: when the pool refuses a URL at a tick, the loop repeats the
  attempt and reads nothing meanwhile. With more URLs than the pool has workers
  and places, the loop can wait for the pool, the workers for the channel and the
  channel for the loop (`Wedged`). A URL that failed too often is never fetched
  again, whoever asks for it. `Stop` during a tick makes the loop spin; nothing
  but tests calls it.
- *Pubstack*: `Shutdown` only logs, and `Close` does not wait for the sender.
- *Stored requests* (`CacheFollows`): a request may save a row that it fetched
  before a newer event was applied; the save of an entry, still in its channel,
  may be applied after the later invalidation, because `select` takes either
  channel; and a first load that succeeds only after requests have filled the
  cache does not send the deletions it finds. The entry then stays until it
  changes again. A first load of `HTTPEvents` that fails is not repeated. The
  database fetcher caches the row of a deleted entry as empty data.
- *Rates*: they are looked at only when an update fails, and without a ticker
  they are used for ever.

## What is proved

The proofs are in the modules `*Proofs`; `tlapm <module>.tla` checks them, the
longest (`HookExecutionProofs`, `DashboardProofs`) in about ten minutes. They
hold for all values of the constants that satisfy the `ASSUME`s of the module,
the bounds (`MaxChanges`, `MaxTime` ...) included, and for `Spec`, that is without
any fairness. Every safety property of the passing runs has a theorem but one
(`BackgroundTypeOK`, below). In each case the property is not inductive, and what
follows says what had to be added and why. The larger invariants were checked by
TLC before they were proved.

Four runs compose several parts. `PipelineRunsParts`, `DataRunsParts`,
`DashboardRunsParts` and `BackgroundRunsParts` show that the composed
specification implements those of its parts, so that what is proved of a part
holds in the specification the run checks. In `MCVideoPipeline` the waterfall is
the exception: where another part runs it stays in the state `NoRequest`.

Leaves that only substitute or instantiate name `Zenon`, which needs no encoding
of the context; `FiniteSetTheorems` is brought in where cardinalities begin.

### VideoPipelineProofs

*Tracking store*: `RingOrderHolds`, `ExtrasOfLiveRecordsHolds`, `RingTypeCorrect`,
`StoreImplementsBoundedLog`, for any size of the ring. The invariant is the
conjunction of the three: the map of optional fields can only be said to hold the
live records if the sequence number that `record` overwrites is known, which is
what `RingOrder` says. For the refinement, `RecordIsAdd` shows that a `Record`
step appends one expanded event to `All` and drops the oldest if the ring was
full; it rests on `ExpandKept` (the expansion of a surviving record does not
change) and `ExpandNew`.

*Demand waterfall*: `BestFillServedHolds`, `NoticesHaveOneOwnerHolds` and
`WaterfallTypeCorrect`, for any number of sources. `WInv` says where a fill can
be: every fill that was sent is in the channel or is no better than `best`,
everything in the channel is the result of its source, and the results received
and waiting are as many as the goroutines that have sent. When all have been
received the channel is empty, so every fill has been compared. `NoticeInv` adds
that before the response the server has called exactly the NURLs that adapters
call, so that what `Respond` calls and exposes is not called already.

*Bid selection*: `BestSoFarHolds` and `OnlyImprovesHolds` for any number of bids;
`BeatsIsStrictOrder` shows that the order of `bidBetter` is a strict total order,
so that there is one winner and it does not depend on the pass.

*Statistics*: `DurableUntilResetHolds`, for any number of increments, saves,
resets and exits. `TmpFollows` says what the temporary file holds at each point
of a save: nothing complete until the write ends, then the copy. `Accounted` says
that neither the file nor a copy holds an increment that is neither counted in
memory nor cleared by a reset.

### ConfigStoreProofs

`NoLostUpdateHolds`, `DiskNeverGoesBackHolds`, `DiskWholeHolds`, `TypeCorrect`, for
any number of savers and placements, both backends, and failing loads
(`NoLostUpdate` claims nothing when loads may fail). `Ordered` adds that a saver
past the lock holds `saveMu`, and that the versions of the disk, of its copy and
of the memory are in that order; `SameVersion` adds that equal versions mean
equal contents. `PlacementsSurviveHolds` assumes that loads do not fail, which is
needed (`config_store_load_fails`): `Kept` says that along disk, copy and memory a
placement disappears only if `remove` was called for it, and `Down` that no saver
runs while the process is down.

### ImpressionsProofs

For any number of auctions, handlers and beacons and for any times to live in the
order of the code's, however long handlers and clean-ups take.
`CountsFarApartHolds` and `BilledOnceIfDueHolds` rest on `Timely`, a beacon
arrives after the BURL of its auction was stored and the clean-up read a clock
that is not ahead; `Spaced`, an auction that was counted and forgotten was
counted longer ago than the time-to-live, and its BURL, which lives no longer,
expired within it; `BillingOf`, a BURL is called once and only for a beacon in
time; `OpenOf`, until it expires it is there for the one handler let through.
`DimensionsBackedHolds` and `DimensionsWithinPublisherHolds` compare counters
that are changed under different locks, so the invariant counts the handlers
between them: in `Backed`, the impressions of a dimension, the handlers about to
credit it and the cached auctions not yet counted are together at most the
opportunities and the repeated counts. The lemmas about cardinalities say what
one handler or one auction more or less does to these sums.

### DataServicesProofs

`DataTypeCorrect` gives the type invariant of the composed specification of the
run from the invariants of the parts (`DataSteps`: one of its steps is a step of
one part).

*ClickHouse*: `StoredAtMostOnceHolds`, `NoSilentLossHolds`,
`BreakdownWithinTotalHolds`, `MetricsTypeCorrect`, for any number of events, sizes
of queue and batch, and resets. `OnePlace` says that an event is in one place:
queue and batch hold no duplicates and nothing in common, and what waits there is
not yet in the table. `Closing` says that the database is closed only after `run`
has stopped with an empty batch. `Reading` says that what the grouped query saw
is still in the table when the total is asked for, unless a reset came between.

*Stored requests*: `CacheFollowsHolds` and `StoredTypeCorrect`, for any number of
entries, requests and changes, both producers. `Versions` says that whatever is
cached, fetched or on its way is a version of the row, the row itself if it is as
new; `Newest` that an entry without a race holds what the last event brought or
something newer; `Reached` that every change up to the time the producer will ask
from has been applied, is on its way, or is one of the exceptions; `Control` ties
these to the state of the producer.

*Rates*: `RatesNotTooOldHolds`, for any intervals, thresholds and time-out.
`Watched` says that the next look at the rates begins within the threshold and
one interval of their fetch: it has begun, its tick waits in the channel, or the
next tick comes in time. `Timed` bounds a fetch by its time-out and `Paired` ties
the rates to the time of the last update.

### DashboardProofs

*Entity store*: `FileWhole` (`FileWholeIfAlone`), `FileComplete` (`SavedIfAlone`)
and `FileGrows` (`AloneNeverGoesBack`, which no run checks), for any number of
saves, changes, failures and crashes. The properties speak of the file at rest;
the invariant adds what a save does on its way. `AloneOK` says that a save which
overlaps with no other is the only writer, owns the temporary file, and copied at
least what the file holds; `Handles` that the temporary file is never the file
itself; `DownOK` that nothing writes while the process is down; `CleanOK` that the
file is whole and holds nothing the map does not.

*Ad units*: `ConfigsAgreeHolds`, for any number of ad units, campaigns and
workers. The property speaks of an ad unit nobody works on. `Settled` says of
every ad unit, at any time, that its last push was overtaken, or
`/video/adserver` has written it since (`DirectSync`), or its configuration
agrees with the stores, or some worker will settle it: one that has still to read
everything that is different now. A worker that would register something stale is
harmless only if another one comes after it or it counts as overtaking; this is
`Rivals`, and it is what makes the argument go through when a push ends.
`Registered` says that an ad unit has a configuration or is on the list of a
worker. The proof has a lemma per kind of step (`ListSync`, `ReadSync`,
`PutUnitSync`, `RegisterSync`, `UnregisterSync` ...).

### HookExecutionProofs

`HookTypeCorrect`, `EveryHookReportedHolds`, `PayloadExplainedHolds`,
`RejectionEndsStageHolds`, `ContextKeptHolds` and `SendNeverBlocksHolds` (no run
checks the last one), for every plan and any number of hooks, groups and modules.
`Tokens` says that the response of a hook is in one place of one list: in the
channel of its group, collected, or reported; this gives at most one report and,
with `Goroutines` (which hooks have been started, and that a channel is closed
only when its hooks have returned), at least one. `Payloads` says what the
payload, its copy at the start of the group and the payload given to each hook
are in terms of the outcomes so far and the kind of the stage, `Contexts` in
which of the maps the context of a reported hook is, `Rejection` that a rejection
comes last. The lemmas about `Only` say what it keeps when a sequence grows.

### FloorFetcherProofs

`OneJobPerURLHolds` and `FetcherTypeCorrect`, for any number of URLs, requests,
workers and retries, and any capacities. `Counted` says that a URL which is marked
as in progress, and has not failed too often, has exactly one job, summed over
the four places a job can be in: on its way back through the channel, in the
queue, in the pool, with a worker. A step moves a job from one to another, begins
one or ends one.
`OnlyURLs` says that the workers get only URLs of requests, and that the empty
job, which a receive from the closed channel yields, occurs only after `Stop`.

### EventChannelProofs

`InOrderAndOnceHolds` and `ChannelTypeCorrect`, for any number of events, pushers
and channels and any capacities. The line of a channel is what it has sent, is
sending, has queued for its sender, has buffered and has in its Go channel, in
this order. `Placed` says that the lines are increasing and disjoint and hold
every accepted event that was not dropped. The lemmas about `Flatten` say that
events keep their place in the line when they go from one part to the next.

### How recursion is dealt with

What `Only`, `Flatten` and the other recursive functions compute for sequences of
any length follows from the least number for which it fails (`WFMin`, and the
existence of the function from its finite initial pieces), since the induction
theorems of the library cannot be applied by the provers at hand. `FloorFetcher`
holds the priority queue as the number of copies of each job in it: the order of
the heap is that of the times, which the model replaces by a choice.

### What is model-checked only

- Liveness (`EventuallySaved`, `Answered`, `ResetEventuallyForgotten`,
  `EventuallyFlushed`, `EventuallyFollows`, `EventuallyQuiet`, `EventuallyAgree`,
  `MissesAreFetched`, `CloseEnds`, `EventsLeave`): fairness is out of the prover's
  reach.
- `BackgroundTypeOK`, the type invariant of `FloorFetcher` and `EventChannel`
  composed. Its halves are proved, `FetcherTypeCorrect` and `ChannelTypeCorrect`,
  and with `BackgroundRunsParts` they give it; the step that puts the theorems of
  two proof modules together is not written out, since both modules in one
  context take the prover three times as long.

The theorems `RingOrderHolds`, `DiskWholeHolds`, `OnlyImprovesHolds`, `FileGrows`
and `SendNeverBlocksHolds` state facts that no run checks beside the stronger
properties. `ImpressionsProofs` and the proofs about `StatsStore`, `AdUnitSync`
and `RateConverter` type the variables as part of their invariants.

## What is not modelled

- The documents (VAST, OpenRTB), parsing, macros and the more than two hundred
  bidder adapters are translations without state. The fasthttp variants of the
  endpoints make the same calls as the `net/http` ones. `BackendBridge` copies
  one HTTP exchange.
- The exchange collects its bidders as the demand waterfall does, with an answer
  even for a panic; targeting, deals, price buckets and the choice of a floor are
  pure computations over values that would have to be enumerated.
- The status checks and the limiter of concurrent requests are a channel with
  room for all and a counting channel.
- The vendor lists of GDPR are a map that only grows and a set that is replaced
  as a whole; the decision trees of the rules engine are rebuilt by one
  goroutine and read from a cache.
- User sync keeps its state in the cookie of the user. Sessions of the dashboard
  are a map with expiry times.
- Metrics, configuration and schema types belong to libraries or to the start
  of the process.
- Within the parts that are modelled: `ClickHouseMetrics` has no process restart
  and no contents of rows; `StatsStore` runs one reset at a time;
  `DemandWaterfall` is one request, without the map `firedNURLs` it shares with
  others; `EntityStore` has files only, and its encoding of an entry that
  `modifyFn` changes at the same time is taken as atomic; `HookExecution` is one
  stage at a time, while the stages of several bidders run in parallel and share
  the contexts of the modules; `StoredRequests` has the unbounded cache and not
  the events API, and of several backends in a row only that some may fail.
