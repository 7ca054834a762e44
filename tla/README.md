# PixelPitchAI: models, checks and proofs

PixelPitchAI ("Footex") simulates football matches with a language model and streams them to
browsers. This directory holds TLA+ modules of its concurrent core, TLC configurations that check
them on small instances, and proofs that the TLA+ proof system checks for every instance. Every
definition is translated from the source; `PROJECT.json` ("map") names the lines.

## 1. The system

```
 browser --HTTP--> MatchesController --(A) HTTP /startMatch--> FastAPI engine --RabbitMQ--> MatchEventRabbitMqClient --+
    ^                     |          --(B) MatchStreamingQueue -> MatchStreamWorker -> GrpcStreamConsumer <--gRPC-- engine |
    |                     v                                                             |                              |
    |                PostgreSQL  <------------- flush at the end of a match ------- MatchEventProcessor <---------------+
    +--SSE/SignalR-- MatchEventBroadcaster <--------------------------------------------+
```

| Component | State it keeps | Operations | Talks to |
|---|---|---|---|
| Match admission (`MatchesController.SimulateMatch`) | the match row (status, IsLive, creator, simulation id) | check for a live match, create, name, enqueue (B) or start the engine (A), compensate | database, queue, engine |
| Stream dispatcher (`MatchStreamWorker`, `MatchStreamingQueue`, `MatchStreamLifecycle`) | bounded channel, semaphore, `_activeStreams`, the row's status | enqueue, dispatch, start, fail, drain, stop | admission, consumer, database |
| Engine streaming (`grpc_server.py`, `streaming.py`, `stream_match_lines_direct`) | `asyncio.Queue(50)`, cancel event, generator thread | put from thread, read, cancel, finish | consumer (gRPC), RabbitMQ |
| Stream consumer (`MatchEventGrpcStreamConsumer`) | running score, event index | parse, process, flush | engine, processor |
| Event processor (`MatchEventProcessor`, event analysis, event processors) | loaded matches, scores, event cache | process an event, flush and persist | broadcaster, statistics, database |
| Broadcaster (`MatchEventBroadcaster`) | subscribers and replay buffer of each match | broadcast, subscribe, unsubscribe, clear | browsers (SSE) |
| RabbitMQ consumer (`MatchEventRabbitMqClient`) | connection, channel, event sequence | get, handle, ack, nack, reconnect, stop | RabbitMQ, processor |
| Engine status store (`optimized_simulation_service.py`) | statuses in memory, update queue, files on disk, webhooks | update, batch, write, trigger, cleanup | admission (webhook, polling) |
| Orchestration of Pipeline A (controller + engine) | the row, the engine's task and its webhook | start, name, report, poll, fetch the result | engine, database |
| Engine parser (`parser.py`) and `ZeroAllocationEventParser` | score, event index | parse a line, count goals | producer, processor |
| Cache of the read endpoints (`RedisCacheService`, controllers) | cached responses | get, fill, invalidate | Redis |
| Live statistics (`LiveMatchStatisticsService`) | live matches | add, remove | hub, processor |
| Accounts (auth commands, tokens) | users, refresh tokens | register, login, refresh, logout | database, mail |
| Client session (`AuthenticationService`, sign-in page, `ProtectedRoute`) | tokens and user in localStorage, roles cache, cookie | sign in, refresh, sign out, guard | accounts |
| Client request cache and administration (`ApiService`, services, panels) | cache, pending requests, rate windows, rows and flags of a panel | read, write, retry, clear | catalogue |
| Hub connections (`SignalRService` and its callers) | one reference and one flag per hub, timers, handlers | connect, disconnect, reconnect | hubs, session |
| Pages (simulation, demonstration, notifications, search, live panel, plotting, start, register, profile, settings, catalogue, shop) | component state, localStorage, address | clicks, answers, pushes, polls, timers | all of the above |
| Catalogue CRUD (teams, players, coaches, seasons, stadiums, search, seeding) | database rows | create, read, update, delete | database |

## 2. What is hard here, and what correctness means

* **Hand-overs.** A live match passes from its HTTP request to the channel, to the worker's hand, to
  a stream task and to the flush; in Pipeline A from the request to the engine's task, to a message
  and to the flush. At each hand-over a stop, a disconnect or a fault can drop it. A dropped match
  stays `IsLive` and bars its creator from ever simulating again, so "every live match has an owner"
  is the central safety property and "every live match ends" the liveness property.
* **Read, await, save.** Rows are read and saved in separate awaits with no concurrency token: two
  tasks that do so must be kept apart by who owns the match, not by the database.
* **Bounded things.** Channels, semaphores and buffers at their limits, with cancellation racing a
  full queue.
* **Threads and event loop in the engine.** A generator thread fills an asyncio queue whose reader
  may stop at any time.
* **Fan-out.** A browser that subscribes in the middle of a match must get every event once.
* **Memory and disk.** The engine answers from memory and saves in the background, through a queue, a
  batch and threads that share file names; a stop or a kill comes at any time.
* **One browser, many awaits.** The tab runs one handler at a time, but between an await and its
  answer the user signs out, opens another page, clicks again, or another answer arrives. State that
  is kept twice (two keys of localStorage and a cookie; a flag and a connection; rows and a cache; a
  form and what was sent) must go on telling one story.

`PROJECT.json` ("hazards") lists these at their lines, those no module covers included.

## 3. Modules

Each module names the state of the code it models in the comments of its VARIABLES; one action is one
handler, or the part of it between two awaits (C#, Python coroutines, JavaScript) or two atomic
operations on a shared object (threads). `MC*` modules only give constants for TLC.

### Backend and engine

**MatchStreamWorker**, the dispatcher of Pipeline B. `chan` is the bounded channel of
`MatchStreamingQueue`, `permits` the semaphore, `active` `_activeStreams`, `pending` and `pc` the
request in `ExecuteAsync`'s hand and where it is, `stream[m]` where the task of `RunStreamAsync` is,
`status` and `isLive` the columns of the row. `MatchStreamLifecycle` reads a row in one step and saves
it in another (`StreamSawQueued` / `StreamStarted`, `StreamFail` / `StreamFailSave`, `WorkerClear` /
`WorkerClearSave`); this is where the interleavings are. A stop is two steps, as in `StopAsync`:
completing the channel and cancelling the stopping token. `StreamEnds` and `StreamFlush` stand for the
consumer. A database fault (`faults`, bounded) can hit every save.

**SimulateMatch** EXTENDS the dispatcher with `handler[m]`, the HTTP request that creates match `m`:
check for a live match, create, name, enqueue, notify, answer, and the compensation in the `catch`. A
client may disconnect at any await (`AdmissionThrows`). `Service` is a dispatcher step that leaves the
handlers alone.

**SimulateByEngine**, the other branch of the same endpoint. `request[m]` is the handler; `isLive`,
`status`, `simulationId` and `persisted` the row; `engine` the background task of `start_match` and the
status it reports; `endMarker` the message that ends the match (`MatchIngestion` has its detail);
`notice` the webhook; `poll` an answer of `/simulationStatus` that has yet to be saved. Handlers of
Entity Framework save the columns that differ from what they read, so their read and save come to one
step; `UpdateSimulationIdAsync` marks every column and writes the row as the request has tracked it
since it was created (`AssignSimulationId`). `stranded` is a history variable: the matches the code has
given up on, set only in the actions where it does.

**LineStream** is what a gRPC call of the engine promises: the generator's lines in order up to the
first end marker, a normal end only when nothing is missing, an error only after what preceded it.
**EngineStream** is the code: the generator thread (`put_from_thread`: submit a put to the loop, wait,
give up on cancellation), the put coroutines, the bounded `asyncio.Queue`, the servicer's read loop
with its `done()` check, the cancellation, and the pool of threads. `KeepsPromise` is `LineStream` with
`produced <- emitted`.

**MatchEventBroadcaster**: one match, one broadcasting thread, subscribers on threads of their own.
`registry` is the dictionary object `_subscribers` holds for the match, `made` the number of objects
made so far and `members[d]` the content of each: an object stays reachable to who got it after it was dropped from the registry.
Enumerating a `ConcurrentDictionary` meets everybody that stays (`due`) and may or may not meet who
comes meanwhile. Channels drop their oldest message (`DropOldest`), the replay buffer evicts.

**MatchIngestion**, RabbitMQ to the row. The engine publishes the events 1..Last of each match, the
broker (external) keeps and redelivers, `hand`, `held` and `pc` are the loop of
`MatchEventRabbitMqClient`, `loaded`, `buffer` and `liveCache` the caches of `MatchEventProcessor` and
`LiveMatchStatisticsService`, `isLive` and `saved` the row. Connections are lost and restored, the
process restarts, database calls fail, and a failing call may have committed.

**EngineStatus**: `mem`, `hooks` and `proc` are `simulation_status` and the background task of each
simulation; `queue`, `writer` and `batch` the update queue and the task that drains it; `saves` the
executor's threads in `_write_file_atomic`. Files are modelled below their names: `tmp[s]` and
`file[s]` say which file a path leads to and `content` what it holds, so that two saves that share a
temporary path truncate, overwrite or move each other's file as the operating system has it. `Cleanup`
is the shutdown of the service, `Kill` the end of the process at any time, `Restart` what is read back.

### Frontend

**ClientSession**: one tab, the sign-in page, `ProtectedRoute` and the pages behind it, against the
token endpoints of the backend. A call in flight holds the bearer and the cookie it was sent with;
`token`, `user`, `roles` and `cookie` are the places that hold the session, `last` the history of who
signed in. The cookie changes in the step in which the page handles the answer, although a browser
takes it over when the headers arrive: an answer whose handler runs later, or never because its body is
lost, is not seen with a cookie that is already new.

**ApiCache**, **AdminPanels**, **AdminDashboard**: the cache of `ApiService` (hits, shared requests,
rate windows, `clearCache`), the panels of teams, coaches, seasons and stadiums over it with their
forms and retried writes, and the dashboard with the panel of players, whose every change of page or
filter re-runs its effects and whose reads fall back from key to key. Data is the number of the last
write it reflects.

**SignalRConnections**: a call of `connect()` is a script of steps with an await between any two. The
service keeps one reference and one flag per hub; every connection it ever built goes on by itself,
and its callbacks write that flag (`conns`, `current`, `flag`). `session.user` tells a logout, which
notifies the service (`SignOut`), from a session that lapses, which nobody announces (`Lapse`: the token
expires, or a failed refresh clears it, also the one `getAuthToken` makes: `NoToken`). **SimulationView** adds the simulation
page: the hook that joins, retries and leaves, the SSE stream beside it, the navigation lock and the
stored entries.

**PageShell** says what the other pages share: one page is open, its state is a record, requests are
handled and answered in any order. One module per page or family of pages builds on it:
`Notifications`, `Search`, `LivePanel`, `EventPlotting`, `StartSimulation`, `AccountPages` (register,
profile), `DemoSimulation`, `SettingsPage`, `Catalogue` (lists, the page of one thing, match details)
and `Shop`, whose other tab writes every key of the storage. **ClientPages** composes them: the open page is any one of them.

### Proof modules
`SimulateMatch_proofs` (of `MatchStreamWorker` too), `EngineStream_proofs` (of `SimulateByEngine` too),
`MatchEventBroadcaster_proofs`, `MatchIngestion_proofs`, `EngineStatus_proofs`, `ClientSession_proofs`,
`AdminDashboard_proofs` (of `ApiCache` and `AdminPanels` too) and `ClientPages_proofs` (of
`SignalRConnections`, `SimulationView` and the pages on `PageShell`); see section 5.

## 4. Runs

The backend runs use two matches, calls, clients or simulations: every hazard listed is between two
actors, or between one actor and the environment, and every resource has a capacity that two can fill.
Deadlock checking is off in every run, because each system legitimately stops (a stopped worker, a
closed call, bounded events, a user who does nothing); what must not stall is stated as liveness.

| Run | Instance | Shows |
|---|---|---|
| `worker` | 2 matches, 1 permit, channel of 2, 3 accepted requests (so one is a duplicate), 1 fault | permits conserved and the row of a match with one task at a time (`WorkerInv`), rows only move forward, a graceful stop settles every accepted request, every request ends and the stop completes |
| `simulate` | 2 overlapping requests of one user, channel of 1, 1 permit, 2 faults | a match its handler may fail is nowhere else (`SingleOwner`), a live match has an owner and a refused match is dead (`NoOrphans`), a live match ends |
| `engine_run` | 2 requests of one user through the RabbitMQ branch, everything may fail | a live match has an ender or is stranded (`EngineRunInv`), only its naming reopens a persisted match (`EndedStaysEnded`), a live match ends or is stranded |
| `engine_stream` | 2 calls for 1 thread, queue of 1, one call of 1 generator step, the other of none; chunks of several lines, skipped lines and end markers | backpressure and the thread's bookkeeping (`EngineInv`), refinement of `LineStream`, both calls end |
| `broadcaster` | 2 clients that come and go, 3 events, replay buffer of 1, channels of 2 (so both overflow) | order without repetition and nothing kept at the end (`BroadcasterInv`), no unforced hole, up to date after joining |
| `broadcaster_orphan` | 1 event; **violated** | a client joins a dictionary that the last leaving client drops |
| `ingestion` | 2 matches of 3 events, 2 lost connections, 1 restart, 1 database fault | order, bounded duplicates, nothing left behind (`IngestInv`), at least once into the buffer, a complete first flush and buffers kept until the row holds them (`BufferKept`), queued end markers end their match |
| `engine_status` | 2 simulations, queue of 1, batches of 2, one of them may fail, 1 kill or stop with restart | registered webhooks are called, a stop saves the queue, status files only move forward, the end of a task reaches its file |
| `client_session` | 2 people, one of them administrator, 2 calls in flight, 2 token pairs | storage, cookie and roles cache tell one session (`SessionInv`), the session of who signed in last, a form waits only for its own sign-in |
| `admin` | 5 panels, then a second visit to one; 1 write of one's own and 1 of others, 1 mishap, 2 to 4 requests for lists | the cache reads the own writes, a spinner has a request, a click is applied no more often than attempted |
| `signalr` | 2 hubs, 2 callers, 3 connections, 1 loss, one session that begins and ends (lapse, logout) | nothing but a connection the service had lost hold of outlives a logout, also one after a lapse; the flags are true |
| `pages` | each page alone with 2 to 8 clicks; the simulation page with 2 visits for different matches | what a page shows is what the server, the storage or the stream last gave it for the thing it names |

Bounds. A bound is a CONSTANT in the guard of the action it bounds, commented "bound" where it is
declared. Capacities are small so that "full" happens at once: the code's are 1000 (status queue), 50
(line queue), 100 requests a minute to one endpoint, and configuration (channel, permits). What each bound must
allow for its hazard to happen:
* `engine_status`: a task makes one progress report or none instead of three (`Reports`), and one
  simulation has a client that registers webhooks (`Watched`): with a queue of one and batches of two,
  one report and the end already meet in one batch.
* `client_session`: two calls in flight are a refresh overtaken by a sign-in, sign-out or 401, or a
  sign-in overtaken by another; two token pairs are two people, or one rotation.
* `admin`: one write of the panel's own beside one of somebody else puts a read before, between and
  after; `Visits` makes the second panel the one whose write is still under way.
* `signalr`: three connections are the least at which a replaced one, its successor and the other hub
  coexist. The simulation page is in `pages` with the match hub alone, two connections and
  no timers to reconnect, which `signalr` has. `MaxSigns` counts what begins a session and what
  ends one, a lapse with its logout as one: two are a sign-in and its end, either way. That somebody signs
  in again over what an ended session left is beyond the runs; the theorems have it. `MaxTries` is the attempts of
  `InstantSignalRConnector`.
* `pages`: `MaxClicks` is per page. Two answers that overtake each other need two clicks; the longer
  scripts (profile, start) need a click for every field. `Histories` are what earlier visits of the search
  page may have left in its storage: nothing, or one query.
* `engine_run` needs no bound: each request is made once, and polls repeat without counting.

`broadcaster` and `signalr` declare their clients symmetric; they check no liveness, for which that
would be unsound.

Exemptions. Some properties exempt what the code is known to get wrong, each by a history variable that is
set at the step where the code loses track and nowhere else. The property then says that nothing but that
step does harm; of the step itself, and of what follows from it, it says nothing:

| Property | Exempts | Not claimed |
|---|---|---|
| `FileForward`, `StopSavesQueue`, `SimulationEnds` | `overlapped`: simulations with two saves pending where one could overtake the other | two saves share one `.tmp`: the file may end older than the memory, or torn |
| `SessionOfLastSignIn` | "unclear": a refresh was under way at a sign-in or sign-out | its answer may bring the earlier session back |
| `ReadsOwnWrites` | `raced`: keys whose request was in flight when the cache was cleared | its answer fills the cleared cache with the list from before the write |
| `SignedOutIsQuiet`, `FlagHonest` | `orphans`: connections the service had replaced or dropped while they were open | such a connection stays open, also after a logout |
| `EventsOfThisMatch` | `late`: a join that outlived its page; `orphans` | the events of the match that was left mix with those of the page |
| `ReadIsRead` | `swept`: rows a mark-all marked although the server had not seen them yet | they read as read and are unread on the server |
| `NumbersOfThisMatch` | `swapped`: a hover refresh changed the match | the statistics of the match before stay |
| `SentAsShown` | `lost`: a save that was handled and whose answers were all lost | the page says that it failed, the server has it, and a field then edited back is not sent |
| `StoredAsShown` | `elsewhere`: keys another tab wrote; `doubled` marks | the page shows what it had, and its next write undoes the other tab's |

Fairness. Tasks, threads and coroutines that can run do run: the worker loop and its streams, a handler
that has begun (its awaits end: the compensation and the notification carry 10 s tokens), the engine's
threads, tasks and event loop, the consuming loop and its reconnection (retried every 10 or 15 s), the
status tasks, the writer and the executor. A stream of the dispatcher ends because the engine generates
a bounded number of tokens. A connected client reads. Nothing obliges anybody to submit, to poll, to
stop, to disconnect, to register, to fail or to restart. The frontend runs check safety only: what a
tab does next is up to its user.

### What the code does otherwise than it says

The violated run `broadcaster_orphan` is a finding: a subscriber that only ever gets heartbeats. While
modelling, these came up too; the modules have the steps, and properties exempt them by name.

Backend and engine:
* Two requests of one user both become live: check and insert are two awaits
  (`MatchesController.cs:322`, answered "You Can Not Simulate Two Matches At The Same Time").
* A failed flush is not retried (`MatchEventRabbitMqClient.cs:403` nacks without requeue), so the match
  stays live; `docs/rabbitmq-matchevent-client.md:294` says otherwise.
* An end marker delivered again flushes a buffer of one event over the persisted events
  (`MatchEventProcessor.cs:250`).
* An orderly stop of the engine loses the batch in the writer's hand
  (`optimized_simulation_service.py:1516`).
* Pipeline A has no compensation: an engine that refuses the start leaves the match live
  (`MatchesController.cs:575`), "failed" changes the status and not `IsLive`, and a naming that
  overtakes the flush makes the match live again (`MatchRepository.cs:181`). A started match reads
  "Completed" at once (`UpdateMatchStatusCommand.cs:38`), later whatever the engine last answered a
  poll. A webhook that comes before the naming is answered 404 and not sent again.
* Saving a result also sets the kick-off to year 1 and `IsDraw` to false: the mapper copies every
  property of the command that cannot be null (`UpdateMatchWithSimulationResult`).

Session and requests of the browser:
* A rotation stores a user without roles, and `ProtectedRoute` reads `user.roles[0]`
  (`AuthenticationService.ts:564`).
* Sign-out builds its revocation after removing the token, so it is refused (401) and nothing is
  revoked on the server; a refresh answered after the sign-out restores a session.
* A list read before a write and answered after `clearCache` fills the cache with what was before the write
  (`ApiService.ts:335`).
* Two calls of `connect` at page load build two connections; the replaced one starts all the same and
  nobody can stop it (`SignalRService.ts:162`).
* A session that lapses closes no hub: `clearTokens` (`AuthenticationService.ts:759`, after a failed
  refresh) and mere expiry notify nobody, unlike `logout`. The hubs stay open until the logout comes or the
  network drops them.
* The PUT's answer is cached as the profile (`AuthenticationService.ts:367`), although it has no
  user name and no favourite team.

Pages:
* Demonstration: the updater reads its index late, so events are passed over or repeated, and the last
  may be undefined (`useMockEventStream.ts:14`); the stream runs on while paused.
* Notifications: the server ignores page and limit; bulk deletion drops rows whose deletion failed;
  category tabs and sorting have no effect.
* Search: an answer writes its query into the address, which can start searches in turn; stale
  suggestions replace newer ones; a failing server reads "nothing found". `performSearch` is memoised
  without the history (`search/page.tsx:230`): it saves the history of an earlier render with the query in
  front, so a page opened with a query leaves that query alone in the history.
* Live panel: a hover refresh changes the match and keeps the old statistics
  (`LiveMatchPanel.tsx:148`); one failed poll clears both.
* Plotting: the scoreboard starts from the stored score of an earlier match (`EventPlotter.tsx:104`).
* Start: the redirect's timer is never cleared; a repeated POST of a started match is refused, and the
  page says it failed.
* Settings: a change writes into `defaultSettings`, so a reset does not reset.
* Catalogue: coaches, stadiums and schedule never clear `error`; the 30 s refresh shows details cached
  for 5 minutes; a player's page asks for the team whose id is the player's.
* Shop: the list and the page of a product keep their cart under different keys. Neither listens for what
  another tab stores: the tab that writes last has the cart (`products/[productId]/page.tsx:149`).
* Pitch: an event without a place is drawn in the corner, `[0, 0]`
  (`eventPlottingHandlers.tsx:15`); the demonstration's clock goes back when the recording's second half
  begins.

## 5. Proofs

The theorems hold for every value of the constants allowed by the named assumptions
(`WorkerAssumption`, `SimulateAssumption`, `EngineAssumption`, `BroadcasterAssumption`,
`IngestAssumption`, `StatusAssumption`, `SessionAssumption`, `CacheAssumption`, `PanelAssumption`,
`ConnectionsAssumption`, `ViewAssumption`, and for the pages `NotesAssumption`, `SearchAssumption`,
`StartAssumption`, `AccountAssumption`, `SettingsAssumption`, `CatalogueAssumption`, `PlotAssumption`
and `NoneAssumption`), which the runs evaluate. `SimulateByEngine` needs none of its own.

Two of them say what data the pages are given. `PlotAssumption` describes the events of a match
(`ScriptOK`): the first is its `match_start`, with two different names; places are on the engine's pitch
of 120 by 80 or missing; an event is of one of the two teams unless it is one of the match's own
(`MatchEvents`); only a shot is a goal, and a team scores once at a time, which is what makes the
plotter's `goalId` of team and time (`EventPlotter.tsx:138`) name a goal; and the name of a player says
whether he keeps a goal, and whose, because that is how the plotter finds the keepers
(`EventPlotter.tsx:36`). Nothing is assumed about the order or the times of events.
`CatalogueAssumption` says that dates and prices are numbers, which the sorts compare.

**Dispatcher.** `WorkerInv` is inductive and is what the run checks. Its conjuncts and why each is
needed:
* `WorkerTypeOK`, and `PermitsConserved`: permits, streams that hold one and the worker's own add up.
  `HoldersMove` and `HoldersStill` say how the number of holders changes when one stream moves.
* `ActiveIffRunning`: a match is in `_activeStreams` exactly while its task runs. It is why a duplicate
  request does not start a second task.
* `PendingInHand`: the request in the worker's hand is failed only when no stream exists for it, and
  between the read and the save of that failure its row is still "Queued".
* `ReadStillHolds`: between a stream task's read and its save, the row still has the status read. This
  is the strengthening that makes "rows only move forward" provable without a concurrency token.
* `ConsumingIsInProgress`, `LiveIffUnsettled`, `NoStreamOutlivesWorker`.

`SaveStep`, `PermitsStep`, `TypeStep` and `TaskStep` prove the conjuncts for each action;
`WorkerInvariance`, `WorkerConservesPermits`, `WorkerStopsLast` and, with `WorkerRowsForward`,
`WorkerMovesForward` follow.

`LossInv` is what a graceful stop needs beyond it. A match is `Lost` when it is live and its stream has
given up on it, or its row was started by a save that threw, or nobody has its request any more. The
first two count although another request for the match may wait in the channel: that one finds the row
started and ends nothing, and without them a later step could lose a match that no fault paid for.
Every step of the dispatcher loses no match (`LosesNone`) or one, and then with a fault (`LosesOne`);
`PaidGrowth` turns that into `LossesPaid`, the bound by the number of faults. With `DrainedOK` (the
channel is closed and empty before the worker waits for its streams) a live match that was accepted is
lost once the worker has stopped: `WorkerStopSettles`.

**Admission.** `SimulateInv` is `WorkerInv` and `HandlerInv`: while a match is with its handler
(`WithHandler`), neither channel, hand nor stream has it (`Untouched`), and the handler's idea of the
row is right (`RowMatchesHandler`). Steps of the dispatcher are `WorkerNext` steps, so `NextInv` is
reused (`ServiceInv`), and they leave a match they do not have alone (`ServiceLeavesAlone`); steps of a
handler preserve the dispatcher's invariant because the match is untouched (`PrivateStep`) or is just
handed over (`HandOverStep`). `HandlerOwnsAlone`, `RefusedStaysDead` and `SimulateMovesForward` follow.

`OrphanInv` adds that the channel has accepted exactly the matches that are with it (`HandedOver`) and
that the matches `Stranded`, by the dispatcher or by a handler that answered without undoing its
creation, are at most the faults. `ServiceStrands` reuses the dispatcher's losses, `HandlerStrands` has
the handlers' own: a compensation leaves its match live only when its save throws. Every orphan is
stranded (`OrphansAreStranded`), hence `NoOrphansEver`.

**Pipeline A.** `RunIInv` adds three conjuncts to types and `LiveHasEnder`: nothing exists of a match
beyond its row before the engine is asked (`NotStarted`), a named match has been taken by the engine
(`NamedStarted`), and while its request can still write the row back as live, a match that is not
persisted has an ender (`NamingHasEnder`). The last is what the naming needs: it makes the row live
whatever it was, so the ender must be known to exist before, not because the row is live. `NotStarted`
is also what `EndedStaysEnded` needs of the creation. `EngineRunSafe` and `PersistedStaysEnded` follow.

**Engine streaming.** `EngineIInv` says of each call that there is a number `t` of items its servicer
has taken, and ties everything to it: the queue holds the next ones, and all that was put but for a put
in flight or revoked (`QueueOK`); what was yielded is exactly the lines among the first `t`, ascending
(`SentOK`); the thread puts one sentinel, its last item (`ThreadOK`); an open call has taken no
sentinel, and an end marker only as its last line (`ServerOK`). A put that is revoked is not followed by
another, because the cancel event is set: that is why `queue` has no gap. `StaysWithinCapacity` counts the
positions between the last line sent and `t`, which are skipped lines but for the sentinel.
`KeepsThePromise` maps each step to `LineStream`: a hand-over is `Produce` (no sentinel before it), the
taking of a line is `Deliver` (it is the first pending), a sentinel, a yielded end marker and an abort are
`Close` with an end the promise allows. The hard case is `DoneCloses`: the servicer finds the generator
done and the queue empty. If the client is still there and the thread started, its sentinel has been put
and not been taken, so the queue is not empty.

**Broadcaster.** `BroadcasterIInv` has two parts besides the types, which no step mixes. `OrderOK` says
that whatever a client is still to be given is newer than what it has: what is left of its replay
(`ReplayOK`), what of its channel was not replayed (`ChannelOK`), and the event the fan-out has in hand
and has not written to it yet (`PendingOK`). `DictionaryOK` counts dictionary objects: one is made by a
client that was idle (`MadeByJoined`), which is what keeps objects from being used twice, who is in the
match's dictionary will leave it (`MembersLeave`), and somebody is in it, about to be, or about to drop
it (`RegistryHeld`). `OrderedFanOut` follows.

`JoinIInv` adds what leaves no hole. Events are taken as sets without gaps (`Convex`). The buffer ends
with the last event (`BufferFull`); a client the fan-out may still write to (`Attached`) has in its
channel nothing or consecutive events up to the last one it must have been written (`ChannelFull`), and
the same holds of all it knows: what was delivered, what is left of the replay and what of the channel
is newer (`KnownFull`). A client that registered during an enumeration, which need not meet it
(`Missed`), has got that event from its snapshot of the buffer (`LateOK`), because an event is recorded
before it is fanned out. `JoinsWithoutGap` and `JoinsUpToDate` follow. A client in a dictionary that was
dropped (`ConnectedIsReached`) is not `Attached`: it stops short, and still sees no hole.

**Ingestion.** `AtLeastOnce` (theorem `EventsKept`) counts three places where an event of a live match
may be: the queue, the loop's hand, the buffer. The steps that could take it out of all three need
three facts, which with `IngestTypeOK` make `IngestIInv`: a message that is in hand and no longer held
by the broker is also in the queue (`HandKept`, for the restart), a handled message has its event in
the buffer unless its match ended or gave it up (`HandBuffered`, for the acknowledgement and the
refusal), and a buffer is cleared only once the match has ended (`ClearedEnded`). What a requeue adds
to the queue is a lemma about sequences (`RequeuedElements`).

`OrderIInv` builds the order on top of it. The messages of a match wait in the order of publication
(`QueueRises`), the one in hand is at or before what waits, strictly while the broker holds it, and the
buffer is at or before both (`HandFirst`, `BufferFirst`): that is why a requeue at the head, which may
come at any point of the handling, never reorders. Only an end marker flushes, and after the end
nothing of the match is left but a copy of it (`EndLast`), so a redelivery can fill the caches of an
ended match only to flush and clear them again (`Emptied`); a buffer about to be cleared is in the row
(`ClearedSaved`). For the duplicates, `CopiesPaid` also counts the copies still to come, one the loop is
about to buffer and one that waits: a lost connection pays for a copy when it requeues the message, and
later steps only move it from the queue to the hand to the buffer; two cannot wait, because the queue
rises strictly. `IngestsInOrder` (`IngestInv`) and `BuffersKept` (`BufferKept`) follow; the first flush
is complete because what `AtLeastOnce` still places in the queue is at or behind the end marker.

**Engine status.** `StatusInv` is `StatusTypeOK`, `EndedIsFinal` (a task that ended left a final status
and had called every webhook then registered) and `TaskHasStatus` (a task at work has a status, without
which not even the types are inductive: the next stage of nothing is not one that is saved).
`EndedIsFinal` is what keeps a registration from slipping in after the end: it is refused exactly by the
final status. `StatusTyped` and `RegisteredIsCalled` follow.

`DiskInv` follows an update to its file. `LifeOK` relates the engine's life to its writer, its tasks and
the saves under way; `IdleOK` says that a simulation not started, or found by a restart, has none. Of a
simulation whose saves never overlapped, `StagesOK` says that stages rise from the file through the
thread that saves and the batch to the queue, `FilesOK` that one thread at most has the temporary file
and that the moved one is whole, and `LatestOK` that the status in memory is in the file or on its way
to it, unless it went with the batch the stop cancelled. Of overlapped ones nothing is said: two threads
then write one temporary path. `StopSavesAll` is `LatestOK` once the stop has saved the queue
(`StopSavesQueue`), and `FilesMoveForward` (`FileForward`) is `FileRises` of every step: what a move
brings to the file is at a later stage, and a kill leaves the file as it was.

**Client session.** `SessionIInv` adds to the three properties what the places of the session have in
common: tokens that expire were issued (`ClockOK`), the two keys of the storage and the cookie name one
session (`KeysOK`), and what a call in flight was sent with and brings back (`CallOK`). A refresh under
way renews the session of whoever signed in last, or it was overtaken and nobody is to be trusted
("unclear"): `RefreshOK` is the strengthening `SessionOfLastSignIn` needs, at all three stages of the
call. `OneSession`, `LastSignInHolds` and `FormsAreFreed` follow.

**Administration.** `DashboardInv` has three parts besides the types. `Fresh` is what `ReadsOwnWrites`
needs: an answer on its way that `clearCache` did not overtake is as new as the last answered write
already, because it will fill the cache later; and an answered write had been applied, so what the
backend serves from then on is as new. That a service clears every list of its entity is
`PanelAssumption`, about the keys. `WritesOK` counts an attempt before the backend applies it
(`AppliedPerClick`) and says that a write may act on the panel only while that panel is mounted.
`SpinnerOK` sharpens `SpinnerHasRequest`: a deletion never stands for a spinner, since its failure does
not end one, and the panels other than the players' never wait for players. That the next attempt for
the players is another request than the one that failed (`RestsElsewhere`, by the order of the
fallbacks) is what keeps a fallback from waiting for a request that is gone. `GetsStep`, `GetsFresh`,
`ClearsInv` and `SettleInv` treat the cache once for all handlers; `OwnWritesAreRead`,
`SpinnersStandForRequests` and `AppliedAsAttempted` follow.

**Hub connections.** `HubInv` holds of every connection ever built. One that is open is the one its hub
refers to, or was lost hold of (`OpenIsHeld`); whoever stops one waits for it (`StopIsAwaited`), and a
call waits for stops only while it stops (`CallsOK`): a call at its end has left nothing stopping. After a
logout, until the next sign-in, what is open is being stopped or was lost hold of (`SignedOutStops`):
`Build`, the retries and `Reconnected` need a token, which is what keeps them from opening one, and a start
under way at the logout is stopped like a connection that is up. Of a session that lapsed this is not true,
and not claimed: its connections stay, and stay held, so that the logout that follows stops them.
`SignedOutIsQuiet` follows (`SignOutSilences`). `FlagHonest` is inductive beside these (`FlagsAreHonest`):
a flag is written by callbacks of connections the service may no longer hold, and it is `OpenIsHeld` that
makes the connection of a callback the one held, as long as none was lost hold of. Most steps stop, build
and hold nothing (`Quietly`), and `QuietStep` treats them at once.

**Simulation page.** `EventsOfThisMatch` needs to know which groups the page is in: while nothing was
joined late or lost hold of, a connection that is up is in no group but that of the page's match, and in
none when the page is closed (`GroupsOfPage`). `Leave` is the step it hangs on: the group is left over
the connection held, if its flag is raised, so `OpenIsHeld` and `FlagHonest` are what say that no other
connection is in it and that the flag does not hide one that is. The steps of the service change groups
only by emptying them (`ServiceCarriesGroups`) and make no call for a visit (`ServiceCarriesCallers`).
`PageShowsItsMatch` follows for the specification of all pages (`PagesStep`). The assumptions it uses
beyond types are that the call of a visit is none of the other callers.

**Pages.** A step of a page changes fields of its record and leaves its name (`PageTurns`), and only a
list opens another page, that of a match. So each invariant of a page is inductive by itself: a page
that is open after a step, other than that of a match, was open before it, and the step was one of its
own (`StaysOpen`).
* Notifications, `NotesInv`: only notifications that were made are stored, shown, selected or asked
  about (`MadeOnly`). An answer says what its request made true when the server handled it, and it is
  still true when the answer comes, in whatever order, because the server makes nothing unread again
  (`AnswersHold`). A row shown as read is then settled or was swept along by a mark-all (`ReadSettled`),
  which is `ReadRowsAreRead`.
* Search, `SearchInv`: a search has two answers, results and analytics, and while it waits for the
  second it holds results of its own query (`AskedOK`); results shown are of the query named
  (`ShownOK`). An answer writes its query with its results, so answers that cross overwrite
  both. The history names no query twice, because saving one takes out its older
  entries (`SavedOnce`), of whichever earlier history it starts from (`known`). `ResultsAreOfTheQuery` follows.
* Live panel, `LiveInv`: the listener, the stored match and, unless a hover refresh swapped the match,
  the statistics are those of the match shown (`FollowsMatch`). A push is heard by the listener only,
  which is why its match is among the conjuncts. `NumbersAreOfTheMatch` follows.
* Forms. `StartInv`: a season is always one of the team's (`SidesOK`), hence so is what a POST carries
  through its retries, and its answer names the last match made (`PostedOK`). `RegisterInv`: a form
  under way had no errors when it was sent and is not what the user types meanwhile (`SentOK`).
  `ProfileInv`: the fields sent are exactly those in which card and profile differ (`SavingOK`), and
  the server holds the profile, or the card once a save is handled and not yet answered (`HeldOK`);
  without an answer that was lost, "success" then means that the server has the card.
  `FormsSendWhatTheyShow` follows.
* Storage. `SettingsInv`: what is saved loads back as it was (`SavedLoads`), the preference kept under
  another key included. `ShopInv`: besides what is shown and stored, of each key that no other tab wrote
  since (`elsewhere`), no product is marked twice unless
  a mark older than another tab's was switched (`doubled`), since unmarking removes the first entry
  only (`products/[productId]/page.tsx:189`). `StorageHasWhatIsShown` follows.

* Catalogue. `ListInv`: what is shown is always what the search makes of the items that came
  (`ListFiltered`), every way of changing the search, the choice, the order or the items filters anew
  (`RefilteredStep`), and an error without a failed fetch is one that the page never clears
  (`ListErrors`). `Searched` then finds the items asked for, all of them, in order (`SearchedInOrder`),
  because `Before` is an order (`BeforeOrders`). `ThingInv`: what belongs to a thing has come, was asked
  for, or is asked for next. `MatchInv`: the details shown are those the cache has while it has any
  (`DetailsOK`), only a live match is refreshed (`RefreshOK`), and one whose card was not "live" has no
  live controls (`OverOK`); `Bars` and
  `StatRowShown` are the arithmetic of the bars' rounded percentages, for any two numbers.
  `CatalogueIsAsFetched` follows.
* Pitch. `PlotInv`: the ids processed are those of the goals heard, whoever they were counted for, and
  once the first event was heard first, each score is the one the page was opened with plus the goals of
  its team among those heard (`PlotCounted`). `CountedOnce` is the step: the goals whose ids are not yet
  processed are exactly the goals not heard before, so that the cardinalities add up. Nobody is drawn
  after his card although keepers go by the name of the first (`NobodyAfterCard`), and each handler
  draws on the pitch (`DrawnOnPitch`; `save` puts the ball 2 in front of its marker, hence the -42).
* Demonstration. `DemoInv`: the stream goes up and is at most one past the entry to come (`Streams`),
  what the plotter was given begins it, is all of it while the demo plays, and can only break at the
  recording's end (`GivenOK`), and its goals are counted (`DemoCounted`); `FollowsStream` treats the
  tick and the controls at once. With the pitch, `ScoresCountGoals` follows.

What filtering a list keeps and how it is sorted (`Keep`, `Sorted`, recursive functions) needs
induction. The induction theorems of the library take a predicate as a parameter, which the provers
cannot instantiate; `SetInduction` takes a set of numbers instead, from the least element that
well-foundedness gives (`LeastNumber`), and each use names the set of lengths for which its claim holds
(`KeepDefined`, `KeepIn`, `KeptSet`, `SortedDefined`, `SortedInOrder`). `Sorted` puts each item in
before the first that it belongs before, which is what a stable sort leaves; the pages and the runs use
the same definition.

**Only model-checked.** Liveness and `ENABLED` are out of the prover's reach: `WorkerProgress`,
`LiveMatchEnds`, `EngineMatchEnds`, `CallsSettle`, `EndPersisted`, `SimulationEnds`. Every invariant and
every action property of the passing runs has a theorem.

## 6. What is not modelled

Left out of modules that exist: the RabbitMQ publication inside a gRPC stream and the unary gRPC call;
heartbeats and serialisation of the broadcaster; the raw-text branch of the RabbitMQ client and its
first connection; statistics derived from events; I/O errors of a status save, the removal of old files
at start-up, and the older `simulation_service.py`, which the routes do not use; the registration of
webhooks with retries, `connectUltraFast`, `cleanup` and the debugging methods of `SignalRService`,
`EmergencyMatchSimulationService`, `SignalRDebugger`, `NotificationActions`, `NotificationFilters` and
the older `SettingsContext`, which nothing calls; drawing, colours and the phases of `GoalAnimation`.

Not modelled:
* the cache of the read endpoints (`RedisCacheService`): a read-through cache with tags in front of
  single queries; its one hazard, a stale list filled after an invalidation, is listed;
* the two line parsers: pure functions from a line to an event;
* inference and feature generation (numerical);
* catalogue CRUD, search, seeding, mail and performance monitoring on the server: single database or
  network calls behind validation. The rotation of refresh tokens is in `ClientSession`, where one tab
  sends the requests; two tabs that rotate one token at once (`TokenService.cs:78`) both succeed, and
  the pair left over stays active for its seven days;
* library internals (EF Core, SignalR, RabbitMQ, Redis, uvicorn), which appear only as the code uses
  them.
