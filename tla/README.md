# A verified model of lim, the local inference manager

lim runs one `llama-server` at a time on one GPU, starts and swaps it on demand
behind an OpenAI-compatible proxy, stops it when idle, and shows what it does on
a dashboard and in Prometheus metrics. This directory holds TLA+ models of the
parts of lim where order, concurrency and failure decide whether it is correct,
the TLC runs that check them, and TLAPS proofs of the most important results.

`PROJECT.json` lists the components, the runs, the source lines every definition
stands for, the mutants that show each property can fail, the hazards of the
code, the disagreements found between code and documentation, and the theorems.

## Inventory

| Part (source) | State it keeps | Operations | What makes it hard |
|---|---|---|---|
| Manager (`manager/manager.go`, `instance.go`) | `swapMu`, the slot `current`, `queueDepth`; per instance state, idle timer, `exited`, process group | `Ensure`, `Stop`, `Snapshot`; goroutines `reap`, `pollStarting`, the idle callback | everything competes for one mutex that is held for minutes; processes die on their own, ignore SIGTERM, leave children; timers fire late; starts fail at four points |
| Ports (`instance.go`, `proxy.go`, `metrics.go`) | the port of each instance, who listens on it | `freePort`, `waitHealthy`, `BaseURL` in a forwarded request and in a scrape | a port is free only at the moment it is asked for; a request and a scrape hold a number, not an instance |
| Configuration (`config/config.go`) | models, alias index | `Load`, `Resolve`, `TTL`; `Args` renders the command | Go's map order differs from start to start |
| Event bus and SSE (`events/bus.go`, `web/events.go`) | subscribers, their channels of 32 | `Subscribe`, `Publish`, cancel; the SSE loop | closing while sending, full channels, events in another order than the changes |
| Queue depth (`manager.go`, `main.go` publisher) | a counter, a gauge, a badge per page | in and out of every `Ensure` | load, publish and set are separate steps of many goroutines |
| Log buffer (`instance.go`) | a ring of 64 KiB, a partial line per stream | `Write`, `String`, `LastLine` | output cut anywhere, two streams, a terminal that fails |
| Proxy (`proxy/proxy.go`, `stats.go`) | none of its own; per request the captured answer | `OpenAI`, `captureBody`, `record` | clients hang up, instances die in the middle, two ways to end a body |
| Statistics of an answer (`proxy/stats.go`) | none | `extractStats`, `fromLlamaResp` | one document or a stream, `timings` or `usage` or both, in chunks of their own, broken off anywhere |
| Auth (`auth/auth.go`) | the token's id in the request's context | `Middleware` | tokens are revoked while their requests wait for a cold start |
| Store (`store/gorm/gorm.go`) | tables `api_tokens`, `request_logs` | `Create`, `Lookup`, `Revoke`, `Save`, queries | survives lim, unlike the counters; may refuse a row |
| Metrics (`metrics/`) | counters and gauges | `RecordRequest`, setters, token collector, scrape with `relabel` | must agree with the log; relabels what another process writes |
| Web pages (`web/web.go`) | none; the page in the browser keeps a table of 50 rows and reconnects | dashboard, live request log, tokens, token log, start and stop buttons | pages read while others write; a page that outlives its connection and lim |
| Process (`cmd/lim/main.go`) | none | start-up, serving, signal, shutdown | requests before the signal is asked for and during the shutdown |
| Preload (`manager/preload.go`) | files of the `hf` CLI | one download after the other, before serving | one of several fails, or never ends |

Interaction. Handlers of `net/http` run concurrently; `OpenAI`, `LlamaWebUI` and
`startInstance` call `Ensure`, `stopInstance` and `main` call `Stop`. The manager
calls `publisher.Publish`, which sends to the bus and then sets a gauge. SSE
handlers read their channel of the bus. `OpenAI` forwards to the port of the
instance `Ensure` returned, without holding anything that keeps it alive; when
the answer has passed, `record` writes the row, publishes it and counts it. A
scrape appends what it gets from the port of the instance in the slot.

The correctness of each part, and the hazards at their lines, are in
`PROJECT.json` under `hazards`; the ones no property covers say why.

## Modules

| Module | Models | Extends or instantiates |
|---|---|---|
| `Manager` | `Ensure`, `Stop`, `startLocked`, `reap`, `pollStarting`, idle timers, the process group | instantiates `InstanceSlot` |
| `InstanceSlot` | what the manager promises of the one slot | |
| `ManagerProofs` | theorems on `Manager` | extends `Manager` |
| `Lim` | the process: start-up, handlers, the signal, shutdown, what survives | extends `Manager` |
| `LimProofs` | theorems on `Lim` | extends `Lim`, `ManagerProofs` |
| `Gateway` | ports: how a request and a scrape reach the instance they mean | extends `InstanceSlot`, `Relabel` |
| `Relabel` | `relabel` and `injectLabel`, as operators | |
| `GatewayProofs` | theorems on `Gateway` and `Relabel` | extends `Gateway` |
| `Proxy` | a request from its token to its row and counters; tokens | extends `Stats` |
| `Stats` | what is taken down of an answer, as operators | |
| `ProxyProofs` | theorems on `Proxy` and `Stats` | extends `Proxy` |
| `Config`, `ConfigProofs` | loading a configuration, and theorems | |
| `QueueFeed`, `QueueFeedProofs` | queue depth, bus, SSE, gauge, and theorems | |
| `LogBuffer`, `LogBufferProofs` | ring buffer, prefix writers, `LastLine`, and theorems | |
| `TokenPages` | the pages of a token's requests | |
| `Dashboard` | the live request log in a browser: table, channel, connection | extends `TokenPages` |
| `RequestLogProofs` | theorems on `TokenPages` and `Dashboard` | extends `Dashboard` |
| `MCManager`, `MCConfig`, `MCProxy`, `MCGateway` | symmetry and input sets for TLC | |

A definition named `X_Something` with the comment "Mutant" is not part of any
specification: it is `X` with a plausible bug, and substituting it for `X` must
break the property it is listed with.

### Manager

The variables are the code's: `current` is `m.current`, `state` and `model` are
fields of `Instance`, `armed` and `idleDue` are the idle timer running and its
callback waiting for the lock, `reaper` tells whether `inst.exited` is closed.
`holder` and `at` are the mutex: who has it and how far it has come. All that is
done under `swapMu` between two points where somebody else matters is one
action, so a start is `Create` (the instance is stored and published), `Spawn`
(`cmd.Start`, `go reap`, `go pollStarting`), `HealthOk`, `MarkReady` and
`ReturnReady`, and each way to fail is an action of its own: `PrepareFails`,
`SpawnFails` (which, as in the code, publishes nothing), `HealthFails` with
`AbortDone`. `Terminate` is `terminate` up to its `select`, `GraceExpires`
the SIGKILL after 10 s, and `ClearStopped` what follows once `exited` is closed.
The health check and the grace period may run out at any moment: no clock is
modelled, so the results do not depend on the configured times.

A process group is "up", down to its "children" or "gone". `cmd.Wait` also waits
for the goroutines that copy the output, and children share the pipe, so `reap`
closes `exited` only when nothing of the group is left. (If lim's own terminal
fails, `LogBuffer`, the copying ends before and `cmd.Wait` may return with
children alive; `Manager` leaves that out.)

`pollStarting` takes no lock, so its check (`PollCheck`), the two loads of its
snapshot (`PollLoad`, `PollRead`), the event (`PollEvent`) and each gauge it then
sets (`PollGauge`; `due` are those it has yet to set) are separate steps, between
which the holder of the lock or another poller may publish. The holder's own
event and gauge are one step: what a poller does between the two is about
another gauge, or says the same, or is outdated. `Polling` names the instances
whose poller gets a tick before the start is over. `view` and `up` are what was
last published and the `lim_instance_up` gauges. The history variable `stale`
says that a poller has published, or set a gauge for, a snapshot that held no
more, and stays until the slot is published empty again.

`Touch` has no caller in the program and is not modelled; ports are in `Gateway`.

### Lim

`Lim` adds the phases of `main` to `Manager`: "loading" the configuration and the
database, "preloading" when asked to (`Fetch` is the end of one `hf download`,
whatever its outcome, which makes no difference to what follows; it may never
come, for `cmd.Run` has no timeout), "listening" when the server accepts requests but `signal.Notify` has
not been called, "serving", "stopping" in `mgr.Stop`, "closing" in
`srv.Shutdown`, and "exited"; "aborted" is every end that runs none of
`main`'s shutdown: a `log.Fatalf`, or a signal before `signal.Notify`. A handler that
is `open` has been accepted and may call the manager; the listener stays open
until `srv.Shutdown`; `Exit` is the return of `main`, at most 5 s later whatever
the handlers do. After it no goroutine moves, and only `Survivors`, the process
groups, do. The history variable `late` remembers whether a request still wanted
the manager when the signal came or after it.

### Gateway

`Gateway` takes the manager as `InstanceSlot` promises it, and adds the port of
each instance, who has it open (`bound`, `taken`), and other programs (`Stranger`) that
open and close ports. `Start` is `startLocked` with `freePort`: the port is free at
that moment. `Bind` is the server opening it, if nobody came first. The server leaves
it when it dies, or when it was sent SIGTERM and stops listening before it exits
(`StopListening`, recorded in `closed`); the rest of its group may live on, and the
slot then stays as it is until `Exit`, because `cmd.Wait` does not return. `MarkReady`
needs a 200 from whoever listens, which is all `waitHealthy` knows. A request
keeps the instance `Ensure` returned in `to` and connects to its port in a later
step; a scrape keeps the snapshot of `current()` in `scraped`, fetches later, and
relabels what comes with the model of the snapshot. `robbed` remembers the instances
whose port another program opened while they were in the slot, before their server
did or after it left.

`Relabel` writes samples from their parts, relabels the text as the code does,
and compares with what the parts written with one more label look like. A character
is a string of letters, a punctuation mark its name. There is one layout of a
sample, the one llama-server's exporter writes; tabs, a blank before the brace and a
comma after the last label, which the text format allows too, are not among the
inputs.

### Proxy

The handler of each request walks through `Authenticate`, `Route`,
`EnsureReturns`, `Forward`, the reads of `captureBody`, `Close`, and `record` in
its three effects `Save`, `Publish` and `Count`, each of which other requests,
the token page (`CreateToken`, `Revoke`) and a `Kill` of lim may come between. `Ensure` is reduced to its two outcomes. An answer is a stream or a
single document with the numbers of each of its chunks; `read` says how many
`captureBody` has buffered when the body ends, and `ExtractStats` of `Stats` is
applied to those. `rows` survives `Kill`; the counters do not. `Save` may be refused
(`SaveFails`). What `Publish` sends arrives in `Dashboard`.

### Config, QueueFeed, LogBuffer

`Config` visits the models in any order and keeps the index that has been built
so far, as `buildAliasIndex` does. Commands are lists of fields, downloads the
kinds of entries. `Args`, which fills in the template of a command at every start,
is in `Manager` one of the reasons for `PrepareFails`.

`QueueFeed` keeps `depth`, for each publisher the value it has loaded and the
channels it has still to send to, the bus's read lock, and per SSE connection
its channel and the badge of its page. `ShowCurrent` is the push on connect. Two
history variables say when a stale value is the code's own doing: `raced`, that
another publication overlapped the latest, and `missed`, the channels that were
full when last sent to.

`LogBuffer` writes chunks of bytes of both streams; a byte is a blank, a line
break, a tab or something visible. The terminal may fail at any line, which ends
the copying of that stream as `io.Copy` does; what it took of the line before its
error is not kept.

### TokenPages, Dashboard

`TokenPages` gives the reader of a token's log a page number and the set of rows
seen; the header (`CountRequests`) and the rows of a page are separate queries.
`Save` may insert a row behind others, because `created_at` is taken before the
insert and from a clock that may be set back. Rows with equal times are assumed
to keep their order between two queries.

`Dashboard` adds a browser with the dashboard open. `Render` is the page with the last
`RecentRows` rows, `Connect` the SSE handler's subscription, for the first time or
after a loss, neither of which fetches rows. `Publish` puts a row into the channel of
the handler, if there is room (`Cap`, shared with the events of the other topics,
`PublishOther`), and drops it otherwise; `Receive` puts it on top of the table and
trims that to `TableRows`. `Lose` breaks the connection, `Kill` ends and restarts lim
with requests saved and not yet published; the page stays open through both. Two
history variables name what the code gives up: `missed` are the requests that did not
get onto the way to this page, `twice` those that were being published when it was
rendered.

## Runs

Every run finishes within three minutes with two workers.

| Run | Question | Bounds, and why they are enough |
|---|---|---|
| `manager_safety` | one process group, no half-way slot, idle timers, what `Ensure` and `Stop` deliver, the gauges and the last event; the slot specification and the inductive invariant | 2 callers, 2 models, 2 instances, the first with a poller: two callers with different models compete, a swap leaves the timer, the reaper, the callback and the poller of the first instance behind, and the poller publishes at any moment of the swap. Beyond that the theorems hold for any number. |
| `manager_liveness` | crashes are noticed, the GPU is released, pollers end | 1 caller, 1 model, 2 instances, the first with a poller: a crash, an idle stop or a late poller, and a new start after it. Starts end when the instances are used up; a caller that finds none left fails in `PrepareFails`. |
| `lim_shutdown` | every call returns, lim exits, nothing survives an orderly exit | main and 2 handlers that may hold or want the lock, 2 models, 1 instance: the second start of the run is a swap that fails; 2 downloads, either of which may fail or hang |
| `config_load` | loading | all files of up to 2 models over 3 names with up to 2 aliases each, with empty commands, odd downloads, negative and missing ttls |
| `queue_feed` | the bus, the gauge, the badge | 2 publishers that call twice, a browser, a channel of 1, so that it overflows; the capacity of 32 only makes overflows rarer |
| `log_buffer` | ring, lines, last line | 4 bytes of output in writes of up to 3, 6 different ones, a ring of 3: the ring overflows, lines are cut everywhere, and a tab stands in every place |
| `proxy_books` | the books, the charges, revocation | 2 requests, 2 tokens, six answers of up to 2 chunks, a database that may refuse any row, 2 kills: two requests interleave in every step of `record` |
| `request_log` | paging, the live table | pages of 2, 4 rows: an exact multiple, and insertions during every page; a page that comes with 1 row, a table and a channel of 2, so that both overflow; any number of losses, kills and reloads. The code's 10, 50 and 32 only make the overflows rarer. |
| `gateway` | who answers at a port; labels | 2 instances, 2 ports: the second instance gets the port of the first or the other, and either server may leave its port before its group is gone; 2 models, 1 request, 1 scrape of a line with up to 2 labels, values with blanks, commas and braces |

### Disagreements

Where the code does not do what its documentation says a run shows it, and
`findings` quotes the line:

| Run | Shows |
|---|---|
| `manager_busy` | the idle timer counts from the start of the last request and stops an instance in the middle of a long answer |
| `lim_orphan` | a request that waits during the shutdown starts an instance that survives lim |
| `config_example` | the example configuration is rejected: a model may not list its own name as an alias, and the example does |

Others are smaller and are written into the properties and bounds as the
exceptions they are, so that the rest is checked:

- An idle callback that has fired and waits for `swapMu` stops the instance that
  `Ensure` has meanwhile re-armed and returned (`IdleStop` of an instance in
  `armed`); it is a special case of `manager_busy`.
- Between the closing of `exited` and `reap` getting the lock, `Ensure` returns an
  instance that is known to be dead. `EnsureDelivers` therefore speaks of the
  state, not of the process.
- A failed `cmd.Start` empties the slot and publishes nothing, so open pages keep
  showing a starting instance: the exception in `ViewIsCurrent`.
- `pollStarting` publishes without the lock. A snapshot from before Ready that is
  published after it sets `lim_instance_up` of the running model to 0, and the
  pages back to "starting"; one that is published after a swap does so for
  another model's, and so does a gauge that is set after its event was overtaken.
  None is corrected until the slot is emptied: the exception
  `stale` in `GaugeFollowsSlot` and `ViewIsCurrent`.
- The start of `lim` has a moment in which requests are served but a signal still
  ends the process without `Stop`, and a broken listener ends it with `log.Fatalf`;
  either leaves a running instance behind: `Abort` in `Lim`, which `NoOrphan` and
  `QuietShutdown` do not speak of.
- "The returned instance is safe to proxy to" (`Ensure`) holds as long as the server
  listens and if nobody took its port before it did. When the leader dies and
  children of it live on, the slot stays Ready, `Ensure` goes on returning the
  instance, and its port is refused or, worse, opened by another program. A request
  whose instance is swapped out before it connects is answered by the successor if
  that got the same port. `SafeToProxy` says exactly when each may happen, and that
  no other instance of lim answers for one whose group lives; `AnswersAreOwn` says
  the same of the answers themselves.
- `hf download` has no timeout: with `-preload` a download that hangs keeps lim from
  ever listening. No liveness of start-up is claimed.
- `Load` accepts a negative `default_ttl`: the timer of every model without a `ttl` of
  its own then fires as soon as `Ensure` has returned. `IdleTimeIsPositive` demands
  nothing of such a file.
- `fetchInstance` does not look at the HTTP status, and `current()` also returns an
  instance that is starting: llama-server's JSON error page, or another program's
  answer, is then relabelled and appended to the exposition. `SamplesAreLabelled`
  is about samples in the layout that llama-server's own exporter uses.
- When a stream brings `usage` in a last chunk of its own, its prompt count, cached
  tokens included, replaces the `timings` of the chunks before, and the number of
  cached tokens becomes 0: `ChargedRight` bounds their sum, and only demands that
  the new tokens are not fewer.
- The token collector leaves revoked tokens out, so what they used disappears from
  the `lim_token_*` counters although the tokens page still shows it: the exception
  in `BooksAgree`. A refused row and a kill make counters and rows differ too, and
  are excepted there.
- Two callers that publish the queue depth at the same time may set the gauge and
  the badges in the wrong order: the exception `raced` in `GaugeSettles` and
  `PageSettles`.
- `LastLine` of output that ends in a line of white space with a tab is empty:
  `TrimRight` leaves the tab and `TrimSpace` then empties the line. `LastLineIsLast`
  says so exactly: the last line that is not blank, or nothing if there is none
  or a tab follows a line break behind it.
- A closing brace in the value of a label, which the text format allows, is taken
  for the end of the labels: the exception `BraceInValue` in `SamplesAreLabelled`,
  which demands nothing of such a line and everything of the others of its answer.
- The rows of the request log are not pushed when a page connects, for the first
  time or again, so a request published between the rendering and the connection,
  or while the connection is lost, is missing until a reload; so is one whose event
  found the channel full ("drops the event", as `bus.go` says) or was on its way
  when the connection or lim went down, and one older than the 10 the page came
  with. They are the exception `missed` in `DashboardIsRight`; that a row saved
  before the rendering and published after the connection is there twice is the
  exception `twice`.

`CHECK_DEADLOCK FALSE` stands only where the system may stop: lim has exited, a
bounded number of calls has been made, the instances are used up, the process
has written what it may.

## Fairness

Assumed in `Manager`, and, as long as lim runs, the first two and the killing and
reaping of the third in `Lim`:

- the holder of `swapMu` goes on (weak): all its waits have a timeout, the
  health check `health_timeout`, `terminate` 10 s and then SIGKILL;
- whoever waits for `swapMu` gets it in the end (strong, per goroutine):
  `sync.Mutex` hands itself over to a goroutine that has waited 1 ms;
- SIGKILL kills, `cmd.Wait` returns when the group is gone, a poller is ticked;
- a timer fires, unless a call of `Ensure` may still re-arm it.

`Lim` adds that after the signal `main` goes on (weak: `CloseServer`, and `Exit`, which
has a deadline). Nothing is assumed of the start-up and of `hf`, nothing
of the process (it need not get healthy or exit), of callers (a request
may hang for ever), or of browsers. In `QueueFeed` a publisher that can go on
does.

## Proofs

`tlapm` proves for every value of the constants, under the named assumptions:

- `ManagerProofs` (`ConstantsApart`: callers, instances and the special values are
  different things): `Invariance`, that `IndInv` always holds, and from it
  `TypeCorrect`, `OneInstanceLives` (`LiveIsCurrent`), `RestIsClean` (`AtRest`),
  `RestIsTimed`, `TimersAreOwned`, the action properties `DeliversWhatWasAsked`
  and `StopIsComplete`, and `Refinement`, that the manager implements
  `InstanceSlot`. `PublishedInvariance` gives `GaugeIsRight` and `ViewIsRight`. Two
  theorems are what its liveness rests on: `CrashesAreWatched`, that the instance
  in the slot always has a reap goroutine that has not looked yet, and
  `WaitsAreAnswered`, that whoever waits for an exit under the lock waits for a
  goroutine that does not need the lock and for a process that was spawned.
- `LimProofs` (`MainIsCaller`): `LimIsAManager`, that the process does nothing to
  the manager's state that `Manager` does not allow, start-up, shutdown and
  survivors included, so that every theorem above is one about lim (`LimDelivers`
  and `LimKeepsTheSlot` spell out the most important); and `ShutdownIsClean`
  (`QuietShutdown`).
- `GatewayProofs` (`GatewayNamesApart`, `ValuesAreTexts`): `ProxyingIsSafe` (`SafeToProxy`,
  for servers that leave their port too) and `WrongAnswersNeedAReusedPort` from the invariant `GatewayInv`; `GatewayKeepsTheSlot`,
  that it lets the manager do no more than `InstanceSlot`; and `SamplesAreRight`
  (`SamplesAreLabelled`), for any number and any length of lines, labels and values.
- `ProxyProofs` (`ConstantsAreSane`, `AnswersAreHonest`: llama-server evaluates at
  least one prompt token and does not miscount): `NothingTwice`, `NothingMissed`,
  `ChargesAreRight` for answers of any length, `BooksAreRight` (`BooksAgree`), `RevokedForGood` and `RevocationIsFinal` (`RevocationSettles`).
- `ConfigProofs` (`TTLsAreInts`): the loop's invariant, that acceptance does not depend
  on the order, that names resolve to their owner, and that idle times are positive
  unless `default_ttl` is negative.
- `QueueFeedProofs` (`BoundsAreNatural`, `CallersAreFinite`): no send on a closed
  channel (`SendsAreSafe`), the counter is the number of callers in `Ensure`
  (`DepthIsRight`), the gauge is right after a change that is published alone
  (`GaugeIsRight`) and then is that number (`GaugeCountsCallers`), and so is every page
  that had room for it (`PagesAreRight`); `TypeCorrect`, that no published depth is
  below zero and no channel over its capacity.
- `LogBufferProofs` (`BoundsArePositive`): `RingIsRight`, `LastLineIsRight` and
  `WholeLinesOnly`, for any capacity and any writes.
- `RequestLogProofs` (`BoundsArePositive`, `TableIsLarge`): `DashboardKeepsPages`, that the
  dashboard leaves the log to what `TokenPages` lets happen, and so `NothingMissed` and
  `NoPageIsEmpty` for any page size and any number of requests; and
  `DashboardShowsTheLog` (`DashboardIsRight`), for any sizes of the page, the table and
  the channel, any losses and kills.

Why an invariant stronger than `LiveIsCurrent` is needed: that a live group is
the slot's is preserved by `ClearStopped` only because `exited` is closed only
when the group is gone (`ProcessIsAt`), and by `Create` only because the slot is
empty at "launch" (`SlotIsAt`); the latter needs that the lock's holder is where
`at` says and wants a model (`HolderIsAt`). `PollerIsAt` and the two timer parts
make `TypeOK` and the timers inductive. Each action preserves each part, and TLC
checks `IndInv` in `manager_safety`. What is published is followed by
`PublishedIsAt`: the gauges and the view at every point of a start, a swap and a
stop, which is what the goroutine that has the lock has left behind; the pollers
cannot break it without raising `stale`. The refinement maps the slot to
`current`, its phase to the state of the instance in it; all that callers, locks,
timers and pollers do are stuttering steps but for ten actions.

`LimInv` adds to `IndInv` where `main` is, and `QuietInv`: once `main` has let go of
the lock in a shutdown that was not `late`, nobody who could fill the slot is
left. `GatewayInv` says that an instance that has been in the slot never comes
back, so a number somebody still holds is either that of the instance in the
slot or that of a dead one (`RequestIsSane`), and that the instance that is Ready
has its port open unless it is dead, `robbed` or `closed`. `ProxyInv` says how far the
capture, the row and the counter of a request have come at each place of its
handler (`RequestInv`): that `finalize` has run is `once`, and what was written is
what would still be extracted (`LoggedInv`). `BooksInv` adds that
each counter is the sum, over the requests counted since lim started, of what
their answers say, and that every row belongs to a token that was created. Between
records those requests are the ones with a row, so the sums over the rows that the
token page and the scrape make agree with the counters (`BooksAreRight`); the lemmas
say what one element more or less does to a sum over a finite set, and that
sums by token add up to the whole. A token whose requests are through keeps
its rows, hence its totals: the second half of `RevocationIsFinal`.

In `ConfigProofs` the invariant says that the index holds exactly the claims of
the models visited; a collision therefore is a collision of the file
(`CollisionIsReal`), and a finished loop has met all there are.

In `QueueFeedProofs` the invariant `LockInv` says that a publisher that is sending
holds the read lock and sends to subscribed channels only, none of them closed;
`AloneInv` that without a race at most one caller publishes, and what it has loaded
is the counter; `PageInv` that the last event in a page's channel, or its badge if
the channel is empty, is the counter once that has been sent. `CountInv` says that
the counter is the cardinality of the callers that are not out and not leaving.
In `RequestLogProofs` (`PageInv`) what was in the places of the pages read so far has
been seen: an insertion only moves rows towards places still to be read. `DashInv`
says where each request is: every row of the log is in the table, in the channel,
pending or `missed`, until the table is full (`NothingLost`); what is on its way is not
in the table unless it is in `twice` (`TableInv`), and is there once (`ChannelInv`).

In `LogBufferProofs` the ring is a suffix of the output, as long as it may be.
`LastLineIsRight` follows the trimming and the search for a line break from the last
visible byte. `LinesInv` says that what a stream has shown is its output up to
a line break, prefixed, and that the rest, while the copying goes on, has no
line break in it; what a write does to it rests on `PrefixedConcat`, that
prefixing goes line by line. In `GatewayProofs` an instance that was started keeps its
model, so `out` is what `RelabelText` makes of the answer with the model of the scraped
instance (`ScrapeInv`); `InjectedAround` and `InjectedBare` then follow `injectLabel`
through a line with and one without braces.

`FlattenSeq` and `FoldLeft`, by which prefixing and the list of labels are defined, are
recursive functions taken by `CHOOSE`. That the function exists, and what it is
for one element more, is proved from the fact that a set of numbers that is not
empty has a least element (`NoneIsBad`): there is no shortest sequence for which
it fails (`FlattensExist`, `FlattenSteps`, `JoinsExist`, `JoinedSteps`).

Every safety invariant, action property and refinement that a run checks is
proved. Only model-checked is liveness (`CrashNoticed`, `EventuallyUnloaded`,
`PollersEnd`, `CallsReturn`, `MainExits`, `PublishEnds`), which needs `ENABLED` of
the fair actions, of which `tlapm` knows nothing; and what the three violated
properties show, which are counterexamples.

## Not modelled

Templates, layout, the playground and the rendering of a request's JSON body;
`Touch` (never called); the histogram of durations and the rates and draft counts
of an answer, which are copied along with the other numbers; wall clocks; how the
llama-server web UI rewrites and compresses what it forwards, which is not
recorded (that it reaches the instance it means is in `Gateway`); the opening and
migration of the database beyond one step that may fail; what a new lim would do
about processes an earlier one left, since no code of it looks for them.

## Plan

Done: `Manager` with its abstract specification and proofs, `Lim` from start-up
to what survives it, `Gateway`, `Proxy` with the statistics of the answers,
`Config`, `QueueFeed`, `LogBuffer`, `TokenPages` with `Dashboard`, and proofs for each, in
which every safety property of the runs is a theorem.

Left, in this order:

1. For each liveness property the safety facts it rests on, as `WaitsAreAnswered` and
   `CrashesAreWatched` are for the manager: a measure that no step of the others
   raises for `MainExits` and `PollersEnd`.
2. `Proxy` over `Gateway` instead of an instance reduced to its outcomes, so that the
   model a row names is compared with the one that answered.
3. The instance fragment of the dashboard over the bus, with `ShowCurrent` for
   snapshots as `QueueFeed` has it for the queue depth.
