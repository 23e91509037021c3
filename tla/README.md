# TLA+ models of Directory Monitor

Directory Monitor (`dirmon`) watches directories, filters and deduplicates what
the file system reports, stores the events in SQLite, notifies by email, syslog
and scripts, and serves a web dashboard.  This directory holds TLA+ models of
its core, the TLC configurations that check them and TLAPS proofs about them.
`PROJECT.json` lists the components, runs, mutants, hazards and theorems, and
maps every definition to the source lines it models.

## The system

```
notify callback -> queue -> debounce thread --+     (one pair per FsWatcher)
                                              v
                               broadcast channel (4096)
                                              v
       process task: dedup -> filter -> count -> insert (await) -> web channel
                                              |            |-> email task
       filters (RwLock) <- reload             |            |-> syslog
                                              |            `-> script task
       configuration file <-> state.config <-> HTTP handlers / SIGHUP -> manager

       web channel -> one socket per tab -> live events   \
       event store -> GET /api/events    -> history page  -> view of the tab
       metrics registry -> GET /api/metrics, /metrics
```

| Component | State | Operations | Interacts through |
|---|---|---|---|
| `FsWatcher` (dm-watcher/watcher.rs) | queue of the callback, `pending` of the thread | `new`, `add_watch`, callback, `debounce_loop`, drop | broadcast channel |
| `WatcherManager` (manager.rs) | entries by id, `next_id` | `add_watcher`, `remove_watcher`, `list_watchers`, `reload` | lock, called by runner and handlers |
| `EventDeduplicator` (dedup.rs) | table key -> instant | `process`, `cleanup` | lock, called by the process task |
| `EventFilter` (filter.rs) | globs, event types | `from_config`, `matches` | list under an `RwLock` |
| process task (runner.rs, pipeline.rs) | position in the channel, the batch in hand | `recv`, `process_watch_event` | all of the above, store, web channel, notifiers |
| configuration (dm-core/config.rs, routes/config.rs, routes/watchers.rs) | file, `state.config`, filters, gauge | load, save, GET, PUT, POST, DELETE, reload by HTTP and SIGHUP | locks, file |
| `EmailNotifier` (email.rs) | `pending`, rate limiter | `notify`, `flush`, `send_*`, `check_rate_limit` | one spawned task per event |
| `EventStore` (dm-storage) | command queue, SQLite | open, migrate, insert, batch, query, count, purge | one thread per store, oneshot answers; two stores on one database |
| metrics (dm-metrics) | counters, labels, sliding windows | record, scrape, chart | atomics, locks |
| web (dm-web) | tokens, web channel | router, login, WebSocket | HTTP, broadcast |
| dashboard (templates/js) | events shown, page, socket | history, live events, reconnect | HTTP, WebSocket |

What makes each part correct:

| Component | Correct if |
|---|---|
| `FsWatcher` | no event is duplicated, reordered or silently lost; what is collected is sent |
| `WatcherManager`, configuration | one watcher per path; watchers, filters, memory, file and gauge agree once reloads are over; a watcher that stays is not restarted; an edit that was answered is not lost |
| `EventDeduplicator` | exactly the repetitions within the window are withheld; the table is bounded |
| process task | each received event has one fate, and journal, counters, store and live view agree on it; the history covers what the filters allow |
| `EmailNotifier` | no event is mailed twice or forgotten while it can be sent; the limit holds; no task hangs |
| `EventStore` | commands run on the current schema; every caller is answered, and truly; pages miss nothing |
| metrics | no increment is lost; a window holds the events of its span |
| web, dashboard | no expired token is accepted; each event is shown once, live or from the history |

What is hard in it: the threads and tasks above interleave freely; the channel
drops what a slow or late receiver misses; watchers come and go while their
threads hold events; a reload touches five pieces of state one lock at a time
and can fail half-way; the file is rewritten in place; the limiter and the batch
of the email notifier are used by concurrent tasks that hold no lock between
two looks at them.

## Modules

| Module | Models | How |
|---|---|---|
| `DedupTable` | dedup.rs | the table and what `process` does to it, as pure operators |
| `Deduplicator` | dedup.rs | `process` called at any instant; history of the passes of each key |
| `DedupHold` | - | abstract specification: one hold-off timer per key |
| `FsWatcher` | watcher.rs | `raw[w]` is the callback's queue, `pending[w]` the Vec, `sent` what the channel accepted; the match arms of `debounce_loop` are `DebounceRecv`, `DebounceFlush`, `DebounceEnd` |
| `EventTypes` | event.rs (names) | what each type is displayed as, what `from_str` takes for it, which `script_events` select it |
| `EventFilter` | filter.rs and its use in pipeline.rs | `FromConfig`, `Matches`, the list of a configuration and its lookup (`Allows`), `RunsScript`; operators over watches |
| `EventPipeline` | runner.rs 180-207, pipeline.rs 82-243 | extends `FsWatcher`, `DedupTable` and `EventFilter`; `task` is the await at which the process task stands |
| `WatcherReload` | manager.rs, routes/watchers.rs, routes/config.rs, SIGHUP task | each reload is a process whose steps are separated where the code takes another lock |
| `TimeText` | to_rfc3339 in worker.rs, toISOString in events.js | a timestamp and a bound as the texts SQLite compares, as sequences of numbers, and the order of times |
| `EventStore` | worker.rs, schema.rs, shared.rs, routes/events.rs, paging in events.js | extends `TimeText`; `worker[s]` is the thread of each store, separated at every statement; `queue[s]` its commands, `call[c]` where a caller stands |
| `EmailNotifier` | email.rs | one process per event, separated where the code drops a lock or awaits |
| `SlidingWindow` | window.rs | a window as the sequence of its buckets; `RecordAt` with the trimming, as operators |
| `MetricsRegistry` | lib.rs, counter.rs | extends `SlidingWindow`; `rec[r]` is where a recorder is in `record_event`, separated at every lock and atomic; `chart` where the reader is in `chart_json` |
| `WebClient` | auth.rs, server.rs, routes/events.rs, events.js, core.js, auth.js, dashboard.js | one tab and its server: login and tokens, sockets with their handlers and timers, loads of the history under way, the view |
| `MC*` | | instances for TLC |
| `*Proofs` | | theorems checked by TLAPS |

`journal`, `reported`, `lost`, `passes`, `mails`, `erred`, `alone`, `promised`,
`overlapped`, `fault`, `interrupted`, `counted`, `exact` and `heard` are history
variables: no guard reads them, but that `heard.stepped` keeps the clock from
being set back twice.  `told` is one too, except that `TaskInserts` takes a row it does not have:
events have new ids.

### Abstractions

* An event is an id, a key (path and type) and its watcher.  `Noise` are notify
  events `convert_event` drops, `Fault` are notify errors.  Which event kinds are
  kept is not modelled.
* `FsWatcher` leaves time out: the timeout of `recv_timeout` may fire whenever
  the queue is empty.
* What a glob matches is a parameter (`Hits`); a pattern without an entry there
  is one that globset rejects.  In `WatcherReload` a watch is a path, its recursive
  flag and one rule that stands for include, exclude and event types.
* `WatcherReload` reads a truncated file as a configuration without watches
  (all fields of `AppConfig` have defaults).  A file that does not parse makes a
  reload do nothing and is left out.
* In `EventPipeline` an insert answers with success or failure.  In
  `EventStore` a row is a number, its place in the order of timestamps; `Stamp`
  gives its timestamp, and no two rows are at the same nanosecond.  A statement
  of SQLite is atomic, survives the process and may fail; the rows that the
  parts of a filter other than the period select are a constant.  A power cut, which may take back what was
  committed (`synchronous = NORMAL`), is left out.
* `TimeText` takes what comes before the fraction as one number (years of four
  digits, both forms in UTC) and each group of three digits as one character.
* `MetricsRegistry` takes the atomics, which are `Relaxed`, as sequentially
  consistent.  `NothingMiscounted`, `ScrapesGrow` and the windows look at each for
  itself alone, where that changes nothing; `ChartHangsTogether` relates the total
  to the cells of the labels and is shown under this assumption only.  The program records from one task;
  the registry is checked with two, because it is shared and its locking is made
  for several.  The two calls of `Utc::now()` in one recording are one moment.
* In `WebClient` rows are numbered in the order they are stored and sent; `Stamp`
  gives each its timestamp, by which pages are ordered, and no two are the same.
  A page is the set of its rows.  The tab keeps its filters, and the rows that
  match them are a constant: the server applies them to pages and not to what it
  sends on the socket.  The tab starts on page 1; that a password is right is a
  choice.  A socket is accepted (101), opened by the browser and subscribed by the
  server's task for it, the latter two in either order.  What a count and a query
  see apart is in `EventStore`.
* The order in which a `HashMap` is walked is any order.

### Bounds

Every bound is a constant of a module: `MaxTime` (clock), `MaxRaised` (items
notify reports), `Capacity` (of a channel), `MaxWatches`, `MaxEdits`,
`MaxStarts`, `MaxRow`, `PerPage`, `Minute`, `MaxEvents`, `MaxRows`, `MaxShows`,
`MaxLoads`, `MaxTroubles`.

* Deduplicator and pipeline: `MaxRaised = 3` lets a key pass, be suppressed and
  pass again, and one watcher send two batches with the other's between;
  `Window = 2` and `MaxTime = 2` (6 for the deduplicator alone) reach both sides
  of the boundary; a channel of one message lags with the second.  The
  configurations of the pipeline have nested roots, a watch with an invalid
  pattern, which has no filter, and one whose only type name is unknown, which
  allows every type.
* Reload: two loads and one edit or administrator change, over two starts, let
  an HTTP and a SIGHUP reload see different files in any overlap.
* Store: three rows, of which the first lies a nanosecond before the millisecond
  the period begins with, and the others, one written without a fraction and one
  with nine digits, in the second of its end; pages of one row, so that an insert pushes a row to the next
  page while a client is on its way there; two starts, so that one is cut off in
  a migration.
* Email: three tasks with batches of two make two tasks find one full batch.
* Metrics: three events of two types under one root, so that both recorders
  come upon a new label and a third event finds the cells there; a window of one
  bucket of two seconds and windows of two buckets of one, over four instants, so
  that buckets fill, age by exactly the duration, leave, and stand behind older
  ones once the clock was set back.  Counters and windows share no state but the
  position of a recorder, so the clock stands still while both recorders are
  under way or a chart is read (`Apart`), and it ticks only when the next
  recording in a window can see it (`TimelyTick`: a tick commutes with every
  other step).  The recorders are symmetric.
* Web: two rows from before the start and two stored after it, in another order
  than that of their timestamps, one of which does not match the filters; pages of
  two rows and a channel of one, so that a page has to choose and a receiver lags;
  the page shown twice, so that a second login adds a socket; two loads under way,
  whose answers change places; one death, broken connection, expiry, logout or
  change of the password per behaviour.

## Runs

| Run | Question | Result |
|---|---|---|
| `dedup` | Does the lazy table behave as one hold-off timer per key, whenever it is called? | passes |
| `watcher` | Is any event of two watchers duplicated, reordered, unaccounted for or stuck? | passes |
| `watcher_preserved` | "All events are preserved" (watcher.rs:114) | violated: a dropped watcher's thread ends with events pending |
| `pipeline` | Does the history cover what the filters allow, and do journal, counters, store and live view agree, under lag, failing inserts and reloads? | passes |
| `pipeline_live` | Is every accepted message decided or skipped? | passes |
| `reload` | What do overlapping reloads, edits, failing saves and restarts leave behind? | passes |
| `reload_lost` | An added watch is there for the next reload (routes/config.rs:211) | violated: a reload that read the file before the addition puts that configuration back in memory after it, and the next save writes the file without the watch |
| `store` | Which workers run on which schema after races and crashes, what are callers told, how much of a period do pages miss? | passes |
| `email` | Is an event lost or doubled between push and drain; is an empty mail sent; does a task hang? | passes |
| `email_throttle` | "Max emails per minute" (config.rs:110) | violated: check and count are separate steps |
| `metrics` | Is an increment lost where two tasks meet a new label, does a chart hang together, is a window exact under a clock that is set back? | passes |
| `web` | Does a tab ever stop trying to connect, repeat an event, or leave a gap between the history and what is live? | passes |

The largest runs are `pipeline` (2.7 million distinct states, over a minute with two
workers) and `web` (1.2 million, under three minutes); `reload` has 110,000.

The passing properties state what the code does guarantee, with the condition
under which it does: `Conserved` names the two ways an event is lost,
`GaugeAccounts` holds until a reload fails (then `net_change` is never added and
the gauge stays wrong), `LoneReloadConverges` holds for a reload nothing
overlaps, `LoneSendersThrottled` for tasks that do not overlap and for recipients
that one event does not name twice.  `WindowExact` needs a clock that only
advances, `RecentKept` does not.  `LiveInOrder` and `ViewExact` name what ends
them: a second login, a connection that ends, a receiver that lags, loads that
overlap each other or an event, and a load shown before the server's task has
subscribed the socket, after which an event may reach neither the page nor the live
rows.  `HistoryCovers` names what the deduplicator may withhold for nothing: its
table remembers events whose insert then failed, and events that the filters of
that time rejected, though a reload has replaced them since.

Type invariants are stated in the modules or beside their proofs, and proved rather
than run.

`OnlyMigrationKills` states how a store ends for good: a version 1 database whose
migration was cut off between its two statements ends both workers at every later
start, and two workers that migrate together end one of them.  `BrowseComplete`
says how many rows a client misses at most: each row inserted between the count and
the query of the last page may push one beyond the `total_pages` it was told.
It leaves open on which side the rows of a bound's own millisecond fall.  The
theorem `PeriodByText` says exactly how: texts that end in `.000Z` and texts that
end in `+00:00` place those of the first millisecond before the period and all those
of the last one in it, against routes/events.rs:15-16 ("inclusive start", "inclusive
end").

`AddedWatchStays` promises an addition only if no reload under way has read the
truncated file of a save, so that its counterexample is the overwriting of memory
and not that.

Known from reading and not run separately:

* A kept watcher keeps its old recursive mode after a reload (`Updated` keeps
  `mode`), while `PendingReload` reports nothing pending; a reload in the middle
  of a save removes every watcher.
* An email batch goes to the recipients of the event that filled it, against the
  per-watch recipients of README.md:23, and a recipient whom two watches name for
  one path gets each email twice (pipeline.rs:180).
* The pipeline is dedup, then filter, against README.md:193: an event the filter
  rejects suppresses one that a reload has just allowed, an exception that
  `HistoryCovers` fails without.
* `sync` scripts are spawned like the others, against config.example.toml:83.
* `from_str` is documented as case-insensitive (event.rs:78) but takes a fixed
  list that misses `Create` and `CREATED`; such a name in `event_types` is
  ignored, and a list of nothing else allows every type (filter.rs:50).  In
  `script_events` `modified` selects nothing (config.example.toml:89,
  pipeline.rs:213): see `ScriptNames`.
* Windows are trimmed by the next recording only, so that a quiet hour still
  shows the one before (lib.rs:241); buckets are not "ordered by timestamp"
  (window.rs:58) once the clock was set back.
* `record_notify_sent`, `record_notify_failed` and `record_batch_flush` are called
  by nothing but tests and the queue gauge is never set: these metrics stay 0.
* An event's `watch_root` is the parent of its path (watcher.rs:298), so that
  `events_by_root` has a label per directory.
* The server sends each event to every socket (`handle_ws`), against events.js:153,
  which takes it to filter, so that live rows need not match the tab's filters; and a
  refresh of the dashboard that is answered 401
  leaves the socket open (dashboard.js:470), so that the next login opens a
  second one and live events are shown twice.

## Fairness

Weak fairness of each debounce thread (an OS thread), of the process task (each
of its awaits ends: the store answers or its channel closes, no reload keeps the
write lock), of each email task (the relay answers or times out), of each reload
and of the write of a save, of the workers of the store (OS threads whose
statements end) and of their callers; strong fairness of sending to a store's
bounded queue, whose room tokio hands out in order.  tokio's `RwLock` is granted
in order, so a reload that waits for it is not overtaken for ever.  Browsers settle
a handshake one way or the other, deliver `onclose` and run their timers; that
`Reconnects` holds rests as well on the number of broken connections, deaths and
expiries being bounded (`MaxTroubles`), since a network that breaks every
connection for ever leaves no socket open.  Nothing is assumed of the file system, of
other clients, of administrators or of the clock.

## Proofs

TLAPS checks the following for every value of the constants, with the bounds of
the runs as parameters.  The assumptions are the named `ASSUME`s of the modules
(windows, their buckets and capacities are positive numbers, model values are
distinct, configurations are sequences of watches, reload requests are finitely
many), all evaluated by TLC in a passing run.

* `DeduplicatorProofs`: types, `PassesApart`,
  `SuppressedOnlyIfRecent`, `TableIsFresh` and `ImplementsHold`.  None is
  inductive: the table says nothing of passes that were cleaned up.  The
  invariant ties each entry to the last pass of its key, and each last pass
  without an entry to an age of at least a window; the refinement maps the table
  to one timer per key and shows that each step is a step of `DedupHold`.
* `FsWatcherProofs`: types, `InOrder` and `Conserved`.  The invariant orders what
  was sent before what is pending before what is in the queue, for each watcher.
  For `Conserved` what waits, what was accepted and what was forgotten are three
  sets, an item is known by its id, and `Moves` says what a step does to the sets;
  the pipeline, where lag adds a loss, uses it again.
* `EventPipelineProofs`: types, `HistoryCovers`, `DecidedInOrder`,
  `ReceivedHasOneFate`, `CountersAccountForEvents` and `LiveFollowsHistory`, on top
  of the two above.  Each entry of the table is the instant of a journal entry of
  its key that was not suppressed; such an entry that was recorded is stored, failed
  or being stored.  What was decided or is in hand was received, sorted, and comes
  before every later message.
  An event is forgotten before the channel accepts it or behind the cursor, never
  ahead of it, and what is behind the cursor is settled, held or forgotten; the
  counters follow because settled and held are two sequences without repetition.
  For the live view: an event whose insert did not fail has as its row the number
  of such events sent up to it, and the one being stored is new to the rows, to
  those that failed and to those sent, so that a step moves no other row.
* `WatcherReloadProofs`: types, `OneWatcherPerPath`, `KeptWatcherNotRestarted`,
  `PendingReloadExact`, `GaugeAccounts` and `LoneReloadConverges`.
  The invariant needs ids below `next_id`, so that an added entry cannot be taken
  for a kept one, and that entries are finitely many, so that the number added
  is a number.  That the last watch of each path stays in `new_paths` needs the
  greatest index of a set, which comes from the well-foundedness of strict
  inclusion of finite sets.
  `PendingReloadExact` follows from one watcher per path by counting.
  `GaugeAccounts` adds up over the reloads: the fold is shown to be the sum of a
  function over a finite set, by well-founded induction on its subsets, and a step
  changes one summand and the number of watchers or the gauge by as much.
  `LoneReloadConverges`: from one step to the next, whatever a reload that nothing
  overlaps has done so far still stands.
* `EventStoreProofs`: types, and `RunningOnCurrentSchema`.  Its invariant says what
  each prefix of the statements leaves in the database: a version 1 table is recorded
  as such, and a worker that is to record or confirm version 2 has the column.
  `OnlyMigrationKills`: the column is there before version 2 is recorded only if a
  worker is between the two statements or one was cut off there, and a worker that
  comes too late to add the column finds one that runs.
  `InsertIsTold`: the process task's command stands in the queue of its own store,
  once, exactly while it waits; until it is executed its row is not in the table,
  and when it is answered the answer is whether it is.  `PeriodByText` and
  `RowsInTimeOrder` say for all timestamps what comparing them as texts means:
  rows among each other are in the order of time whatever digits they have, and
  a bound counts as the end of its millisecond.  On them stand `PagePresent` and
  `BrowseComplete`: in a set of rows the ranks are all the numbers below its size,
  since each row has another one; inserts only raise ranks, so a row that has not
  been shown stands behind the pages that have been.  The types include that the
  callers who wait are those a queue has, each once, in its own store's, and the
  rest of the queue are handlers that are gone.
* `MetricsRegistryProofs`: `NothingMiscounted` and `ScrapesGrow`, for any number
  of recorders and events.  The invariant: no two labels have the same cell, each
  cell is a label's, and a recorder that has let go of the lock holds the cell of
  its own label, whoever created it.  `ChartHangsTogether` compares sums that are
  read at different moments.  A sum of counts is the size of a set, of the events
  past their increment told apart by label and number: for each counter the total
  is what it has counted and what is on its way to it, and while a chart is read
  what has been read and what is yet to be read make no less than it began with.
  `RecentKept` and `WindowExact`: the invariant compares each bucket time of each
  window with the recordings heard; the value of a window at a time is a fold over
  its buckets, shown to be the size of a set by induction on its subsets; recording
  adds one to it, and trimming drops from the front only buckets that are too old.
* `EmailNotifierProofs`: types, `HeldOnce`, `NoEmptyMail`, `FullBatchesLeave` and
  `LoneSendersThrottled`.  The first four need that each event is pending, or in
  the hand of one task, or new, and that a task has events in hand from its drain
  on; the last one that the limiter counts at least the emails sent in its window
  as long as no two tasks send at a time, up to the one that is sending.
* `WebClientProofs`: types, `LineKept`, `LiveInOrder` and `ViewExact`.  Only
  showing the page adds to the sockets and timers, a socket that ends sets a timer,
  a timer that ends makes a socket, and one that is cleared is cleared by a socket.
  For the order: what waits in the queues of a tab's sockets is newer than what it
  shows, as long as there is one socket.  For `ViewExact` that is not enough: the
  queue must follow what is shown without a gap, the socket must be subscribed, and
  a load that is exact must not meet a second one; the invariant says where in the
  numbers of the events each of queue, answer and view stands.  That a page which
  leaves out a row is full of newer ones is a fact about places: those of a finite
  set of rows with distinct timestamps are the numbers up to its size.

Only model-checked: every liveness property, and the fairness side of refinement
(no prover here does `ENABLED`).  Every safety property of the passing runs is
also a theorem.

## Not modelled

* Used by tests only: `EventBatcher` (batch.rs), `Snapshot::diff`, `insert_batch`,
  `purge_before` and `remove_watcher`.  The program has no caller to model them
  with.
* Text and layout: messages and log lines, the Prometheus format, placeholders,
  the dashboard's rendering and charts.  `time_series` only reads, and its buckets
  are SQL's.
* Syslog: one write per event, no state.  Script command lines, environment and
  output: in `EventPipeline` a script starts and ends.
* Time in `FsWatcher`: the timeout of `recv_timeout` may fire whenever the queue is
  empty, so that it says nothing of how long a batch waits, and a steady stream of
  events, which delays it for ever (watcher.rs:124), is not shown.  Nor is what
  the backends of notify do with a directory that is deleted and made again.
* The notification settings of a watch: the process task keeps those of the start
  (runner.rs:179), plain from the code.
* The settings pages of the dashboard, the router and the embedded assets, the
  command line and the service glue.
