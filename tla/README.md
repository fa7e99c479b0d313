# TLA+ models of kv8-metrics

This directory holds TLA+ models of kv8-metrics, the TLC configurations that
check them on small instances, and TLAPS proofs about them for every instance.
`PROJECT.json` lists the components, runs, mutants, hazards and theorems and,
for every definition, the source lines it models.

    tlc -workers 2 -config Session.cfg MCKv8LogSession   # one run; the table of section 5 has the others
    tlapm Kv8LogSession_proofs.tla                       # one proof module

## 1. The system

kv8-metrics carries time series from instrumented C++ programs over Kafka to
two viewers. An instrumented process opens one *session* on a *channel*
(`kv8log`), announces it and its counters in the topic `<channel>._registry`,
writes the samples of each counter to a data topic of its own, its trace-log
records to `<session>._log`, a heartbeat to `<session>.hb`, and listens to
`<session>._ctl`. `kv8scope` scans the registries, lists the sessions and draws
the counters of an open one; `kv8zoom` reads the UDT feeds of one session and
streams them to browsers; command line tools measure, verify and clean up.

| component | state it keeps | operations | talks to |
|---|---|---|---|
| facade (`libs/kv8log/src`, `include/kv8log`) | settings, loaded library, call_once flags, handles and ids | `Configure`, `Counter::Add`, `UdtFeed::Add`, `Enable`, `Channel::Handle`, `Flush`, the log macro | runtime, by function pointers |
| runtime session (`libs/kv8log/lib/kv8log_impl.cpp`) | counter slots, `next_id`, sequence numbers, `aEnabled`, seen log sites, control thread | open, register counter / feed / log site, add, set enabled, log, close | producer; `_registry`, `_ctl`, data, `_log` |
| `Kv8Producer` | librdkafka handle, outbound queue, heartbeat thread | produce, flush, create topic, start/stop heartbeat | broker |
| `Kv8Consumer` | librdkafka consumer, partitions already started | subscribe, poll, `DiscoverSessions`, `ConsumeTopicFromBeginning`, `ReadLatestRecord`, message counts, create and delete topics | broker |
| UDT schema parser | none | resolve a JSON schema into a flat field table | called by `DiscoverSessions` |
| `SessionManager` | known sessions, liveness, field counts, deadlines, event queue | poll cycle, probe, `Restart`, `DeleteSession`, `DeleteChannel` | a consumer; `App` by the event queue |
| `App`, `SessionListPanel` | rows of the session list, open windows | handle events, open and close windows, delete, change settings | `SessionManager`, `ScopeWindow` |
| `ScopeWindow`, `ConsumerThread` | metadata, pending metadata, two consumer threads, rings, graphs, checkboxes | frame, reinitialise, toggle, close | a live consumer and a replay thread; rings and stores |
| `CounterTree`, `WaveformRenderer` | rows, folders, groups; traces, panels and their axes; the time window | checkboxes, menus, drag and drop, zoom, navigation | each other, through the window |
| `LogPanel`, `AnnotationStore` panel | selected row, markers, editor | click, resolve, add, edit, delete | the time window; stores |
| `SpscDynamicRing`, `SpscFixedRing` | two indices and a buffer | push, pop, clear | one thread at each end |
| `LogStore` | entries, sites, two pending queues | seed, push, drain | consumer thread and render thread |
| `AnnotationStore` | annotations, next number, pending queue | add, edit, delete, push, drain | consumer, replay and render threads; `_annotations` |
| `StatsEngine` | count, sum, minimum, maximum per counter | feed, read | consumer thread and render thread |
| `ZoomBridge`, `KafkaReader`, `WsServer`, the page | active session, reader, rings, assembler, trail, pause and seek state, views | timer, switch session, seek, pause, discovery, open/close/message, stop | Kafka thread, discovery thread, browsers |
| `kv8bench` | counters shared by two threads, a bitmap of numbers | warm up, reset, produce, drain, join, verify | broker |
| `kv8probe`, `kv8verify` | a manifest and a run of numbers | produce; check by manifest or by gaps | broker |
| `kv8maint` | none | delete sessions, channels, orphans | broker |
| `kv8util`, `kv8cli`, `kv8feeder`, `kv8bench_log` | - | - | - |

### What is hard here, and what must hold

* *First use is a race.* Counters, feeds and log macros register on first use,
  under three call_once that nest, in phases of which only one holds a lock.
  Slots may not be shared, samples may not precede the record that announces
  them, no call may hang, and nothing may be registered twice.
* *The enabled flag has two writers.* The application stores it and publishes a
  command; the control thread applies every command of `_ctl`, the process's own
  included. In the end flag and topic must agree.
* *Topics are read twice.* Replay thread and live consumer read `_ctl` and
  `_annotations` from the beginning at the same time and push into one queue. An
  older record may come after a newer one.
* *Two topics are not ordered.* A trace-log record may overtake the descriptor
  of its call site; a heartbeat, a goodbye, a marker and a deletion of topics
  cross each other.
* *Liveness is a guess* from the age of the newest heartbeat, read by calls that
  take seconds, of a program that may have crashed, closed or lost its goodbye.
* *A window is reinitialised while it runs.* New fields make it stop its thread,
  wait for it without blocking and start another one; it may be closed, or get
  the next update, at any point of that.
* *Two records of one thing.* The counter list and the renderer, the view and
  what was asked for, the bridge and the browsers each keep their own copy over
  long sequences of inputs.
* *Discovery is a scan of a growing topic,* cut off at a deadline; it finds
  partial sessions, loses some and finds them again.
* *Rings run without locks,* and one of them is cleared by another thread's
  leave.
* *The tools judge the rest.* `kv8bench` and `kv8verify` report losses; what they
  report must be true when deliveries are lost, repeated or late.

## 2. Modules

| module | models | checked in run |
|---|---|---|
| `Kv8LogSession` | runtime session, control thread, producer queue, the call_once of its callers, `_registry`, `_ctl` and data topics | `session`, `session_scalar_limit` |
| `Facade` | settings, loading of the library, three nested call_once, log macro, `Flush` | `parts`, `config_order` |
| `LogStore` | `LogStore`, on its own | through `TraceLog` |
| `TraceLog` | call sites, `kv8log_log`, the path of records and descriptors to a window; extends `LogStore` | `parts` |
| `CounterList` | `CounterTree` and the traces, panels and axes of `WaveformRenderer` | `parts`, `folder_enable` |
| `WaveformView` | time window, toolbar, log panel, navigation, one frame as one step | `parts` |
| `ScopeWindow` | window, consumer thread, replay thread, statistics count | `scope`, `scope_destroy` |
| `AnnotationSync` | `AnnotationStore` in several windows, their readers, the editor, the topic | `readers` |
| `RegistryScan` | `DiscoverSessions`, schema resolution, tombstones, the writers of the registry | `readers` |
| `SessionDiscovery` | poll cycle, event queue, session list, windows, `Restart`, deletions as the list sees them | `discovery` |
| `SessionLifecycle` | heartbeat, close and crash, probes of both viewers, deletion by `kv8maint` and kv8scope | `lifecycle` |
| `ZoomBridge` | kv8zoom: four threads, the WebSocket server and the views of the browsers | `zoom` |
| `BoundedFifo` | abstract: a bounded FIFO channel that may refuse when full and may be reset | refined by both rings |
| `SpscDynamicRing` | ring of kv8scope | `thread_pairs` |
| `SpscFixedRing` | ring of kv8zoom and the stop/join/clear/restart of its users | `thread_pairs` |
| `BenchRun` | `kv8bench`, both kinds of samples | `thread_pairs` |
| `ProbeVerify` | `kv8probe` followed by `kv8verify` | `thread_pairs` |
| `*_proofs` | theorems about `Kv8LogSession`; both rings, `BenchRun` and `ProbeVerify` (`ThreadPairs_proofs`); `RegistryScan` and `AnnotationSync` (`TopicReaders_proofs`); `LogStore` with `TraceLog`, `WaveformView`, `Facade` and `CounterList` (`ScopeParts_proofs`); `ScopeWindow`; `SessionDiscovery`; `SessionLifecycle`; `ZoomBridge` | - |

`MC*` modules give the constants their values. Three of them (`MCScopeParts`,
`MCTopicReaders`, `MCThreadPairs`) put small modules that do not interact side
by side: the variable `part` says which one a behaviour is about, and the others
stay in their initial states, so that the run checks each of them on its own.

What one module abstracts another has in detail: the rings of `ScopeWindow` and
`ZoomBridge` are FIFO queues because `SpscDynamicRing` and `SpscFixedRing`
implement `BoundedFifo`; the log store counts records in `ScopeWindow` and is
`LogStore` in `TraceLog`; a scan of `SessionDiscovery` is complete or partial, as
`RegistryScan` shows it may be; a probe returns any state there, and what it may
say of a program is in `SessionLifecycle`; a session opens in one step in
`Facade` and in all its phases in `Kv8LogSession`.

Definitions introduced by the comment "plausible bug" are not part of any
model. Each is what a neighbouring definition would be after a realistic
mistake, and `PROJECT.json` names, for every property, the one that breaks it.

## 3. State and actions against the code

**Kv8LogSession.** A topic is a pair: what is in the outbound queue (`regQ`,
`ctlQ`, `dataQ`) and what the broker has stored (`regLog`, ...). `Deliver` moves
the head of any queue: order within a topic, none between topics. One partition
per topic. `CallFacade` enters a facade call; `ChannelHandle`, `OpenCtlTopic`,
`OpenAnnounce`, `OpenMarker`, `OpenFlush`, `OpenFinish` are `kv8log_open` under
the call_once of `Channel`; `RegisterLock`, `RegisterPush`, `RegisterRecord`,
`RegisterTopic`, `RegisterFlush` are the two registration functions under the
call_once of the object; `SkipBody` is the early return of an object that failed
to register; `AddCheck`, `AddSeq`, `AddProduce` are the hot path (bounds and
flag, sequence number, produce); `SetStore` and `SetProduce` are the two halves
of `set_counter_enabled`. `CtlPoll` is one record of the control thread,
`RemoteToggle` a command of kv8scope. `FieldId` stands for the ids kv8scope makes
up for UDT fields (0x1000 and more), which are never a slot. `Faults` says
whether a flush may time out and whether the queue may be full. Sequence numbers
do not wrap within the bounds (16 bits in the code). `kv8log_close` and
heartbeats are in `SessionLifecycle`.

**Facade.** A handle stands for the settings its session was opened with, so that
two sessions opened differently can be told apart. `Call` starts an operation,
`Step` takes the thread through the call_once of its counter, of the channel and
of the library; `ConfigureBrokers` may come at any time and takes no lock. The
settings come from `Configure`, the command line and the environment in the order
of `ParseConfigFromArgvEnv`. `lib` is a library with all functions, one without
the optional ones, or none.

**TraceLog / LogStore.** A thread's `kv8log_log` is: look for the site in the
macro's cache, register it (insert in the seen set, produce the descriptor),
stamp, produce. `DrainPending` is one action: sites first, placeholders
re-resolved, new entries appended, and a sort that is spared if the new entries
follow in order. A stable order among equal times is not promised, so `Sortings`
is the set of all orders.

**CounterList.** An action is one input and the frame that draws it. Rows belong
to the list, traces to the renderer; each handler writes to both, or (the `E` of
a folder) forgets one. `panels` is what `BuildPanelAssignment` makes of the visible
traces in every frame, with the axis that ImPlot keeps for a panel until the
composition of the panel changes. `Reopen` closes the window and opens it with
the saved modes. Sorting by `<` leaves ties in any order: `Ascending` is the set
of all such orders. An open menu keeps a place (the group and the index of the row), which
may be past the end of a list that was made again, and then offers nothing. More than 256
visible counters (`kMaxVisible`) are an assumption on the instance
(`ListAssumption` excludes them). Limits of the code that are not modelled: 64 counters
in a panel, folders nested in folders.

**WaveformView.** `Frame(in)` is `ScopeWindow::Render` with at most one input and
its stages in the order of the code: toolbar, graphs with their axes and markers,
overview strip, log panel, the end of the live view, annotation panel. Between frames `Arrive` adds data and `SetLiveness` ends the
session. `w.asked` is history: the last thing the user asked for.

**Rings.** Every load or store of an index and every copied element is a step.
Index accesses are sequentially consistent: acquire/release pairs on one
producer and one consumer give no more behaviours for these two variables.
`Capacity` is the power of two the constructor rounds up to. The fixed ring is
modelled with its users because `clear()` is only safe in their order.

**AnnotationSync.** A record is its annotation and version. `Publish` is the
produce of `Add`, `Edit` and `Delete`, `Deliver` the broker, `Assign` the
partition moving between the windows of the consumer group, `Compact` the
removal of a superseded record. The editor is state of its own: it saves what it
was opened for. `Reinit` starts both readers again on the same store.

**ScopeWindow.** `thread["cur"]` and `thread["old"]` are `m_pConsumer` and
`m_pOldConsumer`. `Render` is one frame: `Shifted` moves a stopping thread
aside, `Rebuild` starts the next one once the old is done, otherwise the rings
are drained and events applied. `Blocked` is the time a frame spends in `Join`.
The thread's handlers are `PollSample`, `PollLog`, `PollCtl`; the replay thread
is `ReplayCtl`, `ReplayEnd`. The early return of `Run` when `Create` fails is
left out: `Create` never returns null. `Destructor` is split where the members
are destroyed in order: `BeginDestroy`, `Joined`, `FreeStores`,
`DestroyOldConsumer`.

**RegistryScan.** One call with its local variables (`acc`), since a call keeps
nothing. The consumer reads each partition in order, end-of-partition events come
whenever the end is reached again after growth, and the deadline may pass at any
time. A schema is its hash; `TypeName` and `Embeds` say what the text says. A
session registers what a feed embeds before the feed, and a schema as often as it
is embedded. `Pass` is one pass over the unresolved schemas in hash order and
`ResolvedSchemas` repeats it as often as there are schemas. A layout is flattened,
so `WriterLayout` is what the feed is made of at any depth (`MadeOf`).
`MarkSessionDeleted` may be called for any session some user has seen.

**SessionDiscovery.** The thread of the manager goes through `List` (or
`ListFails`), `Scan` (or `PartialScan`), `Diff`, `Probe` per session, `EndCycle`,
`Wake`. Events a step produces wait in `outbox` and are pushed one at a time. A
frame drains all of them. `Accept` and `Restarted` are the two halves of
`Restart`, between which the render thread waits. `Delete` is a confirmed
deletion of one session, which may fail; `DeleteChannel` that of all.

**SessionLifecycle.** Time is counted in ticks. Only the newest record of a topic
is ever looked at, so a topic is that record and its age; `queue` is what the
producer of a session has not delivered, and a record is stored after at most
`MaxDelay` ticks unless the broker is late. A program runs, ends
(`StopHeartbeat`, `SayGoodbye`, `DestroyProducer`) or dies in any state. A probe
of kv8scope takes the time, queries the watermark, reads the record and judges
it by that first clock, with a failure at each call; kv8zoom's
`QuickCheckLiveness` is the second prober. `kv8maint` deletes the topics and then
marks; kv8scope marks and then deletes the topics it knows of; both may meet a
failed request, and either may be killed in between. What a program produces to
a deleted topic creates it again.

**ZoomBridge.** The event-loop thread (`LoopNext`), the Kafka thread
(`KafkaNext`), the discovery thread, the browsers and a signal. The timer callback
is split at the places where another thread's step matters: stop requested,
joined, cleared, restarted. A frame is its session and its time; a broadcast
reaches every connected browser at once. `view[c]` is what the reducer of the
page has made of the messages.

**BenchRun.** Main (`pc`) and consumer thread (`cpc`) with the flags between them;
the consumer's loop is stepped where it reads or writes a flag. A run with
scalars and one with UDT samples share their steps; where the code differs
(whether the run may end without a producer, the number in the header, when the
consumer is told to stop) each has an action of its own. All waits may end early.

**ProbeVerify.** A sample is its index, its time and value go with it; numbers
wrap at `W` in place of 65536. `ManifestCheck` and `SeqCheck` are the folds of the
two modes of `kv8verify` over the topic, or over the part of it that was read in
time.

## 4. Fairness

| module | fair | because |
|---|---|---|
| `Kv8LogSession` | steps inside a call, `Deliver`, `CtlPoll`: weakly | threads are scheduled, librdkafka sends, the control loop polls; nobody has to call |
| `SpscDynamicRing` | the steps inside a push, `PopBatch`: weakly | loops without blocking calls; frames are drawn; nobody has to push |
| `ScopeWindow` | `PollLog`, `ReplayEnd`, `LeaveLoop`, `RunDone`, `Exit`, `Frame`, `Destructor`: weakly | polls and the replay have timeouts, the application draws frames; nobody has to close the window |
| `SessionDiscovery` | the manager's thread, `Frame`, `Restarted`, `Expire`: weakly | a cycle only makes calls with timeouts; time passes. Growth, faults, restarts and user actions are not fair, and all but opening and closing windows are bounded |
| `SessionLifecycle` | heartbeat thread, the steps of a shutdown, `Deliver`, `BrokerBack`, `Tick`, the steps of a probe: weakly | sleeps and flushes end, time passes, pollers go on polling and their calls have timeouts. Nobody has to start, close, crash, write or delete |
| `ZoomBridge` | event loop and Kafka thread: weakly; `AutoPause`, `CloseListenSocket`, `RunReturns`: strongly | both loops run while they live. The three are one alternative among others of a loop that comes back to them: the timer handles the end of a recording whenever it is reached, a loop told to close does so between two commands, and its `Run` returns once nothing is open |

The other modules have safety properties only: what they would promise in the end
is a matter of the user's next input (`CounterList`, `WaveformView`, `Facade`), or
stated as a safety property of the state in which everything has been read or has
ended (`LogComplete`, `ChangesKnown`, `ReportsExact`, `ChecksExact`).

## 5. Runs

| run | command | distinct states | bounds and why they are enough |
|---|---|---|---|
| `session` | `Session.cfg`, `MCKv8LogSession` | 90 000 | two threads, a scalar counter and a UDT feed, one call each, one remote command, one reserved slot: both registrations, their overlap, a thread waiting in call_once for the other, and the second id beyond the reserve |
| `session_scalar_limit` | `Session_scalar_limit.cfg`, `MCKv8LogSession` | counterexample | two scalar counters, one slot |
| `config_order` | `Config_order.cfg`, `MCScopeParts` | counterexample | brokers given twice |
| `parts` | `Parts.cfg`, `MCScopeParts` | 710 000 | facade: two threads, three calls, one failure, a counter in a channel of its own and a feed in the default one, three kinds of library. Trace log: two threads, one site, two clock values, four records. List: four counters in two groups and a folder, one of them late, two panels, four inputs, which is a toggle, a zoom, a reopening and one more. View: three records, four inputs, times small enough for the margins of the code to matter |
| `folder_enable` | `Folder_enable.cfg`, `MCScopeParts` | counterexample | one input |
| `scope` | `Scope.cfg`, `MCScopeWindow` | 330 000 | one counter that appears late, a ring of one, two samples, one record, two updates: an update before, during and after a reinitialisation; or three commands in any order of user and others and one reinitialisation |
| `scope_destroy` | `Scope_destroy.cfg`, `MCScopeWindow` | counterexample | one reinitialisation and the closing of the window |
| `readers` | `Readers.cfg`, `MCTopicReaders` | 3 000 000 | scan: two sessions with three schemas, two of them versions of one type, in one partition; four records in two. Annotations: two windows and two writes without compaction, a window that closes, comes back and gets the partition; one window, three writes (add, edit or delete, and one after) and two seconds with it |
| `discovery` | `Discovery.cfg`, `MCSessionDiscovery` | 390 000 | one session with two fields, one failed or partial scan or deletion, one restart or deletion of the channel, two queued events |
| `lifecycle` | `Lifecycle.cfg`, `MCSessionLifecycle` | 380 000 | a beat every tick, live below two ticks, dead from three: a beat missed, late or the last. `Timing`: one session and one prober. `Deleting`: two sessions and two tools, with a broker in time, up to the first deletion the property leaves out |
| `zoom` | `Zoom.cfg`, `MCZoomBridge` | 520 000 | a recording with two frames and a live session, one browser, two commands out of select, seek and pause, one refresh, rings of one frame: a command before, during and after a load, and a switch back |
| `thread_pairs` | `Pairs.cfg`, `MCThreadPairs` | 2 600 000 | ring of kv8scope: four slots, batches of three, nine samples: full, empty, two wraps. Ring of kv8zoom: four slots, seven frames, two switches. `kv8bench`: two samples by count and three by duration, one more than the bitmap holds, two faults. `kv8probe`: nine samples with numbers that wrap at six, three faults |

What they show:

* `session`: samples never precede their announcement (without faults);
  `_ctl` exists before the session is announced; objects never share a slot;
  every sequence number is with a thread, in the queue or in the topic; a command
  never names an unknown slot; when nothing is pending the flag is the last
  command; all calls return; the flag settles.
* `parts`: each of the racing first calls ends with one session per channel, one
  id per counter and the settings that were given (`FirstUseSettles`); a
  descriptor is written once, none of the entries is lost or repeated, and when
  all has been read no placeholder is left (`LogComplete`), entries are sorted by
  time, an entry has a placeholder exactly while its site is unknown; list and
  graphs agree after any inputs (`PlotFollowsTree`), the panels show every
  visible counter, and one alone in its panel in full (`PanelsShowAll`); the view
  is what was last asked for (`ViewAsAsked`) and a clicked row is reached
  (`RowClickSeen`).
* `scope`: updates are never lost and the two threads never run together
  (`HandedOver`), nothing read is missing from the graph except what a full ring
  dropped, what one thread has read is counted once and in order
  (`GraphAndCount`), a command given after the replay is what the checkbox shows,
  every reinitialisation completes and a closed window goes away
  (`StopsComplete`).
* `readers`: the scan misses nothing that was there when it began and returns no
  deleted session (`ScanExact`), and gives each feed the layout its session
  writes (`FeedsDecoded`); the window with the partition knows every deletion and
  every edit (`ChangesKnown`) and what it has shown as deleted does not come back
  (`DeletedStays`).
* `discovery`: with all events handled the list is what the manager knows; list
  and windows get all the fields in the end, and updates stop.
* `lifecycle`: a program at work is never held for gone by who has read its
  heartbeat (`StatusHonest`), one that ended is told right in the end
  (`StatusSettles`), and of a session that is over and hidden no topic stays but
  the heartbeat (`DeletionLeavesNothing`, which names the cases left out).
* `zoom`: a browser never shows anything of another session than the selected
  one (`ShownIsSelected`); a recording that stays selected is loaded to its end
  and paused there (`OfflineLoads`).
* `thread_pairs`: both rings implement `BoundedFifo`; no slot is overwritten
  while it is copied; everything is drained. The verdict of `kv8bench` is that of
  the topic, and its live count misses nothing that was stored when it was told
  to stop and not the warm-up message (`ReportsExact`); `kv8verify` passes exactly what is complete (or, without
  a manifest, continuous), and what it counts as missing, repeated or out of order
  is exact in both modes within the limits its property names (`ChecksExact`):
  every sample near its place in manifest mode, no step further than half the
  numbers in seqgap mode.

The types of `Kv8LogSession`, both rings, `LogStore`, `ScopeWindow` and
`SessionDiscovery` are proved. The other modules state them for the reader, or in
the invariant of their proof; they are not part of the runs.

Runs without deadlock checking are those whose system really may stop: no
further write, command, input or update has to come.

## 6. What the code does not do

Four runs end in a counterexample to a statement of the code:

* `session_scalar_limit`: "push_back never reallocates" (`kv8log_impl.cpp:599`)
  holds for UDT feeds only. `kv8log_register_counter` has no test of the id, so
  the 1025th scalar counter moves the vector under the hot path.
* `config_order`: "Command-line has priority over env." (`Runtime.cpp:121`); the
  environment is assigned afterwards and without a test.
* `folder_enable`: the callback "invoked whenever the user toggles the E
  (enabled) checkbox for a counter" (`CounterTree.h:127`) is not called by the
  checkbox of a folder.
* `scope_destroy`: "Stop the consumer thread before destroying ring buffers"
  (`ScopeWindow.cpp:196`). During a reinitialisation the running thread is
  `m_pOldConsumer`, which the destructor does not stop before the stores go.

Two more statements are contradicted by what the run `thread_pairs` checks and
`ThreadPairs_proofs` proves of every run of these programs:

* "Note: seq 0 was seen (warmup message, counted in recv but not in sent)"
  (`kv8bench.cpp:1861`). `NotesWarmup`, the condition of that line, holds whenever
  the first sample of a run with scalars was stored in time, so the note is printed
  by every normal run. The warm-up message has the number `UINT64_MAX` (`:1583`),
  which the bitmap has no room for; number 0 is the first sample, and the reset
  takes the warm-up message out of what was received (`:1423`): `LiveExact` says
  that what was received are the samples alone.
* "Messages must arrive in ascending index order" (`README.md:284`), "messages
  arrived out of order" (`kv8verify.cpp:158`). Manifest mode compares each index
  with the one before plus one (`:191`), so every hole that is followed by another
  sample is an ORDER ERROR, though the samples read are ascending: 0, 1, 3 has one.
  `LossExact` and `ManifestCounts` state the count the code makes.

Other places were met while modelling. There the property is stated for the
case the code handles, and its comment and the hazard in `PROJECT.json` say what
is left out.

*Registration and trace log.* A flush that times out voids the order of
announcement and samples (`RegistryFirst`). A call site whose descriptor the
full queue refuses is never registered again (`kv8log_impl.cpp:954`). The enable
checkbox of a UDT field sends an id that the process ignores. Programs of the
facade never call `kv8log_close`, so their sessions end as Offline, never as
Historical. `Configure` after the first use is not the "no-op" of
`Runtime.cpp:247`: channels opened later use it, and its strings are written
without a lock. `Flush` opens the default channel if it was not opened. The
channel given to `Configure`, `/KV8.channel` or `KV8_CHANNEL` has no effect:
`RuntimeChannel()` is called by nobody. A session that failed to open is not
tried again, and a log macro keeps the answer of its first call for good.

*Discovery.* A scan counts end-of-partition events, not partitions: one that
grows stands for one never read (`Kv8Consumer.cpp:742`; `ScanExact`). Types are
looked up by name over the whole channel; with two versions of an embedded type
one session is decoded with the layout of the other (`Kv8Consumer.cpp:1007`;
`FeedsDecoded`). `Restart` does not clear the field counts; after a restart whose
first scan is partial the missing fields are never shown
(`SessionManager.cpp:181`; `FieldsComplete`). A failed listing counts as a
reachable broker without channels (`SessionManager.cpp:301`). A row goes even if
the deletion of its session failed.

*Liveness and deletion.* The fallback to the data topics is taken also when the
heartbeat could not be read in time. `SessionManager.h:33` explains Historical by
a tombstone in the registry; the code sets it from the goodbye. The tombstones
`README.md:184` announces for every topic are deletions of topics, and
a program still at work makes its topics again (`auto.create.topics` in
`docker-compose.yml`). kv8scope marks first and then deletes the topics its first
scan knew: a kill or a failure in between, and a counter registered later, leave
topics that no list has. kv8maint deletes first and may be repeated.

*Scope window.* A reinitialisation feeds the whole session again: counts double,
old samples follow newer ones in the graph, and the log store is not attached to
the new thread (`GraphAndCount`, `LogRecordsShown`). An old `_ctl` record
replayed after a newer live one decides the checkbox (`LateCommandsApply`). An
annotation edited after its deletion comes back to a later window once the marker
is compacted; all kv8scope instances share one consumer group; two windows can
make the same annotation id in one second (`ChangesKnown`, `Add`). A note made
with [+ New] gets a time relative to the session where the others have an
absolute one (`ScopeWindow.cpp:1010`).

*List and view.* A counter that comes late is drawn in the mode of the toolbar
while its row says Range, its saved mode is not looked up, and the order made by
dragging is lost. A menu that is open meanwhile acts on whichever counter has its
place, or on none if the place is past the end. "Set Y range" does nothing to a panel whose composition stays. A panel
restored for its first counter may cut off the others (`PanelsShowAll`). The view
placed for the first data overrides an earlier navigation; with Sync and
Auto-resolve both on, two near warnings may select each other for ever
(`ViewAsAsked`).

*kv8zoom.* `GracefulShutdown` and `SeekShowsTarget` are stated in `ZoomBridge` and
do not hold: a `Stop` between the join of the Kafka thread and `ClearStop` loses
its request for the reader and `Run` joins a thread that goes on; one between
`Reset` and `CreateConsumer` calls a consumer that is not there. A seek while
paused empties the assembler, reads from the first record at or after the target
and takes what is not after it: the state at the target is lost unless a record
has exactly that time.

*Tools.* `kv8bench`: the reset that forgets the warm-up does not take back the
out-of-range count the sentinel may have raised (`kv8bench.cpp:1426`); a rate
below 1000 per second is no limit, so that a run by duration may send more than
its bitmap holds and fail although all is stored; "fully caught up" may come from
a count before the reset; a pre-flight count of -1, or of the partitions that
answered, passes for an empty topic. `kv8verify`: half the numbers lost in one
hole, and a gap after a sample out of order, are miscounted, and the seqgap mode
passes a topic without messages; in manifest mode a sample repeated anywhere
before a wrap of the numbers, or one overtaken at it, makes a sample at the wrap
be taken for another, so that the counts of that run say nothing beyond FAIL; the "RESULT OK" of `kv8probe` does not know of
later delivery failures.

## 7. Proofs

Everything here holds for every number of threads, sessions, counters, browsers,
slots, calls, samples, records and faults. Each module needs the assumptions its
component states about its constants, and no others unless they are named below.
In each the argument is the same: an invariant that is inductive, one lemma per
kind of step, and the property as its consequence. The invariant is the part
worth reading, because it says why the code is right. Each was checked by TLC on
the instance of the run before it was proved.

**`Kv8LogSession_proofs`.** The core invariant is
`CoreInv == TypeOK /\ LockInv /\ IdInv`. `TypeOK` alone is not inductive: that
the id pushed is the id peeked, hence a slot, needs that a thread between the
two holds `counters_mu` and nobody else does (`LockInv`), and that ids handed
out are below `next_id` (`IdInv`). `TypeCorrect` states all three. On top of it:

| theorem | by |
|---|---|
| `SlotsDistinct` | inductive relative to `CoreInv` |
| `SamplesAreDiscoverable` | `RegInv`: at every place between the registry record and the first sample the record is queued or stored, and stored once the flush has returned |
| `CtlTopicFirst` | `AnnounceInv`: the record that creates `._ctl` is queued before the first flush and stored after it, and whatever registers comes from a thread for which that flush has returned |
| `CommandsAreKnown` | `CmdInv`: the ids of commands are bounded in the outbound queue too, and in the frames of threads about to publish one |
| `FlagFollowsCtl` | `Agree(id)`: the flag is the last command read, or a command is on its way |
| `NoNumberLost` | `Accounted(id)`: the numbers in topic, queue and threads are those below the counter, and as many; the second half says that none is there twice. `RktInv`: a thread that has taken a number has a topic to send it to |

`SamplesAreDiscoverable` and `CtlTopicFirst` are about a session without flush
timeouts, `NoNumberLost` about one whose queue has room, as the properties are.

**`ThreadPairs_proofs`.** For both rings
`RingInv == TypeOK /\ WriterInv /\ ReaderInv` (and `ResetInv`) says which slots each
side may touch and that the reader's copy is what was written there; the lemmas
about `%` say that two numbers less than a turn apart have different slots. They
give `CopiesAreWhole` and the refinements `RingIsFifo` and `FixedRingIsFifo`:
initial states map to initial states of `BoundedFifo`, every step to a step or a
stutter. The fixed ring is cleared while it is in use, with two stores and no
lock. `ResetInv` says at which step of stop, join, clear, restart the other thread
may be where, and `ClearedAlone` states what it is for. The `static_assert` of the
code asks for a power of two; the proof does not need it. `PairsAssumption` in
`MCThreadPairs` has what these modules need, which are instantiated and not
extended there: two slots or more, bounds that are natural numbers, numbers that wrap at an
even number of at least four (65536 in the code).

`VerifierIsExact`: `SamplesOnly` says that topic and queue of `kv8probe` hold
samples of its range only. The rest is what the two folds of `kv8verify`,
`ManifestCheck` and `SeqCheck`, make of any such sequence: a lemma for each gives
the state after every prefix, by induction over its length. `IndexWindow` says
which indices a number stands for when so many have been received; while every
sample is in its window the manifest mode has no timer error and its missing,
duplicates and order errors are cardinalities of sets of the sequence
(`ManifestCounted`), and so are the three counts of the seqgap mode while no step
is further than half the numbers (`SeqCounted`). Beyond these limits the theorem
claims the verdict of the manifest mode and no count.

`BenchReportsExactly` is by
`BenchInv == BenchTypes /\ RunNumbers /\ ConsumerReads /\ ConsumerCounts`. What is
in a topic that was found empty are numbers of this run, each below what was sent
(`RunNumbers`). The consumer stops only when it is told, its bitmap has what it read,
and unless it gave up early it ends with no less than was there when it was told
(`ConsumerReads`). At the reset it had read the sentinel at least, and what it counts is
what it has read since (`ConsumerCounts`).

**`ScopeParts_proofs`.** Of the log store alone (`StoreSpec`): `StoreTypeCorrect`;
`EntriesTimeSorted`, since comparing the new entries from the last old one on is
enough if the old ones are sorted already; `PlaceholdersExact`; `EntriesOnce`,
since a drain only moves records and every order the sort may choose is a
permutation. `TraceLogUsesStore` shows that `TraceLog` implements `StoreSpec`: every step of
threads, topics and window is one of the store or leaves it alone. So the four
theorems hold of the system. About the system itself: `DescriptorsOnce`, by
`OnceInv`, in which a thread about to announce a site is the only one and the site
is in no topic; and `NoPlaceholderLeft`, by `SeenInv` (the site of a record is in
the seen set wherever the record is) and `KnownInv` (a site of the seen set is
written or about to be, and what was read of the descriptors is known). Its
hypothesis `[]DescriptorsFit`, that no thread about to announce a site meets a full
queue, is what the code needs: a refused descriptor is never written again
(section 6).

The other parts of kv8scope and the facade are proved as the run instantiates
them (`PartsSpec`):

| theorem | by |
|---|---|
| `PlotIsFollowed`, `PanelsAreFull` | `ListInv`: row and trace of a counter tell the same, and so do the saved modes once a window has been opened with them (`Twins`); a group for each hash, a row for each counter of it, none twice (`Grouped`); after each frame the first panels have the visible counters, an axis is set exactly where those have a range, an untouched range is the registered one, and an axis covers the untouched range of the first counter of its panel (`Drawn`), which has to hold of the panels that are not shown at the moment as well, since they come back |
| `ViewIsKept`, `RowStaysSeen` | `ViewInv`: a navigation under way goes to what was asked for, otherwise the view is what was asked for or centred on it (`Coherent`); a navigation does not wait in a live view that has graphs (`Unhurried`). Both are followed through the stages of a frame; `RowStays` does so for the clicked row |
| `FirstCallsSettle` | `FirstInv`: where each thread is inside the three call_once and who has which (`FirstTypes`, `Flags`), what a finished one left (`Answers`, `Sites1`), which settings it saw (`ConfigSet`, `OpenedWith`), and that the failures so far are the channels and counters refused (`CountOK`) |

`CanBeSorted` is a lemma worth reading on its own: every finite set has an
order by the numbers of its members, so that the choices of the model are never empty.
Assumptions: `ListAssumption` (finitely many counters, at most 256, ranges that
are natural numbers), `ViewAssumption` (times of records above 0, which stands for
none), `FacadeAssumption` (names differ, finitely many).

**`ScopeWindow_proofs`.** `ScopeTypeCorrect`; then

| theorem | by |
|---|---|
| `HandoverIsSafe` | `HandInv`: one of the two places is empty, the pending metadata is the newest while a reinitialisation is due, and the thread has the newest while none is |
| `ReadsAreShown` | inductive relative to the types: a frame moves the ring into the graph, a reinitialisation starts with nothing read |
| `GraphIsSorted` | `CountInv`: graph and ring together (`Line`) increase and end at or before the position of the thread, and the count is that position; `ReaderInv` and `PosInv` say which thread can have read a counter before the second update, so that the count does not start from what an earlier one left |
| `LastCommandStays` | `CommandInv`: when the whole topic has been read and nothing is on its way, the last event of the queue, or the checkbox if it is empty, is the last command |

**`SessionLifecycle_proofs`.** `StatusIsHonest` bounds the age a probe can see.
`BeatInv` follows a beat from the thread to the broker: each beat in the queue or in the
topic is followed by a younger one in time, or the thread has not slept its
interval yet (`Followed`); with a broker in time no record is in the queue longer than
`MaxDelay`. `ProbeInv` says that the record in the hands of a probe is at most as
old as the newest can be plus the time the probe has taken, which is why the clock has to
be read before the calls. `Interval + MaxDelay < LiveAge` and
`Interval + MaxDelay + ProbeTicks < QuickAge` are used here and hold for the
values of the code. `NothingIsLeft` is by `DeletionInv`: a session that is
hidden is either cleaned, or kv8scope is about to delete its topics
(`Cleaning`); a session kv8maint is about to mark it has cleaned (`Marking`); a
tool can only have chosen a session that has begun, and one that has ended writes
no more, since its heartbeat thread was joined (`WrittenInv`). The copy a tool
works on may be as old as it likes.

**`ZoomBridge_proofs`.** `ShownOfTheSelected` is by `BridgeInv`: rings, trail,
assembler and all views hold only frames of the active session; the reader, if
it runs, reads that one; and in the steps of a switch between joining the old
thread and starting the new one the rings are empty and no thread runs.

**`SessionDiscovery_proofs`.** `DiscoveryIsTyped`, and `ListMirrorsManager` by
`DiscoveryInv == DiscoveryTypes /\ Cycle /\ Clean /\ Coming`. `Coming` says, for each
session and for the connection, that what no frame has handled yet (the queue,
then the outbox of the thread) brings the list to what the manager knows: the last
event about a row says whether it is there, the last about its state says which, and
if there is none the list has it already. `Cycle` is what `Coming` needs of the
thread: all events are pushed before a cycle ends, and a state is kept for each known
session. `Clean`: nothing is shown while the manager stops, so that what it
forgets cannot be missed.

**`TopicReaders_proofs`.** Four theorems about two readers of a topic:

| theorem | by |
|---|---|
| `ScanIsExact` | `ScanInv`: what was in the registry when the scan began has its session record there too (`StartInv`), what was read is in the accumulators and nothing else (`ReadInv`), an end-of-partition event was at or after the end found at the beginning, and in a topic that does not grow there is one for a partition (`EofInv`), so that a scan that ends by counting has read enough (`OkInv`) |
| `FeedsAreDecoded` | `FeedInv`: in one partition the schemas of a feed precede it (`FeedRecords`), so that they are in the cache when the feed is (`FeedsRead`). Then the resolution: a schema of the feed that is resolved as written stays so, and without another version of one of its types an attempt to resolve it gives what was written or nothing; as long as the schemas of the feed are not all resolved a pass resolves one more, since each embeds only earlier ones; so as many passes as there are schemas are enough |
| `DeletedForGood` | what draining makes of an entry (`DrainResult`): nothing turns a deleted one back |
| `ChangesReachWindows` | a marker follows a change of the same annotation (`AnnFirst`); compaction leaves the last record (`GoneInv`); what the consumer of a window has been given is known, deleted or of the last version (`AnnSeen`, `DelSeen`, `VerSeen`), whatever else has been replayed or is waiting |

`RegistryAssumption`: schemas come embedded before embedding, and a program has one
struct of a name (`KV8_UDT_DEFINE`). `NotesAssumption`: the bounds are natural numbers.

**Findings.** Attempts that failed said something about the model. A menu may
keep a place past the end of the list, which the first version of `CounterList`
did not have. `WriterLayout` went one level of embedding deep, where the parser
flattens any; no instance that TLC can enumerate in reasonable time nests deeper than the
one of the run. A session registers a schema once for each feed field that embeds it, and
the theorem about feeds needs that two of one name in a program are the same, which
the compiler sees to.

**What stays with TLC.** All safety properties of the runs are proved, and both
refinements. Left are the liveness properties (`CallsReturn`, `EnabledSettles`,
`AllDrained`, `StopsComplete`, `LogRecordsShown`, `FieldsComplete`, `UpdatesEnd`,
`StatusSettles`, `OfflineLoads`), since the provers do not reason about ENABLED, which
fairness is defined by, and the four runs that end in a counterexample.

Folds are no obstacle when the operator they are taken of is known. A fold over a set or a
sequence is by definition a choice-driven recursion over subsets, of which one
step can be unfolded for a concrete operator; the history of such a recursion is
a function on the natural numbers, and induction for the set of its good indices
follows from `NatLessThanWellFounded` and `WFMin`, which have no operator as a
parameter (`IterationHistory`, `SumHistory` and their like). `SelectSeq` and `SortSeq`
could not be unfolded in this way; modules the proofs are about do not use them.

## 8. Not modelled

* Floating point and decoding: timers, latency statistics, `StatsEngine` beyond
  the count (that a reader may see a count without its sum is accepted by
  `StatsEngine.h:159`), UDT field offsets, attitude filter, path simplification,
  decimation, serialisation.
* Drawing, fonts, themes and dialogs. `ConfigStore::Save` writes its file in
  place; a crash while it does is not modelled. Custom ranges and colours are
  not saved at all, although `KV8SCOPE_USER_GUIDE.md:518` says so.
* WebSocket transport and the drawing of the page.
* The broker: a topic is a sequence, with order per partition, or its newest
  record. Replication, security settings and the librdkafka protocol are not
  here.
* The menus and listings of `kv8maint`, and the programs that only call the
  client libraries one after the other: `kv8bench_log`, `kv8cli`, `kv8feeder`.
* Tests.

## 9. Plan

What is left:

1. Abstract specifications: a session list that shows the live sessions of a
   registry, implemented by `SessionDiscovery`; a last-writer-wins map,
   implemented by `AnnotationSync` for records in order.
2. `SessionDiscovery` with the probes of `SessionLifecycle` in place of its
   arbitrary ones.
3. The liveness properties as theorems, once a prover for ENABLED is at hand.
