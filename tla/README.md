# A TLA+ verification of the Orbital LOS Viewer

This directory holds TLA+ modules that model the Orbital LOS Viewer (OLV), the
TLC configurations that check them on small instances, and TLAPS proofs of the
theorems that matter most, for every value of the constants. Paths such as
`src/state_store.cpp` are those of the repository; the files themselves say more
about each definition than this text does.

* [1. The system](#1-the-system)
* [2. Inventory](#2-inventory)
* [3. Modules and the code](#3-modules-and-the-code)
* [4. Runs, and what they show](#4-runs-and-what-they-show)
* [5. Bounds](#5-bounds)
* [6. Fairness](#6-fairness)
* [7. Proofs](#7-proofs)
* [8. Where the code and its documents differ](#8-where-the-code-and-its-documents-differ)
* [9. Abstractions](#9-abstractions)
* [10. Not modelled, and the plan](#10-not-modelled-and-the-plan)
* [11. Running it](#11-running-it)

## 1. The system

```
 olv_sim ---UDP (OLV1, OLV2 or DIS)---> olv_backend ---WebSocket JSON, 1 Hz---> browser
 frames, numbering,                     input thread --+                        net.js
 batches, PDUs                                         +-- StateStore           main.js
                                        io_context   --+   (one mutex)          model.js
                                        thread: tick, sessions                  renderer.js, ui.js
```

* The **simulator** turns each frame of its world into datagrams and sends
  them; it gets no answer. UDP may lose, repeat, delay, reorder or corrupt
  them.
* The **input thread** of the backend has an io_context of its own and handles
  one datagram at a time: it counts it, decodes it, reads the clocks, and
  applies it to the **StateStore**. Each call of the store locks its mutex;
  *between* the calls the other thread may run.
* The **io_context thread** runs the WebSocket broadcaster: a timer takes one
  snapshot per period and queues the frame on every session. Everything else on
  that thread is a completion handler of a session. A signal handler on the
  same thread stops both.
* The **browser** has one event loop. `createConnection()` keeps a socket and a
  reconnect timer; every event handler runs to completion, but events of a
  socket that was given up may still arrive.

The parts share no memory but the store, and no protocol has an
acknowledgement: what a viewer sees is right only if every part keeps the
newest state and never lets an older one replace it. That is why the abstract
specifications here (`LatestFeed`, `FrameFeed`) are about *in order, possibly
skipping, and the newest in the end*.

## 2. Inventory

| Component (source) | State | Operations | Hard because | Correct when |
|---|---|---|---|---|
| State store (`state_store.cpp`) | counters, last sequence number, satellite and its sample time, objects with stamps, accept times, pending trail points | `countReceived`, `countDropped`, `apply`, `applyTrack`, `snapshot` | two threads; clocks are read before the lock; wraparound; expiry at the boundary; a capped trail drained by the reader | counters balance; a snapshot is one state, exactly the unexpired objects, the exact rate; trail points are reported once |
| OLV1 input (`olv1_input_source.cpp`) | the datagram in hand | receive, decode, apply | reordered, repeated and lost datagrams; two or three critical sections per datagram | accepted in sending order; nothing newer dropped |
| OLV2 input (`olv2_input_source.cpp`) | newest sample time of each track | receive, staleness of the track, apply | batches of several tracks interleave; restarts; partial batches | per-track points ascend; the satellite is the newest sample; a track pays only for its own reordering |
| DIS input (`dis_input_source.cpp`) | last timestamp of each entity, satellite carried, synthesized sequence, owners of folded ids | header, filters, body, staleness, fold, apply | hour wraparound guessed from a gap; restarts look alike; ids collide; satellite republished by every packet | drops are justified; no jump back within the hour; the satellite is never lost; the owner named is the one shown |
| Broadcaster (`ws_server.cpp`) | registry, frame counter; per session outbox, `writing_`, `closed_`, warning flag | accept, read, write, tick, fail, stop | completions already queued when a session closes; a queue shed while its front is being written; slow clients; stop at any point | the buffer in flight survives; hello first, frames in order; newest kept; losses warned of; registry exact; closed sessions freed |
| Lifecycle (`main.cpp`, `input_source.cpp`, `logger.cpp`) | two threads, two mutexes, sockets, signal handler | parse, open, bind, start, signal, stop, join | several steps of the start may fail; the handler of the signal joins the other thread while datagrams keep coming | errors come before threads; a signal ends both threads and closes both sockets |
| JSON writer, parser of `net.js` | none | `buildStateMessage`, `parseState` | non-finite and out-of-range values | every frame written is accepted |
| Wire formats (`protocol*.hpp`) | none | encode, decode | lengths, order of the checks, width of fields | decode inverts encode and refuses the rest |
| Configuration (`config.cpp`, `toml.hpp`, `toml.js`) | merged options | defaults, file, command line, checks | two passes over the words, with the file between them; a check that must see the merged result | started with exactly what was said, or not at all |
| Simulator (`tools/simulator`) | frame counter, sequence, batch | chunking, batching, PDUs | partial last chunk or batch | every object of a frame sent once |
| Browser connection (`net.js`, `main.js`) | socket, timer, backoff, stopped | connect, close, setEndpoint, timer, socket events | late events of a dead socket; constructor that throws; races of user and timer | one thing pending; no leaked socket; status true; only the current server shown; reconnects |
| Browser model, panels (`model.js`, `ui.js`, `main.js`) | last message and its time; filter, selection, table, badge, form, stalled indication; endpoint asked for | message, status, select, filter, reconnect, tick | every fact is held by several parts that are told one by one | all parts show the same message, selection and view; silence is noticed |
| Renderer trails (`renderer.js`) | snapshot, settings, trails, derived buffers, selection | append, prune, rebuild, select, pick | two sources of samples, switched at run time; buffers rebuilt by hand | ascending, bounded, one source; buffers are current |
| Renderer frames (`renderer.js`, `textures.js`, `camera.js`, `sat_camera.js`) | GL bindings, uniforms, buffers and textures; sky and its epoch; camera and pointers | frame, resize, upload, image events, pointer events | state of the GL context that outlives a draw call; images that load late or never; things moved between frames | a draw finds what its shader reads; drawing, labels and picking agree; the sky keeps the server's time; an image that loads appears |
| Settings (`settings.js`, `site_config.js`) | layered settings | load, update, save, reset | three layers, a refused or foreign blob, an edited `config.toml`, copies in the listeners | copies agree; the user's choices survive a load |
| Build scripts (`scripts/`) | test stamp | build, test, package | stale stamp | only tested builds are packaged |

`PROJECT.json` lists all components, the ones not modelled too, and, under
`hazards`, every place where the code can go wrong in a way a test would hardly
reach, with the properties that would catch it.

## 3. Modules and the code

```
 StateStore <- Backend <- Olv1Backend <- MCOlv1Backend      LatestFeed (abstract)
                       <- Olv2Backend <- MCOlv2Backend        ^ Olv1Backend, Olv2Backend
                       <- DisBackend  <- MCDisBackend
 WsServer <- MCWsServer                                     FrameFeed (abstract) ^ WsServer
 Connection, StateMessage <- MCConnection
 DisBackend, StateMessage <- DisFrames <- MCDisFrames
 TrailRenderer <- Page <- MCPage
 TrailRenderer, Camera, Gl <- Scene <- MCScene
 Toml <- Config <- Lifecycle <- MCLifecycle
 BackendProofs <- Olv1Proofs, Olv2Proofs, DisProofs
 WsServer, Connection, StateMessage <- WebSocketProofs
 PageProofs,  SceneProofs,  LifecycleProofs
```

**`StateStore`** - the methods of `StateStore`, one operator each. All of them
hold `mutex_` for their whole body, so each is atomic; a variable per field, in
the source's order. `StaleSeq` is the signed 32-bit comparison of sequence
numbers with `Half` for 2^31.

**`Backend`** - what the input modes share: the clock, the broadcast timer, the
tick in two steps (`BeginTick` reads the clock, `TakeSnapshot` locks, copies,
broadcasts, and arms the timer), and the pieces of the input thread. `stamp` is
the clock value the input thread passes to `apply()`; it is read (`ReadClock`)
before the lock is taken, as the arguments of the call are, so a tick may fall
in between. Two history variables remember accepted updates.

**`Olv1Backend`** - sender, network and input thread in OLV1 mode. Datagram `n`
carries `(n - 1) % 2^32`; the network delivers any of the last `Lag` datagrams,
any number of times, intact or corrupted; nothing obliges it to deliver one.
`Receive`, `DropMalformed`, `Decoded` and `ApplyPacket` are the four pieces of
`handleDatagram()` between which the io_context thread may run.

**`Olv2Backend`** - the batching sender (`Olv2Batcher`, with the flush at the
end of a run and its loss at a signal), the network, and `processDatagram()`
with `last_t_`. A frame is named by its sample time; sample times go on
growing over restarts, being wall-clock seconds.

**`DisBackend`** - a sender of Entity State PDUs whose clock is the time of
the hour, the network, and `processDatagram()`. A received PDU carries a set of
defects (`short`, `version`, `exercise`, `type`, `body`), which are looked at in
the order of the code: header, filters, body. `Fold` is any map from entities
to object ids that is not injective.

**`WsServer`** - the registry and the sessions. A handler of the io_context is
one action. An asynchronous operation is started by a handler (`"pending"`),
completes in the transport with a result (`ok`, `err`), and only later has its
handler run; `closed_` may be set in between. `inflight` is the buffer
`async_write` was given: `InFlightPreserved` says that shedding the queue never
frees it.

**`Connection`** - `createConnection()`. Calls and handlers are actions;
`sock` holds the states of WebSocket objects, which outlive the reference to
them. `openSocket()` for an endpoint whose URL makes the constructor throw
takes the code's catch branch and schedules a reconnect.

**`TrailRenderer`** - the state that `createRenderer()` keeps between calls.
Samples of trails are times on the page's clock with a history flag that says
whether they came as trail points. `AppendTrails` is `appendTrails()`: points,
positions, prune; `Segments` and `Visible` are what the two rebuilding functions
put in the buffers.

**`Page`** - `main.js` and what it wires: the settings store, the model, the
panels and the renderer. An event handler runs to completion with every
listener it calls, so each is one action: `Replace` is `update()` or
`resetDefaults()` with `persist()` and both listeners, `OnState` tells the model, the renderer and the panels. Of the
connection it sees the endpoint it asked for, the status, and messages of that
endpoint while the status is open, which is what `Connection` establishes
(`ShownIsCurrent`, `StatusTruthful`). `Reload` starts the program again with what
`localStorage` and `config.toml` then hold.

**`Camera`** - `createCamera()` of `camera.js`: yaw, pitch and distance in a few
steps, what the pointer events make of them, and whether a press was a drag.

**`Gl`** - the GL context as the renderer uses it: for every shader program the
attributes, uniforms and samplers it declares, the uniforms that stay as they
were set, the textures bound to the units, and for each draw call of `frame()` what
it is issued with (`Issued`) and whether a fragment can be drawn from it. The
sphere and the graticule are counted vertex by vertex.

**`Scene`** - a renderer at work: messages, settings, pointer events, resizes,
the two Earth images, and `Frame`, which is the whole of `frame()` with the
active view, the calls in their order, the labels and body marks. It records
the `picture` last drawn. What projects, and what the Earth hides, depends on
the view and is a constant; `OneView` says that all who ask use one view.

**`Toml`**, **`Config`** - `parseToml()` over lines that say what stands on them
(the characters of scalars are taken one by one), and `applyConfigFile()` and
`parseArgs()` with both passes over the words.

**`Lifecycle`** - `main()`: the steps of the start in their order, each of
which may fail where the code may, the io_context thread and the input thread
with the mutexes of store and logger (a thread takes a mutex in one step and
releases it in a later one), the handler of the signal and the end. A
line below the log level does not touch the mutex. What a command line means is
stated once more without passes, over positions of words and lines
(`Meaning`), and compared.

**`StateMessage`**, **`DisFrames`** - a `Snapshot` printed as a state frame and
read by `parseStateMessage()`; and the frames of `DisBackend`, where nothing
bounds the numbers of a PDU.

**`LatestFeed`**, **`FrameFeed`** - the abstract specifications: one evolving
value shown to viewers, and numbered frames handed to clients that come and go.

The operators `X_variant` in front of some definitions are wrong on purpose:
each is what a plausible bug would make of the definition after it, and each is
used in no specification. They document which property notices that bug
(`mutants` in `PROJECT.json`).

## 4. Runs, and what they show

| Run | Module and configuration | Shows |
|---|---|---|
| `olv1` | `MCOlv1Backend` | every interleaving of the two threads over a lossy, repeating, reordering network and a wraparound: `StatsBalanced`, `PublishedIsOneState`, `SnapshotFresh`, `RateExact`, `AcceptInOrder`, `StaleJustified`, and `FeedLive`, the refinement of `LatestFeed` with its liveness: the newest accepted state is broadcast in the end |
| `olv2` | `MCOlv2Backend` | two tracks, one missing from every third frame, batches, restarts of the sender, loss: `TrailReported`, `SatelliteIsNewest`, `TrailEndsAtRow`, `StaleJustified`, `FeedLive` |
| `dis` | `MCDisBackend` | three entities, two with one id, a bad header, an unwanted PDU and a bad body, an hour and a half of timestamps, restarts, a wraparound of the synthesized number: `NeverStaleInStore`, `SatelliteCarried`, `FoldNamesOwner`, `StaleJustified`, `OrderWithinHour` |
| `ws` | `MCWsServer` | two clients with overflowing queues, failures and shutdown at any point: `InFlightPreserved`, `RegistryExact`, `HandedInOrder`, `QueueIsNewest`, `LossIsWarned`; `ClosedIsFreed`, and `FeedsLive` (refinement of `FrameFeed` with its liveness) |
| `conn` | `MCConnection` | all orders of user actions, timers and late events: `OneThingPending`, `OneLiveSocket`, `StatusTruthful`, `ShownIsCurrent`, `BackoffDoubles`, and `Reconnects`: left alone with a server that stays up, the connection opens |
| `page` | `MCPage` | settings, resets, loads with an edited `config.toml` or a refused `localStorage`, selections, filters and messages of an OLV2 and an OLV1 server in any order: `TrailsWellFed`, `SettingsAgree`, `PanelCurrent`, and `StaleNoticed`: silence is noticed |
| `scene` | `MCScene` | frames between messages, settings, pointer events, resizes and Earth images that load or fail in any order: `DrawsFed`, `OneView`, `SkyOnServerTime`, and `ImagesAppear`: an image that loads is drawn in the end |
| `startup` | `MCLifecycle` | 17,000 command lines with 32 files: `OnlySoundConfigRuns`; and `StopsClean`: from a signal on, both threads end although datagrams keep coming |
| `olv2_rows`, `dis_frames`, `page_trails`, `scene_atlas` | `MCOlv2Rows.cfg`, `MCDisFrames`, `MCPageTrails.cfg`, `MCSceneAtlas.cfg` | four statements of the documents and comments that the code does not keep, see section 8 |

Two algorithms without state are compared with a reference definition when a run
starts: `ScalarGrammar` of `MCLifecycle` says that the loop of `parseScalar()`
takes exactly `[+-]?digits` and `[+-]?digits.digits` for numbers, for all 9,331
tokens of up to five characters out of six; `ReadsAsWritten` of
`MCConnection` says that a state frame is read as the snapshot it was written
from, rounded, and rejected whole when one number in it is none.

Some things the passing runs establish that reading the code does not make
obvious:

* `SnapshotFresh` and `RateExact` hold although both threads read the clock
  *before* they lock, so that an update may be stamped later than the tick that
  then prunes it (the age is negative) and accept times may be in the future of
  the tick. The rate needs that only one thread stamps, since
  `accept_times_` is popped from its front only.
* OLV1 order needs that fewer than half the sequence space overtakes a
  datagram (`Lag \in 1 .. Half`); nothing newer is dropped unless half the space
  was lost in a row.
* In OLV2 mode the last trail point of a track agrees with the object row in
  the same broadcast even when the cap sheds points, because it sheds the
  oldest.
* In DIS mode the store's own sequence test is never the one that drops a PDU,
  also at the wraparound of the synthesized number, which the fourth PDU accepted
  reaches in the run.
* The blob in `localStorage` alone determines the settings of the next load: it
  always holds every setting, so nothing that `config.toml` comes to say later
  shows through it. That is so after a reset as well, which stores the defaults of
  its time rather than forgetting the user's choices.
* A trail once fed with trail points never goes back to positions, also when its
  object disappears and returns with rows only, until it is pruned.
* Which `--config` and flags win does not depend on their order, in every
  command line of four words; a `--config` counts even as the value of another
  flag or behind `--help`, since the first pass does not know the other flags.
* The handler of the signal joins the input thread from the io_context thread
  and cannot deadlock: it holds neither mutex while it waits, and the closing
  is queued behind at most one datagram.
* The upload of an image and each draw call leave bindings and uniforms behind;
  a frame is right only because it sets all of them again, for each program.
* A session's queue never frees the frame being written, and always ends in the
  newest broadcast; a lost frame is always covered by a warning of the current
  burst.

## 5. Bounds

* **Clock.** `MaxNow` stops the clock; the timer saturates at it, so ticks go on
  at the horizon and no behaviour ends because the bound was reached. `Expiry`,
  `RateWindow` and `Period` are 1: an age of 0, exactly the limit, and beyond it
  all occur within `MaxNow = 2`. The configurations that ask nothing about
  expiry have `MaxNow = 1`.
* **Sequence numbers.** `Half = 2` gives a space of four values, so that the
  fifth of six datagrams wraps; `Lag = 2 = Half` is the largest reordering the theorem
  allows. The numbers that DIS mode gives start at 1, so the fourth PDU accepted
  takes number 0. The proofs are for every `Half`.
* **Datagrams.** `MaxSent`, `MaxFrames` bound the sender, `MaxReceived` the
  deliveries; three deliveries are a datagram, one that overtakes it, and a
  repetition; the OLV1 run has a fourth, and so has the DIS run, for the wraparound.
  `Lag` in the OLV2 run covers two frames' worth of datagrams, in the DIS run the
  first frame and two more, or five times of the satellite alone. Every exception
  of the DIS properties occurs: a PDU let through from half an hour before, from
  another hour, with a zero timestamp or from the run before a restart, and a
  drop after long silence or after a restart.
* **View.** The DIS run compares states by `DisView`, which leaves out what is
  written and never read by a guard, by a variable compared or by one of the
  run's properties: the broadcast, the rate's statistics, the data clock and
  the histories of accepts of `Backend`. The other runs compare whole states.
* **Trail.** `MaxTrail = 3` is exceeded by two batches of two.
* **Timestamps.** `TsHalf = 2` makes an hour four ticks; the frames reach an hour
  and a half, with restarts anywhere.
* **Queues.** `MaxQueued = 2` is the smallest limit that protects a front and
  still sheds; three ticks overflow it. The proofs are for every limit of
  at least two and any number of clients.
* **Sockets.** Three sockets: the current one and two whose close events are
  late; a socket object is used again when its close event was handled.
  `backoffIndex` saturates where the delay does, `parseErrorCount` at
  `MaxErrors`.
* **Page.** Two hosts, two ids, one of them also the satellite's; a cap of two
  positions and three points, exceeded by two messages of two points; a table of
  one row, so that rows and total differ. Messages and loads end when the clock
  reads `LastFrame = 2`; it goes on to 4, long enough for silence to exceed
  `StaleAfter = 1`. Two actions of the user
  are enough for each pair of a change and what it may race (a refused write and a
  load, an edited `config.toml` and a reset, a switch of server and a filter).
* **Scene.** Two rows at most (`MAX_OBJECTS`) of three ids, so that one is left
  out; a satellite over the pole, one at the origin, none; two messages, two
  actions of the user, two images. The counts of the sphere are those of the code
  (`Stacks = 64`, `Slices = 96`).
* **Startup.** All command lines of up to four of seven words - long enough for
  a file and a flag that contradicts it, or a flag given twice - with each of 32
  files (10 good, one of them named `--config`, and 22 bad in one way each) and a
  missing one in every place of a file, and some lines for each other flag. `Wide`
  has digits enough for a port out of range; doubles are hundredths below a
  thousand, so that 60.001 rounds to the highest rate and 0.001 underflows.
* The runs disable the deadlock check because a bounded sender, network and
  clock do come to rest, and a process ends.

## 6. Fairness

Fairness is assumed only of what the program's own scheduling and the
operating system give:

* the input thread goes on with the datagram in hand (`Handle`), the io_context
  thread runs expired timers and queued handlers, and time passes. Nothing is
  assumed of sender or network: no datagram need be sent or arrive;
* for the broadcaster, a completion that is queued has its handler run, a read
  of a closed socket or of a peer that left completes with an error, and a
  transport takes a frame or fails in the end. A peer that stalls for ever with
  its window closed is excluded by that last one: the code relies on Beast's
  suggested timeouts for it;
* for the browser, the event loop fires due timers and delivers the events of
  every socket, and an attempt is answered or fails; for the page, time passes
  and the one-second interval timer fires.

* for frames, `ImagesAppear` assumes that frames go on: each `frame()` asks for
  the next one, and the browser grants it;
* for the process, `StopsClean` assumes strong fairness of each thread and of the
  signal's handler: an io_context runs its handlers in the order in which they
  became ready, so neither ticks nor clients keep the handler from its turn, and a
  thread that waits for a mutex gets it when it is released again and again.
  `std::mutex` promises no order, but the input thread pauses between two lines for
  a whole datagram. Nothing is assumed of the start.

All others are weak fairness. `Reconnects` further assumes, in the property itself, that
from some time on the user leaves the connection alone and the server stays up.

## 7. Proofs

Eight modules hold theorems; every leaf is checked by TLAPS. Together they state
every safety property that a passing run checks, for every value of the constants. In each, the theorem follows from an inductive
invariant whose parts stand in the component's module, among its properties or
after them (for `Lifecycle`, in the proof module), and which TLC checked on the runs'
instances before it was proved. `ReadBack` is about operators and needs none.

* **`BackendProofs`** - lemmas about the store's operators for all modes:
  subtraction modulo the sequence space, what `NotNewer` says about indices,
  what `Unexpired` and `LiveTimes` return, and that the pieces every mode is
  built from preserve `FreshInv` and `RateInv`.
* **`Olv1Proofs`** - `TypeCorrect`, `Balanced`, `Freshness`, `Rate`, `InOrder`,
  `Justified`, `OneState`, `FeedRefinement`: every safety property of the OLV1
  run, the safety part of `LatestFeed` included, for every expiry, window, period, sequence space,
  reordering bound up to half of it, and contents of datagrams.
  None is inductive alone. *Freshness* rests on `FreshInv`: an id in the store
  bears the stamp of its last accepted update, and an id missing from it was
  last touched too long before the last tick; ticks only get later, so pruning
  is never regretted. *Rate* rests on `RateInv`: the accept times are the log
  of accepts less a prefix that is out of the window, and the log ascends.
  *InOrder*, *Justified*, *OneState* and the refinement rest on `OrderInv`: the
  store's last number is that of the newest datagram accepted, and the datagram
  in hand is fewer than `Lag` behind it, so that the wraparound test decides
  exactly as the true indices would.
* **`Olv2Proofs`** - `TypeCorrect`, `Reported`, `NewestSatellite`, `EndsAtRow`,
  `Justified`, `Freshness`, `Rate`, `FeedRefinement`, for every set of tracks,
  every frame's choice of them, batch size, trail cap and bound on reordering. The
  core is `DataInv`, in the order of its conjuncts: what a sender puts on the wire
  ascends track by track, also over restarts and with batches left unfinished
  (`SentInOrder`); `last_t_` is the newest sample of the last datagram accepted
  (`Known`); the samples applied since then end with it (`AppliedInv`), so do the
  rows (`RowsInv`). `TrailEndsAtRow` then holds when a tick drains the trail: what
  the cap sheds are the oldest, and the last sample of a track is among the newest
  however many there are. The satellite is compared with its own time only, never with the
  tracks': that it is the newest of all follows as each batch accepted offers its newest
  sample (`SatelliteInv`).
* **`DisProofs`** - `TypeCorrect`, `Synthesized` (`NeverStaleInStore`),
  `SatelliteKept`, `FoldOwner`, `Justified`, `WithinHour`, `Freshness`, `Rate`, for
  any entities, any folding of them into ids, any hour, restarts and loss. The
  synthesized number is one more than the store's last when a PDU is applied
  (`Numbered`), which the signed comparison takes for newer whenever the space
  has more than two numbers; that is where `Half > 1` is needed. A claim of a folded
  id made for the PDU in hand is not yet in the store (`Claimed`): between the two
  steps `FoldNamesOwner` would be false. `Justified` and `WithinHour` are
  arithmetic about the remainder of two times (`HourGap`, `SameHour`): a gap below
  half an hour is the difference of the timestamps, whichever hour they are of.
* **`WebSocketProofs`**, the two ends of the WebSocket and the frame between them. The server: `TypeCorrect`, `BufferPreserved`, `Registry`, `InOrder`,
  `Newest`, `Warned`, `FeedRefinement` for any number of clients and any queue limit of at least two, by
  `SessionInv`: of each session, that it is registered exactly while open
  (`Owned`), that a write in flight is of the front and open sessions with
  frames are writing (`Writes`), and that what was handed over and what is
  queued form one increasing line starting with hello (`Ordered`). `Newest` and
  `Warned` add `BacklogInv`: a queue ends with the newest frame and is consecutive
  behind its front, and throughout while no warning was given. The run's limit of
  two leaves the consecutive part little to say; the theorem is for every limit.
  `FeedRefinement` is the safety part of `FrameFeed`, step by step.
  The browser: `ConnectionTypes`, `NeverStuck`, `NoLeak`, `Truthful`, `OnlyCurrent`,
  for any sockets and endpoints, by the conjunction `LinkInv` of the properties themselves, which are inductive only together: that no timer
  runs while a socket is pending is what keeps `TimerFires` from leaking one.
  `Doubles`, an action property, rests on `BackoffInv`: the last delay is that of
  the index before the current one.
  The frame: `ReadBack` says, for any number of rows and any doubles, that
  `parseStateMessage()` returns what `buildStateMessage()` was given, rounded,
  unless one double is printed as no number, when the whole frame is refused. It
  follows row by row from what stands at each of the eleven positions of a row
  and the five of a trail point (`RowRead`, `PointRead`). Its one hypothesis,
  `ToldApart`, is what JSON tells apart: null, numbers, `nan`, a missing key and an
  Error are not each other.
* **`PageProofs`** - `Agreement`, `Panels`, `Trails`, for any hosts, messages,
  stored blobs, `config.toml` files and changes of the user. `Agreement` is an
  invariant only because the settings are valid wherever they are kept
  (`CopiesInv`), so that a load of what was saved changes nothing, whatever the
  site's defaults have become. `Trails` needs that no position is later than the
  clock, though trail points may be (`Ordered`): that is why the snapshot's
  position can be appended to a trail without points.
* **`SceneProofs`** - `DrawsRight`, `SameView`, `Sky`, for any messages, settings,
  images, clocks, and whatever the Earth hides or has a projection. By `FeedInv` the
  buffers hold what the renderer's state says, but that a buffer of which nothing
  is drawn keeps what it had; `ContextInv` says that whatever an upload or a
  frame leaves in the context, each unit can be bound anew and each program be
  given a view; `ClockInv`, that the epoch is that of the last message with a time.
  `PictureInv` ties a picture to the state it is shown with: an event between two
  frames would invalidate it, and every one is followed by another frame. On the
  way it is shown that the sphere's indices are exactly its vertices, for every
  tessellation of at most 2^16 vertices (`SphereClosed`), that `potSizeFor()` keeps
  a 2:1 image 2:1 (`SizeFits`), and which calls `frame()` makes after the Earth
  (`CallsLead`).

* **`LifecycleProofs`** - `SoundConfig` (`OnlySoundConfigRuns`) and `CleanEnd`, for
  every command line and every set of files. `Meaning` says what a command line means
  by positions (the last flag on a field, the line of a key under the nearest header,
  `--config` wherever it stands); the code gets there word by word and line by line.
  Each loop has an invariant over the prefix it has seen, which is the
  induction hypothesis: pass 1 holds the path behind the only `--config` position
  (`ConfigFound`); the reader of TOML holds the table of the nearest header and
  one value for each pair so far, and fails exactly at a line that is not good or a
  key given twice (`TomlRead`, `FileApplied`); pass 2 holds for every field the value
  of its last flag, stops at the first `--help`, and refuses every flag without a value but
  `--config` (`FlagsApplied`). `ArgsParsed` puts
  them together: `parseArgs()` refuses exactly what is not good, and returns
  `Meaning`. The inductive invariant of the process is `StartInv`:
  `OnlySoundConfigRuns` with what is open and which thread runs in each phase of the
  start (`Phases`), without which an error behind the bound sockets could not be told
  from one before. `CleanEnd` is the safe half of `StopsClean`: the input thread is
  joined while the main thread holds no mutex, and exit code 0 after a run means
  both sockets closed, the thread done, both mutexes free. It rests on `Locks` (which step
  holds which mutex; a line below the log level takes none, so the level is part of it)
  and `Closing`. TLC checked these invariants and `EndsInOrder` on the instance of `startup`,
  but for `argv \in Argvs`, which it enumerates.

The assumptions on constants are named in the module that declares them and hold
in every configuration. Those a reader may want to judge:

* `Lag \in 1 .. Half` (OLV1): fewer than half of the sequence space overtake a
  datagram. `Half > 1` (DIS): the space has more than two numbers; it has 2^32.
* `DisAssumption`: a frame has at least one PDU. `buildDisPdus()` puts the
  satellite first in every frame.
* `Olv2Assumption`: finitely many tracks; their ids have 32 bits.
* `MaxQueued >= 2`: `kMaxQueuedFrames` is 5.
* `PageAssumption`: messages are what `parseStateMessage()` returns; a stored blob, a
  site file and a change may hold any values, which stand there as `Number()`
  and `Boolean()` convert them (`Patch`).
* `ConfigAssumption`: a file is a sequence of blank lines, headers and pairs, and no file
  has the empty name; `None` is neither a string nor a number (`None # "--config"`
  and `LifecycleAssumption`'s `None \notin {"main", "input"}` follow, but the provers
  do not know that a literal is in STRING). `LifecycleAssumption` also says
  that the words of a command line are strings.
* `GlAssumption`: the sphere has at most 2^16 vertices, as a `Uint16Array` of
  indices demands; 65 times 97 are 6,305.
* `SceneAssumption`: a message has finitely many objects; a message with a time
  comes at most `MaxDelay` late; `MAX_TEXTURE_SIZE` is not 1, in which no 2:1
  image fits. WebGL guarantees 64.

Recursion. `AddPoints` of `TrailRenderer`, the two passes of `parseArgs()` (`FindConfig`,
`ApplyFlags`), `ParseToml` and the positions of flags are recursive functions over a
sequence. The induction theorems of the library take an operator as a parameter, so
the lemmas about them are proved by least counterexample, for a set of positions
instead of a predicate: `PointByPoint` for the points of a message, `Upwards` for
words and lines, over which `ScanWordByWord`, `TakeWordByWord`, `ReadLineByLine`,
`FlagsFollow` and `ConfigsFollow` state that each function satisfies its equation.
No module declares a RECURSIVE operator.

Only model-checked:

* all liveness (the liveness halves of `FeedLive` and `FeedsLive`,
  `ClosedIsFreed`, `Reconnects`, `StaleNoticed`, `ImagesAppear`, `StopsClean`):
  fairness and ENABLED are out of this prover's reach. The safety halves of the two
  refinements are `FeedRefinement`, that of `StopsClean` is `CleanEnd`;
* the four disagreements of section 8, which are refuted, and the two algorithms
  of section 4 that are compared when a run starts.

The type invariants of the modules with proofs are proved and not checked again by
a run.

## 8. Where the code and its documents differ

Each of these is a run whose one property is the document's sentence; TLC finds
a behaviour of the code that breaks it.

* `olv2_rows`: `docs/PROTOCOL_WS.md:87` says a trail point's id matches an object
  row; `snapshot()` prunes expired objects but drains the pending trail whole,
  so with a period longer than the expiry a frame has points without a row.
* `dis_frames`: `json_writer.cpp:15-16` says that its numbers are bounded by
  validation. OLV1 and OLV2 see to that, but a DIS PDU's location and velocity are
  copied as they are; a NaN or an infinity is printed as `nan` or `inf`, and
  every browser rejects the whole frame, and all that follow, until the object
  expires or the satellite sends again. This one is a bug.
* `page_trails`: `docs/features/FEATURE_OLV2.md:279-282` says the trail of an id
  that received trail points is fed only from them; a trail that began with a
  position, because its object was first seen in a message without points of it,
  goes on being fed positions while the points that come are not newer than the
  position before (`renderer.js:952` skips such a point before `server` is set).
* `scene_atlas`: `renderer.js:669-671` says that the scale of the sprite atlas is 1
  or 2; on a page zoomed out so far that `devicePixelRatio` is below one half it is
  0, and there are no sprites.

Five more differences were met that no run states:
`docs/PROTOCOL_DIS.md:158` calls *received = accepted + malformed + stale* exact,
but a broadcast between the two critical sections of a datagram
publishes received one higher (`StatsBalanced` allows for the datagram in hand);
`dis_input_source.cpp:243` speaks of one warning per colliding pair, but while
both entities send each alternation warns; `docs/PROTOCOL_WS.md:50` says the
satellite's `seq` is that of the packet that provided it, but in DIS mode it is
that of the last PDU of any entity; `config.hpp:59-62` calls the range
rules of file and flags identical, but only the file refuses an empty log file;
and `config.cpp:235` says that pass 1 has validated the value of the `--config` it
skips, but after `--log-file --config --config` the last word is to pass 1 the path
and to pass 2 a flag without a value, which it lets pass. With a file of that name
the program starts, and `Config` and `Meaning` say so too.

## 9. Abstractions

* Positions, velocities, types, flags and confidence are named by the datagram,
  frame or PDU they came in. No property needs more, and it makes "which one is
  shown" visible.
* A datagram is intact or not (OLV1, OLV2), or has defects (DIS). Duplicate
  object ids within one datagram are left out: the last row wins, as in the map.
* The wall clock and the steady clock are one value per datagram: they are read
  together, and `last_data_time_` is only copied.
* `docs/PROTOCOL_WS.md:91-92` promises every sample applied since the last
  broadcast; the store keeps at most `kMaxPendingTrailPoints`. `TrailReported`
  states what is kept beyond the cap: exactly the newest.
* `bytes_received`, logging of drops, the warning about a change of satellite
  id, and the estimate of the satellite's velocity in OLV2 mode change nothing
  that the properties are about and are left out.
* `WsServer` numbers frames by the tick; their contents are `published` of
  `Backend`. The two meet in `TakeSnapshot`/`BroadcastTick`; their composition
  is planned.
* `OrderWithinHour` lets a PDU of the same frame through behind a later one: the
  PDUs of a frame have one timestamp, so the code cannot tell them apart.
* A draw call of `Scene` that has nothing to draw is left out (`Draw`), as the
  helpers return early, but for the Earth's.
* The broadcaster's `closed_` session may be destroyed when its operations are
  done; the model keeps it, closed and with nothing outstanding (`ClosedIsFreed`).
* Vectors, matrices and what shaders compute are not modelled; a view is its
  eye, up vector and projection, and geometry answers questions about it as
  constants. Vertex counts, attribute sizes, strides of indices and texture sizes
  are exact, since that is what a draw call can get wrong.
* A TOML line says what stands on it: blank, header, pair; its spaces, comments
  and escapes are not taken character by character. A word of the command line is
  a string. What `from_chars()`, `strtod()` and `Number()` make of digits with a
  point is a constant: the double they round to, or none.
* The two threads of `Lifecycle` take mutexes as the OLV1 source does; the
  other sources take the same ones, with more lines.
* In `Page`, `host` and `port` are one setting, as every use of them is of both.
  `showLabels` and `showSky` go the way of `showTrails` and are left out, as is what
  `Scene` models (sky, epoch, labels, draw calls), segments too short to be drawn, and a renderer that cannot be created (the page then
  stops). The clock is not set back by a load: only differences of it are used.
* A message always has a readable `serverTime`, as the JSON writer gives it one.
* `main.js` never calls `close()` of a connection; the model includes it, since
  it is in the interface `createConnection()` returns.

## 10. Not modelled, and the plan

Done: 1. `StateStore`, `Backend`, `Olv1Backend` with `LatestFeed`, proved;
2. `WsServer` with `FrameFeed`, proved; 3. `Olv2Backend`; 4. `DisBackend`;
5. `Connection`, proved; 6. `TrailRenderer` and `Page`; 7. `Camera`, `Gl` and
`Scene`; 8. `Toml`, `Config` and `Lifecycle`; 9. `StateMessage` and `DisFrames`;
10. `Olv2Proofs`, `DisProofs`, `QueueIsNewest` and `LossIsWarned`; 11. `PageProofs`
and `BackoffDoubles`; 12. `SceneProofs`; 13. `LifecycleProofs` and `ReadBack`.

Next:

14. `WsServer` over `Backend`: the frame a tick queues is the snapshot it took.

Not modelled, and why:

* **Wire formats**: straight-line reading and writing of fixed layouts; the
  property that matters (decode inverts encode and refuses the rest) is about
  bytes, not about steps.
* **A restarted OLV1 sender**, which is dropped as stale until it passes its old
  numbers, and **an OLV2 sample time far in the future**, which blocks its track:
  the code does that by design and keeps no promise about it.
* **The simulator's** CSV reader, orbit generator and configuration, and the
  **build scripts**: no shared state with the running system.
* **`docs/PROTOCOL_WS.md:106-108`** asks to show a connection as stalled when no
  state arrives for three seconds; `tick()` of `ui.js` does so only after
  the first state. `StaleNoticed` is stated from then on.

Not planned: the formulas of geometry, sky, stars and sprites (`atlas.js`,
`math3.js`, `sky.js`, `star_catalog.js`, `sun.js`), which keep no state; the text
of log lines, containers and documents, with the pages of the manual
(`docs/site`).

## 11. Running it

```
tlc -workers 2 -config MCOlv1Backend.cfg MCOlv1Backend     # any row of section 4
tlapm Olv1Proofs.tla                                       # any module of section 7
```

`PROJECT.json` names for every run its module, configuration and properties, and
for every definition that models code the lines it stands for.
