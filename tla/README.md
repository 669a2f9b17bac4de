# TLA+ verification of the integrated backend

This directory holds TLA+ specifications of the parts of the repository whose
correctness depends on order: who holds which state when messages, tasks and
failures interleave. TLC checks them on small instances; TLAPS proves their safety
properties for every value of the constants.

## Inventory

The system shows a live camera with inference results, and positions of buses.

| Component | State it keeps | Operations | Where it is hard |
| --- | --- | --- | --- |
| **Media relay: feed** (`yolofeed.go`) | backlog of access units, byte count, epoch, next sequence number, `seenIDR`, `sourceEnded`, `endSent` | `Publish`, `End`, `acknowledge`, `resetLocked`, `serve` with its handshake, tick and commands | `serve` takes the mutex many times per turn; the source resets between; acknowledgements outlive epochs and connections |
| **Media relay: broadcaster, signaling** | the one publisher, its reader goroutine | `SetPublisher`, `RemovePublisher`, `readPublisher`, liveness notifications | effects after the unlock; notifications from unordered goroutines |
| **Vision: receiver and worker** (`yolo.py`) | inference queue, queued and completed sequence numbers, results, fault, tracker epoch | `_decode_session`, `_queue_decoded_frame`, `_enqueue_inference_frame`, `yolo_worker` | inference in a thread while epochs change; bounded queue; retries; rewinds |
| **Vision: playback** (`playback.py`, `state.py`) | viewer slot, results, newest acknowledgement, resync generation; per connection position and window | websocket handler and control task | two tasks per connection over shared flags; waiting on one condition with different exits |
| **Vision: browser player** (`index.html`) | position, known frames, decoder, session | connect, reconnect, paint, jump, stop | plays on while disconnected |
| **Vision: liveness** (`internal.py`) | `android_live` | pushed by the relay, pulled at start-up | stale answers |
| **Vision: monocular, metrics** | QR resolver, timeline | pure computations | boundaries of lookups |
| **Routing: hybrid bus** (`hybrid_bus.py`, `telemetry.py`) | per bus its newest fix and how it is shown: live, interpolated, reconciling, hidden; the snapshot | `_accept_payload`, `_emit`, `snapshot` | what is shown is not always what was observed |
| **Routing: route search** (`graph_backend.py`) | road graph, cache | A* with turn restrictions | search over nodes with restrictions on edges |
| **Node: tracking, vehicles, server** (`node/src`) | the vehicle and position tables; a duplicate filter in memory | polls that create vehicles and store positions; edits of vehicles; shutdown | overlapping polls, unawaited insertions, partial failure, restarts, rows edited under the poll |
| **Node: auth, bootstrap** | none (tokens are signed, not stored) | login, check | - |
| **Android publisher** | WebRTC connection | publish, reconnect | reconnection races |

The media path is the core. The Android publisher sends H.264 to the relay, which
retains whole access units and serves them over a unix socket to the vision
service. That decodes and infers them and offers the results on a websocket to one
browser, which paints them and acknowledges what it painted. The acknowledgement
goes back through the vision service to the relay and frees the unit there. Any
break of continuity starts a new *epoch*, a number the relay owns and everyone
compares. What makes the path correct:

- relay: whoever decodes a connection's units gets a keyframe first and nothing is
  left out; what no viewer has seen is freed only by a new epoch;
- pipeline: every decoded frame gets one result, in its own epoch and in order;
- playback: the viewer sees one epoch after the other, in order, keeps the slot
  while connected, and catches up.

Beside it, routing-tracking shows where the buses are, from live fixes or, in an
outage, from recorded traces. The Node service polls it for its dashboards, finds or
creates a vehicle for every bus, and stores each new observation. What makes this
path correct: the filter in memory never hides an observation that is not stored, an
observation is stored once, and the newest one always gets there.

`PROJECT.json` lists all components with their status, and under `hazards` where
this code is hard to test, line by line, with the properties that cover it.

## Modules

| Module | Models | How it corresponds |
| --- | --- | --- |
| `YoloFeed` | `yolofeed.go` with its client, the part of `yolo.py` that reads and writes the socket | `feed` is the Feed struct and its methods are functions of it (`ResetLocked`, `Acknowledge`, `FinishAccessUnit`, ...). `conn` holds the locals of `serve()` and where it stands; each stretch that holds the mutex is one action, so the source may act between any two of them. `wire` is the socket towards Python, `py` what Python knows, `cmds` the commands on their way back. |
| `Delivery` | - | what the feed promises, as a plain store: epochs of numbered units, kept until delivered, delivered in order. `YoloFeed` implements it; see below. |
| `YoloFeedProofs`, `YoloFeedDelivery`, `YoloFeedBytes` | - | theorems about `YoloFeed`: its struct and one connection; what it delivers over all connections, with the refinement of `Delivery`; its byte counter |
| `PublishersProofs`, `VisionPipelineProofs`, `PlaybackProofs`, `TrackingProofs` | - | theorems about `Publishers`, `VisionPipeline`, `Playback`, and about `Tracking` together with `HybridBus` |
| `Publishers` | `broadcaster.go`, `signaling/handlers.go`, the notifications of the relay's `main.go`, `internal.py` and the END case of `yolo.py` | `publisher` is the pointer under the mutex. `peer[p]` is one connection with its goroutines: how far its `SetPublisher` has come, its reader, whether its removal has still to `End()` the feed and report. `reports` are the calls of `onLive` in flight, `sync` the query at start-up, `endMsg` an END on the socket. |
| `HybridBus` | `hybrid_bus.py`, `telemetry.py` | `bus[v]` is the BusState of a bus, `snapshot` what `_emit` published last. A place is reduced to whether it is the one the fix reported. |
| `Tracking` | `tracking.service.ts`, `tracking.persistence.ts`, `tracking.client.ts`, the vehicle module, `server.ts`, the two tables of `schema.prisma` | extends `HybridBus`, whose snapshot its requests fetch. `req[r]` is a call of `getVehicles()`, with each bus's upsert at its own place; `batch[s]` one `Promise.all` of insertions; `stray` upserts whose request was already answered; `lastPersisted` the Map. Tables survive a restart, the rest does not. |
| `VisionPipeline` | receiver, queue and worker of `yolo.py` | `state` and `queue` are the parts of AppState the pipeline uses; `worker` is the coroutine's place and its frame. Every stretch between two awaits is one action. The end of an inference is an action of its own, so anything can happen during one. |
| `Playback` | `playback.py`, `state.py`, the player in `index.html` | `h[s]` is the handler of connection `s` and its control task, at one of their awaits; `app` is AppState; `up` and `down` are the two directions of a websocket; `tab` is the player, with the frames it knows and the one its decoder has. `painted` and `skipped` only record what became of this epoch's frames. `Look`, `PassWindow` and `Loop` are the stretches of the handler's loop between its awaits. The pipeline and the relay are its environment (`Publish`, `InferenceFault`, `Reset`). |
| `MCPlayback` | - | `Playback` with the symmetry of its connections |

`PROJECT.json` maps each definition to the lines it models. A definition whose
comment begins with "Mutant" is a plausible bug, used only to show that a property
can fail: it takes the place of the definition after it, or after its sisters.

Abstractions. Payloads and pictures are their numbers. In `YoloFeed` a unit has a
size of one of two values and is, or is not, a keyframe; units are evenly paced, so
a time span is a difference of sequence numbers; packets are assembled elsewhere. A
websocket or a socket that breaks loses what was not read. In `Playback` a tab's
decoder exists or not and has one frame or none, and painting that frame is one step. The limit on bytes
in the send window is left out beside the limit on frames: both are compared in
one condition and released by the same entries.

In `Publishers` packets count only as what the first of them does to an ended feed and
as whose packet number the feed remembers; whether a number of another connection is
ahead (the feed is reset) or behind (the packet is dropped) is left open.
In `Tracking` a vehicle row is its id and its two unique keys, a position row its
bus, vehicle, time, label and whether its place is the reported one. The upsert
selects relations, so Prisma runs it as a query and a write, and unique keys and the
foreign key are checked at the write. A fetch that times out leaves nothing behind
and is no step. From SIGTERM until the last request has ended the server behaves as
before, as connections that carry requests stay open; `Stop` is the end of that
phase.

### The feed implements Delivery

The last definitions of `YoloFeed` instantiate `Delivery` with the mapping

| `Delivery` | `YoloFeed` |
| --- | --- |
| `epoch` | `feed.epoch` |
| `first` | the oldest unit kept, `Oldest(feed)` (the next number, if none) |
| `next` | `feed.nextSeq` |
| `seen` | `seen`, the newest unit any decoder was given |

and `Delivers` says that each step of the feed, of `serve()` and of the client is a
step of the plain store or invisible in it. A handshake, a rewind, a repeated unit,
an END or a crash of the client is invisible. An acknowledgement that frees units is
`Free`; a reset is `NewEpoch`, whatever its reason, together with the keyframe that
may come with the packet that caused it.

## Runs

| Run | Properties | What it shows |
| --- | --- | --- |
| `YoloFeed` | `TypeOK`, `BacklogContiguous`, `BytesExact`, `StreamDecodable`, `NoSilentJump`, `EndAfterAll`, `OnlySeenIsFreed`, `EventuallyDelivered`, `Delivers` | the feed's safety and progress with up to two faults: a lost packet, the end of the source, a broken connection, a rejected unit, a restart of the client, a resync, a stop; and that it implements `Delivery` |
| `VisionPipeline` | `TypeOK`, `OnlyCurrentResults`, `NoneForgotten`, `OneResult`, `InferenceInOrder`, `EventuallyResult` | one result for each frame, under both drop policies |
| `MCPlayback` | `TypeOK`, `SlotHasOwner`, `UnseenKept` | playback of one viewer whose connection may break twice, with an old and a new handler alive at once: the slot is given back, and acknowledgements delete what was painted, but for one named case |
| `PlaybackLive` | `StreamInOrder`, `EventuallyPainted` | a connected viewer who may jump to live, stop and start, or meet an inference fault reads frames in order, over fault messages too, and catches up |
| `Publishers` | `TypeOK`, `DoneClosedOnce`, `WrongHasCause`, `FeedFollows`, `OnlyGoneIsRemoved`, `GoneIsRemoved` | the right publisher is installed whatever the order of callbacks and readers, no done channel is closed twice, and `android_live` is wrong only after a race that `Report`, `ReportArrives`, `ReportLost` or `EndArrives` names; the feed compares the packet numbers of two connections only after a packet later than the `End()` of its own connection |
| `Tracking` | `TypeOK`, `MarkMeansKept`, `DuplicateHasCause`, `EventuallyRecorded` | no observation is lost behind its mark or stored twice without a cause, over failures, edits and restarts; the newest is always stored in the end |
| `TrackingLocation` | `RecordedWhereObserved` | **violated** |
| `YoloFeedRewind` | `ResumePreserved` | **violated**, see below |
| `PlaybackSlot` | `SlotHeld` | **violated** |
| `PlaybackWindow` | `WindowReleased` | **violated** |
| `PlaybackReconnect` | `EventuallyPainted` | **violated** when a connection can break |
| `VisionFault` | `FaultIsCurrent` | **violated** |

The six violated properties are statements of the code's own comments and of the
integration plan; the findings in `PROJECT.json` quote them.

- *YoloFeedRewind*: acknowledgements queued before a reconnection are read after
  the relay rewound, and remove the units it rewound to.
- *PlaybackSlot*: a connection that is turned away clears the slot of the viewer
  who holds it.
- *PlaybackWindow*: a handler that waits on a full window when an epoch ends keeps
  the old epoch's frames in it, and waits for ever.
- *PlaybackReconnect*: after a reconnection, acknowledgements of what the browser
  had buffered delete results the resumed handler is still to send.
- *VisionFault*: a frame that fails after its epoch ended leaves a fault in the new
  one.
- *TrackingLocation*: the first poll after an outage may fall into the glide of a
  bus towards its new fix; the place stored as that live observation is then a
  computed one.

`WrongHasCause`, `FeedFollows`, `DuplicateHasCause` and `UnseenKept` state what goes
wrong rather than that nothing does. `android_live` can be wrong for good, up to 2^15 packets of a
new connection can be dropped as late ones of the old, and observations can be stored
twice; the code does not claim otherwise. The properties say that this happens
only after one of the listed races, each of which is recorded in a history variable
(`raced`, `strayed`, `excused`) at the step that is the race.

`UnseenKept` is about a claim the code does make, and breaks: the window of the
websocket is bounded "without deleting any unseen result" (`playback.py:209-210`). A
tab that reconnects after the epoch changed is moved to the new epoch by *session*
and *resume_unavailable*, but keeps the number it painted last in the old one
(`index.html:473, 476`; only *epoch* resets it). If its connection is lost again
before the first new frame is painted, it asks to resume behind that number, and
the relay's frames up to it are never sent to it; the acknowledgement of the next
frame it paints is cumulative and deletes them. The property demands that every
single result that is deleted was painted itself, except such frames: `MovedPast`
collects them in `skipped` when the resume is granted, and the viewer's own jump to
live adds what it throws away. With `MovedPast` left out, TLC finds the violation in
the run `MCPlayback` (two lost connections, frame 0 of epoch 2).

### Bounds

Counters that grow without limit in the code (units, epochs, results, faults) are
bounded in the guards of the environment's actions, not in those of the code
under study: `MaxUnits`, `MaxEpoch`, `MaxSeq`, `MaxFaults`. There is one exception:
`Tracking.Respond` waits until one of `MaxBatches` batches is free, where the code
starts any number of them.

- `YoloFeed`: three units of 3 bytes (keyframe) or 1 byte against `MaxBytes = 6`
  and `MaxSpan = 2`. Two keyframes fill the byte limit exactly and a third unit
  exceeds it, so both sides of the comparison occur; two faults are enough for a
  reconnection during a recovery. Three units never exceed the span, so that branch of
  `Overflow` does not fire here (with a fourth unit the run takes more than five
  minutes): only the theorems, which hold for every limit, cover it.
- `VisionPipeline`: queue of two, two attempts, four frames per epoch: one being
  inferred, two waiting, one too many. Two epochs give a stale frame at every
  place of the worker.
- `MCPlayback`: `Window = 0` stands for the code's 120: the comparison is `<=`, so one
  frame may be outstanding beside none, and the second of the two results per epoch
  always waits for its acknowledgement. Two connections let the handler of a lost
  connection overlap with its successor; two lost connections are what it takes to
  resume with the position of an earlier epoch.
- `PlaybackLive`: `Window = 6` lies above everything its three epochs can send, so
  the run asks for missed wake-ups apart from the finding of `PlaybackWindow`. One
  jump, stop or inference fault may come anywhere; the fault is what puts a message
  between two frames. Lost
  connections are left to `PlaybackReconnect`, which fails.

- `Publishers`: two connections, which is one that replaces another, with both ends
  of each; one restart of the vision service puts its start-up query after, and
  before, any report. A third connection exceeds a run of minutes.
- `Tracking`: two buses let one upsert or insertion fail beside another; two requests
  overlap; two batches are in flight; two fixes tell older from newer. One fault (a
  failure, an edit, a restart) may happen anywhere. Administrators edit the vehicle
  of one bus (`Typed`), which is enough to fail the request for both.
- `TrackingLocation`: one bus with a recorded trace, two fixes: one before and one
  after the outage.

`CHECK_DEADLOCK FALSE` in the runs of `Playback`, `VisionPipeline`, `Publishers` and
`Tracking`: at the bounds, with everything painted, the worker at its empty queue,
all connections gone or the server stopped, these systems really wait for their
environment. The run `YoloFeed` checks deadlock: `serve()`
ticks for ever.

### Fairness

- `YoloFeed`: weak fairness of `serve()`, which runs on a 10 ms ticker, and of
  Python's receive loop, which reconnects and reads for ever. Strong fairness of
  the commands and of noticing the end of the connection: a ready tick can pass
  them over, but Go's `select` picks at random among what is ready. The source,
  the viewer and all faults are free.
- `VisionPipeline`: weak fairness of the worker: its coroutine is resumed by the
  event loop, and the call of the model ends. The receiver may stop for ever.
- `Playback`: weak fairness of each handler and each control task, of the worker
  that publishes, of the relay's answer to a resync, and of the browser's event
  loop (read, paint, reconnect) and of a stopped viewer who starts again. Faults
  and clicks are free.

- `Publishers`: weak fairness of the goroutines the relay itself runs: the rest of
  `SetPublisher`, the reader's error, the rest of `RemovePublisher`. The connection's
  callback is not counted on, as it may have run before the track was installed.
  Reports may stay under way for ever.
- `Tracking`: weak fairness of "some request goes on" and "some insertion ends".
  Dashboards poll every 3 s and the database answers; no order among requests or
  insertions is assumed, and none of the faults.

`EventuallyRecorded` excepts buses that leave the snapshot, a stopped server, and
`Blocked`: a row under a shown bus's default code that is not its own makes every
poll fail with 409. `EventuallyPainted` excepts two states by name: a resync in the last epoch of the
model, which the bound leaves unanswered, and a handler in its wait after a fault
report, which can miss a notification (`playback.py:242-243`).

## Proofs

Every invariant and every action property of a passing run, and the refinement of
`Delivery`, is a theorem about the module's `Spec` for all values of its constants.
The only assumptions are the named ones of the modules: bounds and sizes are natural
numbers, a queue and a retry budget are not zero, sets of buses, tabs and connections
are finite. Nothing is assumed of fairness. The bounds on the environment are
constants too, so a theorem holds for every length of history.

| Module | Theorem | States |
| --- | --- | --- |
| `YoloFeedProofs` | `TypeCorrect`, `BacklogAlwaysContiguous`, `StreamAlwaysDecodable` | `TypeOK`, `BacklogContiguous`, `StreamDecodable` |
| `YoloFeedDelivery` | `NeverJumps`, `EndMeansAll`, `NothingUnseenIsFreed`, `FeedDeliversInOrder` | `NoSilentJump`, `EndAfterAll`, `OnlySeenIsFreed`, `Delivers` |
| `YoloFeedBytes` | `BytesAlwaysExact` | `BytesExact` |
| `PublishersProofs` | `PublishersTypeCorrect`, `DoneNeverClosedTwice`, `FeedFollowsPublisher`, `WrongLiveHasCause`, `RemovedOnlyWhenGone` | `TypeOK`, `DoneClosedOnce`, `FeedFollows`, `WrongHasCause`, `OnlyGoneIsRemoved` |
| `VisionPipelineProofs` | `VisionTypeCorrect`, `ResultsAreCurrent`, `NothingForgotten`, `OneResultEach`, `InferredInOrder` | `TypeOK`, `OnlyCurrentResults`, `NoneForgotten`, `OneResult`, `InferenceInOrder` |
| `PlaybackProofs` | `PlaybackTypeCorrect`, `StreamArrivesInOrder`, `TakenSlotHasOwner`, `UnseenIsKept` | `TypeOK`, `StreamInOrder`, `SlotHasOwner`, `UnseenKept` |
| `TrackingProofs` | `TrackingTypeCorrect`, `MarkNeverForgets`, `StoredTwiceHasCause` | `TypeOK`, `MarkMeansKept`, `DuplicateHasCause` |

Each rests on an inductive invariant that a theorem of its module states
(`Invariance`, `DeliveryInvariance`, `PublishersInvariance`, `VisionInvariance`,
`PlaybackInvariance`, `TrackingInvariance`). TLC checked each of them on the
instance of its run before it was proved.

**One connection of the feed** (`IInv == TypeOK /\ FeedOK(feed) /\ LinkOK /\
PositionOK /\ Decodable`). `StreamDecodable` speaks of what lies on the socket and is
not inductive: whether the next record may follow depends on where `serve()` stands,
and that on what the feed has done since `serve()` last held the mutex. So the proof
has two halves:

1. `FeedOK` is the struct's own invariant (the backlog is contiguous, `seenIDR` holds
   iff something was retained, unit 0 is a keyframe). The lemmas `ResetOK`,
   `FinishOK`, `AdmitOK` and `AcknowledgeOK` show that every method keeps it, and
   that every method `Evolves` the struct: it opens a later epoch, or drops units
   from the front and adds the next one at the end.
2. `PositionOK` ties `conn` to the last record written, as long as the connection is
   in the feed's epoch: after START the next unit, once it is found, is a keyframe
   (`StartsAtKey`); after a FRAME the next unit is its successor. `PositionStable`
   shows from `Evolves` alone that the other goroutines cannot break this. Each
   action of `serve()` then has its own step (`PositionServe`, `DecodableServe`).

**All connections of the feed** (`DInv`). That nothing is jumped over between two
connections follows once everything else lags behind `seen`, the newest unit any
decoder was given, which has no holes below it: what acknowledgements under way
claim (`ClientOK`), the oldest unit kept (`BacklogOK`), the first frame of every run
on the socket (`WireOK`) and the place from which `serve()` resumes (`ResumeOK`).
`EndOK` adds that an END on the socket closes its epoch. Under the mapping above,
initial states then map to the initial states of `Delivery`, and each action to
`Produce`, `Free`, `NewEpoch`, `DeliverNext`, `DeliverFirst` or a stutter;
`OnlySeenIsFreed` is read off the same steps.

**The byte counter.** `BytesExact` is inductive with `TypeOK` and `FeedOK`, but its
steps need arithmetic on cardinalities: the keyframes of a backlog are those of a
prefix and those behind it (`KeysSplit`), and dropping the prefix renumbers the rest
without changing their kind (`KeysShift`).

**Publishers** (`PInv`). A done channel is closed by whoever took the publisher out
of the pointer: the replacement, or the removal. `CloserOK` says there is one such
party at most and `ClosedOK` that nobody comes after it. `LiveOK` predicts
`android_live` from the last report or answer under way and is what makes
`WrongHasCause` inductive.

**The inference pipeline** (`VInv`). The frames ever received in an epoch have no gap
(`SeenOK`, although a rewind sends some again), each one is completed, in the queue
or with the worker (`PlacesOK`), and these three are in order (`OrderOK`).

**Playback** (`PlayInv`). `LinksOK` says who may use a connection; `PositionOK` how the
messages on it stand to the handler's `ref` and `next`, over every await of the
handler, so that the next frame it sends fits (fault messages in between change
nothing, which is why it speaks of the last message that is not one); `EpochsOK` that
nothing is ahead of AppState's epoch. `UnseenKept` needs that an acknowledgement,
which is cumulative, never has an unpainted frame below it. That is a claim about a
frame's whole way to the screen, and the invariant follows it backwards:

- `AcksOK`: a *presented* under way on whichever connection names a frame that was
  painted, or an epoch that is over;
- `SeenOK`: below a painted frame every frame was painted or skipped;
- `KnownOK`: below the frame in a decoder every frame was, and below a frame that a
  player knows every one was or is known to it as well. The decoder is given the
  least number first, so the next frame again has nothing below it;
- `StreamOK`: a frame on a connection, and the frame its handler sends next, finds the
  player in the frame's epoch (`InEpoch`) and, below it, only frames that were
  painted or skipped, that the player still knows, or that it reads before
  (`Knows`). Messages that empty the player (*epoch*, *resume_unavailable*) come
  before any frame that would rely on what it threw away.

`Open` establishes the last of these: it resumes behind a painted frame, behind which
`SeenOK` leaves nothing, or else adds what it passes to `skipped`. `Jump` adds to
`skipped` what the player knew. `ReadyGrows`, `StreamSaid` and `StreamTaken` show that
painting elsewhere, sending and reading keep it.

**Tracking** (`TrackInv`). `MarkMeansKept` is inductive with the types. For
`DuplicateHasCause` one has to know what became of the mark of an observation that was
handed to the database once: it was taken away with a cause, or stands, or that of a
newer one does or did (`HandedOK`). When the filter keeps such an observation again,
the first or the third case holds, and both are recorded in `excused`; so what is in
flight twice, or in flight and stored, is excused (`OnceOK`). `MadeOK` bounds the
rows made for a bus: each further one needs an edit that took the last away.

Only model-checked, as the provers have no rule for ENABLED: the liveness properties
`EventuallyDelivered`, `GoneIsRemoved`, `EventuallyResult`, `EventuallyPainted` and
`EventuallyRecorded`, with the fairness above. The six violated properties are shown
by TLC's counterexamples.

## Not modelled

- RTP packets and their assembly into units: 16-bit sequence and 32-bit timestamp
  wrap, aggregated and fragmented NAL units, parameter sets. `YoloFeed` begins with
  complete units and lets a loss come at any of them.
- QR events, keyframe requests (PLI), WebRTC negotiation.
- A restart of the relay, or of the vision service under a live tab; a restart of
  routing-tracking.
- The player's timers, watermarks and decoder errors; monocular distance and metrics, which are
  numeric.
- Route search: sequential code over a graph read from files.
- Node's auth, bootstrap and documentation: a login reads a row and signs a token, a
  check verifies one. Nothing is stored that an order of calls could spoil.
- The Android application, pages, scripts, deployment, data.
- The generated Prisma client. It makes up 28,600 of the 30,300 lines of TypeScript
  in the repository and has no behaviour of its own beyond the queries modelled in
  `Tracking`; of the 1,665 lines written by hand, the modules map those that keep
  state: tracking, vehicles, server, errors. The logic of the system is in Go,
  Python and JavaScript, which is where most of the modules are.

## Plan

1. **Done**: `YoloFeed` with its refinement of `Delivery`, `Playback`,
   `VisionPipeline`, `Publishers`, `HybridBus` and `Tracking`.
2. **Done**: the proofs of all their invariants and action properties, and of the
   refinement.
3. Next: results the runs do not state yet, from the same invariants: that the
   position of a handler and the send window agree in `Playback`; an abstract store
   for `Tracking` (each observation recorded at least once while its mark stands)
   and for `VisionPipeline` (frames in, one result each) that they implement.
4. Later: the assembly of packets, a restart of the relay across `YoloFeed` and
   `VisionPipeline`, the player in detail, route search.

Runs are few on purpose: a new module gets one passing run, and a violating run
only where the code contradicts its own words.
