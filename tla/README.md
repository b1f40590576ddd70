# picoo-camera in TLA+

picoo-camera turns a phone into a wireless camera of a desktop computer. The
phone (the *Sender*) encodes its camera, sends it over QUIC on the local
network, and the desktop (the *Receiver*) decodes it and publishes the pictures
to a virtual camera, a preview and recordings. This directory models the parts
of the program whose correctness depends on the order of events: connections
that replace each other, messages that wait in queues behind the end of their
connection, deadlines, retries and user calls.

## 1. The system

| Part | State it keeps | Operations | Talks to |
|---|---|---|---|
| Sender session (`crates/picoo-sender/src/session`) | reducer state (connection, stream, active and pending generation, reconnect policy), endpoint, reconnect deadline and backoff, handshake nonce and pairing, encoder transaction | `connect`, `disconnect`, `set_auto_reconnect`, `pump`, `send_client_hello`, media submission, encoder reports | transport (commands out, events in), trusted store, platform through the FFI mutex |
| Receiver session (`crates/picoo-receiver/src/session`) | reducer state, authenticated sender, pairing challenge, control state, stream configuration, last frame and hold deadline, decoder and recovery state | `pump`, confirm / reject pairing, close session, remove a trusted device, deadlines | transport, trusted store, decoder worker, frame hub, recording |
| QUIC transport (`crates/picoo-transport`) | one worker task per endpoint, shared `active_session`, an unbounded queue of critical events and a bounded one of media batches | `Connect`, `Close`, `SendControl`, `SendVideo` commands; `Connected`, `Disconnected`, `ControlMessage`, `VideoPackets` events | the network; `TransportEventWake` wakes the owner |
| Pairing (`crates/picoo-pairing`, `session/pairing.rs` of both sides) | identities, trusted store in memory and on disk, the challenge of the running handshake | hello, confirm, approval, commit, complete; removal; expiry | control stream, user on both sides, file system |
| Packets (`picoo-packet`, `picoo-protocol`) | unfinished access units, FEC groups, terminal frames | ingest, expiry, eviction | receiver session |
| Jitter buffer, media scheduler (`picoo-jitter`, `media_scheduler.rs`) | ordered access units with playout times | push, pop, drop late | receiver session, decoder |
| Decoder recovery, worker (`recovery.rs`, `decoder_worker.rs`) | recovery phase and candidate, work in flight | submit, complete, fail, time out, request a refresh | sender (key frame request) |
| Frame hub (`picoo-frame-hub`) | shared-memory ring with reader leases and a content generation, ordered subscription, buffer pool | publish, read, invalidate, subscribe, close | virtual camera processes, recorder, preview |
| Recording (`picoo-recording`) | source, worker, bundle on disk | start, stop, fail, finalise | frame hub, file system |
| Windows camera (`extensions/windows-virtual-camera`, `output/native_windows.rs`, `native_pipe.rs`) | stream state and revisions, native session (pipe, handshake, prepared sample, requests), the desktop's channel and its newest picture | `Start`, `Stop`, `Shutdown`, `SetD3DManager`, media type, `RequestSample`; demand, hello, offer, imported, released | named pipe, shared ring (content signal), Media Foundation |
| Health, rate, clock (`picoo-session`, `picoo-rate-control`) | loss history, bitrate ladder, clock samples | sample, step | sender session |

A session owns its state on one thread: on the phone every call takes one mutex
(`picoo-ffi/src/handles.rs`), on the desktop one owner thread runs `pump` and
the user's commands (`runtime.rs`). The transport's Tokio task is the second
actor. The two share only commands, events and the `active_session` field, and
that is where most of the difficulty is: an event describes the connection as
it was when it was queued, the field as it is now.

### What is hard

- **Generations.** A session, its reconnect timer, its transport and the
  transport's task each hold their own idea of which connection is current.
- **Events behind their time.** The transport clears `active_session` before it
  queues `Disconnected`; up to a queue of control messages still waits.
- **Deadlines.** Reconnect, last-frame hold, pairing window and encoder
  directive race the event that would have made them unnecessary.
- **Two copies of one fact.** `reconnect_after` and `reconnect_pending`;
  `placeholder_after` and `disconnect_hold_pending`; the trusted store in
  memory, on disk, and on the other device.
- **Partial failure.** A store that cannot be written between two messages of a
  handshake; a command refused by a full queue.
- **Shared memory.** Readers in other processes, producers that die.
- **Borrowed surfaces.** A picture leaves the desktop as a handle and comes back
  by a callback in another process, or not at all.

### What makes each part correct

- Sender lifecycle: a stop is final; the timer is armed exactly while the
  session is Reconnecting; every connection the session owns reports its end;
  none it does not own stays open; the endpoint the user asked for is dialled.
- Receiver lifecycle: nothing of a session survives it; the hold ends; media
  needs a completed handshake of the same connection; no connection is served
  that nobody will adopt or close.
- Pairing: trust begins only with both users' consent; memory and disk agree;
  the phone commits before the desktop; every handshake ends.
- Sender stream: what the phone announces, encodes and sends is one format per
  epoch; every change of the encoder is committed or rolled back.
- Packets, jitter, recovery: an access unit has one outcome; the loss of a
  reference picture is noticed and starts a recovery; nothing is decoded twice
  or before the configuration it needs.
- Frame hub: a reader never sees a picture while it is written, a dead process
  never blocks a slot for ever, an ended subscription ends once.
- Windows camera: no sample outside a run of the stream, no picture from before a
  placeholder, no drawing into a surface the camera still shows; requests move on
  and `Shutdown` returns.
- Recording: a recording that says Complete has what was handed to it, and a loss
  on the way there left a failure; a stop always concludes, and the next recording
  can start as soon as the result of the last one is known.

## 2. Modules

### SenderLifecycle

The reducer (`reducer.rs`), the effect adapter (`lifecycle.rs`), the client half
of the transport (`sender.rs`) and its task (`client_worker` and
`run_connection` of `quinn_backend.rs`).

- `life` is `SenderReducerState`; the operators `ConnectRequested` ...
  `ReconnectConnectFailed` are the arms of `reduce`, each a function from state
  to state. The actions apply them together with the effects the arm returns.
- A public call holds the session's mutex, so the session's own steps do not
  interleave with each other, but the transport task runs between them: `call`
  is the point the holder of the lock has reached (`Drain` polls events until
  the queue is empty; `PumpDrain` and `PumpTimer` are the halves of `pump`).
- `transport` is `QuicSenderTransport`, `actor` the task of the latest
  connection, `events` its queue. A `Connect` opens a new task; the old one is
  dropped with its queue, as `self.actor = Some(actor)` does.
- `userStopped` and `stopped` are history variables of the properties.

Left out: statistics, the camera permission flag, media, the encoder
transaction (only its request to disconnect is kept), and a `Close` refused by
a full command queue.

### ReceiverLifecycle

The reducer, its adapter, the event pump (`transport_events.rs`), the control
gate (`picoo-protocol/src/control_gate.rs` with `control.rs`), the last-frame
hold, the ownership and expiry of pairing, and the server half of the transport.

- `life` is `ReceiverReducerState`; `sender`, `pendingPairing`, `controlOpen`,
  `streamConfig` are the resources that `reset_session_resources` clears, each
  tagged with the connection it was made for, so that a property can ask whether
  the current session made it.
- `server` is `run_connection` and the accept loop: a connection is accepted
  (`Accept`), announced, serves, and ends in two steps, `Leave`
  (`active_session` is cleared) and `ReportEnd` (`Disconnected` is queued).
- One owner step handles one event, one user command or one deadline. The QUIC
  task interleaves between events; that it may also run in the middle of the
  handling of one event is not modelled, nor is a refused `Close`.
- The signatures are abstracted to "the proof is valid and of the right phase"
  or not; the decoder's answer is taken as ready (a configuration that is
  deferred until the probe ends is part of ReceiverMedia).

### PairingHandshake and PairingTrust

`PairingTrust` is what pairing promises, without messages: each side trusts the
other or not; a side begins to trust only while a handshake runs to which both
sides have consented, the phone before the desktop; a side that trusts keeps its
trust until its own user removes it; a lost connection ends the handshake and
leaves trust as it is. `PairingHandshake` is the code on both sides of the
control stream (`session/pairing.rs` and `control.rs` of `picoo-sender` and of
`picoo-receiver`, `store.rs` of `picoo-pairing`), and implements it by its
property `TrustSpec`.

- `phone` is the part of `SenderSession` pairing depends on (the reducer's
  stream, `SenderPairing`), `desk` that of `ReceiverSession` (`ActiveSender`,
  `PendingPairing`). `trusted` is the `TrustedDeviceStore` in memory, `stored`
  the file; every write replaces the file or fails and is rolled back, so that a
  restart takes `stored` for `trusted`.
- `wire`, `toPhone`, `toDesk` are the control streams: in order, and cut at any
  moment, after which what was delivered can still be handled or be lost.
- There is an action for each message handler, user command (confirm, reject,
  remove, on either side), expiry, failing store, restart and broken connection.
- A consent is recorded as the user's confirmation or, in a trusted
  reconnection, as the trust the side held when it sent its hello.
- `consent`, `established`, `withdrawn`, `repeated` and `fault` are history
  variables of the properties.

Assumed: the keys of both devices stay the same, so a signature over the
transcript of the running connection verifies; one connection at a time (the two
lifecycle modules treat connections that overlap) and one `ClientHello` on each;
the desktop's automatic acceptance may have either value at each hello; a send
fails only where the code's reaction differs from that to a broken wire (the
desktop's approval and the phone's confirmation). Left out: several devices in
one store, changed identity keys and their history, stream control by the phone.

### SharedRing

The ring in shared memory (`crates/picoo-frame-hub/src/shared_ring`): one
producer process that writes pictures, consumer processes that read them in
place, and the owner of the producer, which invalidates older pictures from
another thread. A step is one access to shared memory, so every interleaving of
the three is explored. Stores that nobody can observe apart, because the slot
is in the state WRITING, are one step; so are the return of a lease and the
release of the kernel lock that follows it.

- `kernel` says whether the slots have kernel locks (a ring in a file; on
  Windows also a named ring) or not (a named ring on the other systems); it is
  chosen in `Init`. The producer's lock is exclusive (`Exclusive`), the readers'
  are shared (`Sharing`); both end with their process.
- `meta` is `RingMeta`, `slots` is `SlotMeta` with the pixels. The lease of a
  writer, `u32::MAX`, is -1, so that a count that falls below zero shows.
- `producer` is the point `publish_nv12_kind_in_generation` has reached, `fence`
  that of `invalidate_as`, which updates signal and generation one after the
  other; `readers` are the calls of `latest_frame`, `read_view_at`, `read_view`
  and the views they return.
- A process dies where its death leaves something behind: the producer at any
  step, a consumer that holds a lock or a lease. `Reopen` is the successor that
  takes the ring over and, as `CpuOutput` does on start, invalidates what it
  finds.
- The picture in a slot is known by the era - the number of invalidations
  completed - in which its work was admitted; `Torn` pixels are being written.
  `era`, `crashes` and a reader's `floor` are history variables.

Atomics are sequentially consistent here. The code's acquire loads and release
stores of `ready_state` and `sequence` surround compare-exchange operations on
the lease that are `SeqCst`; weaker behaviours are not modelled.

Left out: the lease on pixel demand (`demand.rs`), a ring file whose header is
invalid and is replaced, the CPU output's own queue beyond the admission of work
under its mutex, and the use a virtual camera makes of a view.

### SenderStream

The phone's outgoing stream: the encoder transaction
(`session/encoder_transaction.rs`), stream epochs and StreamConfigs
(`stream.rs`), the admission of native encoder events (`media.rs`) and what
`pump`, `abr.rs` and the session reset do to them.

- A call holds the session's mutex; `call` is the point its holder has reached,
  because a call for one encoder event may pump in its middle. The native
  encoders are the second actor: `encoders` remembers what each generation was
  started with, and a generation that was replaced may still report.
- `tx` is the transaction with its rollback, `gen`, `height` and `committed` the
  facts of the encoder in force, `config` and `configSent` the StreamConfig.
- `link` stands for connection and authentication, which SenderLifecycle models.
  `announced`, `carried` and `flushed` are history variables of the properties.

### ReassemblyMap, AccessUnitFates, Reassembly

`ReassemblyMap` is the map of `picoo-packet` as functions from map to map: the
fragments of unfinished access units, the noticed gaps in the frame numbers, the
expiry boundary and the tombstones that keep a given-up unit from being built
again. `InReach` says how late a datagram may be for the tombstones to know its
unit. Both `Reassembly` and `ReceiverMedia` use these definitions.

`Reassembly` drives the map by the receiver's calls of it: a packet, a deadline,
a batch that is dropped as stale, eviction, abandonment. Datagrams arrive in any
order within `Reach` frame numbers of the newest; parity repairs a unit with one
fragment missing. `AccessUnitFates` is what the map promises: the outcome of a
unit is decided once and for ever, and a unit is handed on at most once.

### ReceiverMedia

The desktop's media path: the StreamConfig gate (`media_ingress.rs`,
`stream_config.rs`, `decoder_capabilities.rs`), reassembly, the jitter buffer
(`picoo-jitter`) and the media scheduler, the decoder's queue and thread
(`decoder_worker.rs`) and the recovery of a broken prediction chain
(`recovery.rs`).

- `media` is one record - map, jitter buffer, recovery phase, decoder queue, job
  in progress, events not yet read - and its operations are functions on it,
  as the code's are methods of the session.
- The owner thread takes one step per message, packet, deadline, scheduling
  decision or decoder event. The worker is a second thread that takes an item,
  and finishes it, fails, or stays in the codec for ever.
- The access units are numbered as encoded; `source` says which epoch and which
  kind (key, reference, discardable) each is and is chosen in `Init`.
- A datagram in flight is of this connection, at most `Window` units ahead of the
  newest and at most `Reach` units behind it (`InFlight`, a bound of the model:
  see the observations). `Sources` are what one life of the sender's session
  encodes: its epochs never return, because `allocate_stream_epoch` only counts up
  and no unit of an epoch is packetized before its encoder commits. A restarted
  phone numbers anew, on a new connection, for which the receiver has reset all
  that compares the numbers; the model goes on counting instead.
- Left out: the playout target (a unit may become due at any moment), the rate
  limit of key frame requests, the pixels, and the check of a unit against the
  admitted budget (`media.rs:277`), which is the protocol's maximum for every format
  (`capability_probe.rs:84`).

### Recording

`EncodedRecording` is the recording of access units: the configuration gate and
the ingress on the session's thread, the reordering and the segments on the
worker's. `RenderedRecording` is that of pictures, from the ordered subscription
of the frame bus. `RecordingBundle` is the manifest both end in, and `Recording`
puts the two beside each other under one session, whose reset ends both.

- `enc` and `ren` are what session and worker share, `encWorker` and `renWorker`
  the threads; `stream` is what the session does to the configuration, `bus` the
  subscription.
- A thread goes from Create through Run (and, rendered, Drain) to Done and Freed:
  the slot of the process is dropped before the result is set.
- Session and worker share the queue, the failure and the sender's end of the
  queue, and either may run between two accesses of the other. A call of the
  session leaves its accesses in `enc.todo`, and `Proceed` does one at a time: an
  event is offered, a failure set (also the one a refused offer sets, which is a step
  after the refusal), the handle dropped, a refresh taken. No other call of the
  session starts before the list is empty (`SessionIsFree`): one thread owns it.
- A poll of the worker (`ingress.rs:169`) is two steps as well: `LookForFailure`, then
  one of the `Poll*` actions for what the queue holds by then. `PollDrained`, the
  disconnected queue, does not look at the failure a second time, as in the code.
  The second look after something was received (184) is one step with the receiving:
  a failure set between the two ends the worker at this look or at the next one, and
  the recording has failed either way. The same holds of the look at the failure and
  the attempt to send in `OfferEvent`: between them only the worker can set a failure,
  and then it ends with it whether or not the event still got into the queue.
- `accepted`, `missed` and `written` are history: the events the queue took, whether a
  unit or gap of the user's recording did not get there, the units in segments.
- A unit of a new epoch makes reassembly forget what is open of the old one, so
  `Undecided` lets the old units go without a report (`picoo-packet/src/lib.rs:590`).
- Left out: what is inside a segment, time stamps, the files themselves, inputs the
  ingress refuses as malformed, and the byte budget.

### NativeCamera

The native path of the Windows virtual camera, both ends of its pipe: the stream
of the media source (`media_stream.rs` and `media_stream/`), which lives in the
system's Frame Server, and the desktop's `NativeOutput` (`native_windows.rs`).

- Six threads take steps: the receiver's owner (a picture or a placeholder goes
  to the ring first and to the pipe's worker second, and a placeholder also cuts
  the connection), the pipe's worker, the control calls, `RequestSample`, the
  preparation thread, and the callback that returns a surface.
- `cam` is `StreamState`, `lock` is `lifecycle_operation`, `control`, `p`, `r`
  and `w` are the points the threads have reached with what they captured.
  `link`, `toServer` and `toClient` are the pipe (external: modelled from
  `native_pipe.rs`, which calls the operating system).
- A revision that was captured is a flag that says whether it is still the
  current one: revisions never repeat. Exhausted revisions are left out.
- `fresh` and `announced` are history variables: the picture is newer than the
  last placeholder, the application was told that the stream runs.
- A process that dies loses its pipe at once, its signal in the ring only after
  the hold; the next process replaces the mapping (`Crash`, `HoldEnds`, `Restart`).
- Merged: the worker's look at the generation with the write of the offer that
  follows it, its last Close with the disconnect that discards it, and the two
  halves of the callback's reset. A disconnect while the pipe only listens does
  nothing. The owner's look at the ring is current; that the camera may see the
  kind late is covered by the delay between reading and using it.
- Left out: the pixels (`frame_provider.rs`), sizes and formats, authentication
  of the two processes, `set_default_allocator`, a second control call or a
  second request beside one that is still running.

## 3. Runs

| Run | Question | Bounds | Result |
|---|---|---|---|
| `sender` | does the sender own, close and report its connections, does a stop stay a stop, and is the endpoint the user asked for dialled in the end | 2 endpoints, 3 generations, 2 queued events, 3 backoff stages | holds; liveness under fairness |
| `receiver` | teardown, hold, handshake and unattended connections; does the hold end, is a connection adopted | 3 connections, 2 events, 1 media batch | holds; liveness under fairness |
| `pairing` | is trust written in order and only as `PairingTrust` allows, do honest sides accept each other, does every handshake end | 3 connections, 2 queued messages before an optional one is added | holds; liveness under fairness |
| `pairing_removed_trust` | does trust the user removed come back only with both users' confirmation | as above | violated, finding |
| `ring` | is a view whole, current and counted, whatever producer, owner and another consumer do meanwhile | 2 consumers, 2 slots, 3 pictures, 2 invalidations, 1 death | holds |
| `ring_heals` | does a picture come back when the generations are used up; is a slot lost when processes die | 1 consumer, 2 slots, 3 pictures, 3 generations, 4 invalidations, 2 deaths | holds; liveness under fairness |
| `sender_stream` | do announcement, encoder and media agree through reconfigurations, failures and recoveries, and does every transaction end | 3 formats of 2 heights, 2 offers, 3 epochs, 3 transactions, 2 encoder generations | holds; liveness under fairness |
| `receiver_media` | does the gate hold, is every loss noticed, is each unit decoded at most once, does the path drain | 2 streams of 4 units, 2 connections, jitter buffer of 2, decoder queue of 1 | holds; liveness under fairness |
| `receiver_media_chain` | is a delta ever decoded without its reference although nothing was lost or late but the StreamConfig | 3 units, 1 connection, every datagram in order | violated, finding |
| `reassembly` | is each unit decided once, and no reference unit given up in silence | 8 units of 2 epochs, capacity 2, parity | holds; refines `AccessUnitFates` |
| `recording` | is a result true and the slot free, does a stop conclude | 1 encoded or 2 rendered recordings, 4 units of 2 epochs, queues of 1, 1 and 2, 3 pictures | holds; liveness under fairness |
| `native_camera` | are samples within a run and of current pictures, are surfaces returned before they are used again, do requests move, does Shutdown return | 2 requests, 3 disturbing calls or faults | holds; liveness under fairness |

Why the bounds are enough:

- Lifecycle: a hazard needs an old connection, the one that replaces it, and at
  most one more that shows whether the replacement itself can be replaced; hence
  three generations. Two endpoints tell "the receiver the user asked for" from
  "another one"; the backoff stages keep the growth of the delay, its limit and
  its reset.
- Pairing: a connection on which trust begins, one on which one side has lost it,
  and one that shows what the two make of the difference. The queues are bounded
  only where a *peer* or a periodic report adds to them; `Connected`,
  `Disconnected` and the messages of the handshake itself are always delivered,
  so the bound cannot hide a loss.
- Ring: two slots and three pictures let the producer come round and overwrite a
  slot that was read; two consumers share a lease; one death leaves a marker of
  either kind. `ring_heals` has as many deaths as slots, so that every slot can
  be left leased, and one invalidation more than it takes to use the generations
  up and come round to one that a slot still carries.
- Sender stream: two formats of one height differ in what the encoder event
  alone does not show, two of one codec in what the offer does; three epochs and
  three transactions give a change, a recovery after it, and one at the end of
  the numbers; two generations give one that is replaced. The session may be
  reset and connect again any number of times.
- Receiver media: a key frame, a discardable one, a reference and another key
  frame, or a change of epoch in the first step; two units fill the jitter
  buffer, a third overflows it; one job waits behind the one in the codec; a
  second connection meets what the first left in the worker.
  Four units stay within `Reach` of each other, so that bound excludes nothing here;
  it limits the theorems, and the run `reassembly` goes to its edge.
- Reassembly: capacity two makes the third unfinished unit evict, a jump by more
  than four give up the range, and the tombstones (four) fill; a second epoch
  resets. Frame numbers stay within `Reach` of the newest, see the observations.
- Recording: the queues are as short as they can be and still reorder. Four units,
  three of one epoch and one of the next, give a hole, a reported loss and a change of
  epoch in any order, and two segments. A rendered recording may be followed by a
  second, which meets the bus the first left behind; the encoded one has its slot,
  queue and thread to itself, and starts anew only when all of them are gone
  (`ResultFreesSlot`). The two kinds share nothing but the session's reset, so the run
  explores either and not both at once. Without liveness TLC also went through two
  encoded recordings with queues of 2 and four pictures (2.5 million states).
- Windows camera: two requests instead of eight fill the queue all the same. Start
  and requests are free, and so are pictures, timeouts and refused messages; three
  is the number of placeholders, crashes, Stops, Shutdowns, changes of D3D manager
  or type, and failing events, allocators or surfaces: enough for a Stop during the
  exchange, or a placeholder, a new life of the picture and a failure on top.

The modules other than those of Recording, whose fields are small sets of names,
state a type invariant `TypeOK`. The runs `sender` and `ring`
check it, and the proofs establish it for SenderLifecycle, ReceiverLifecycle,
PairingHandshake, SenderStream, NativeCamera, Reassembly, ReceiverMedia and SharedRing;
TLC finds no violation when it is added to the configurations of the others.

`CHECK_DEADLOCK FALSE` is used where the system may stop: for the receiver and
for pairing when all connections of the bound are used up and no user acts, for
the ring when no picture has been published or the producer is gone for good,
for the streams, reassembly and recordings when all units, epochs or plans are
used up, and for the camera after Shutdown. The sender can always be called.

### Findings

Each violation run checks one sentence of the repository:

- `TrustNeedsBothUsers` - the end of a trusted reconnection inserts the trust
  record whatever the store says by then, so that a removal made after the hello
  is undone and nobody is asked (PUC-007, line 22, and REQ-PICOO-PAIRING-005
  promise a new confirmation). `TrustSpec` holds because the abstract
  specification counts the trust held at the hello as consent.
- `NoDeltaOnBrokenChain` - a delta that completes while the gate waits for its
  StreamConfig is dropped without a record; the IDR that was kept makes the
  decoder healthy and the next delta is decoded without its reference.

### Observations

Seen while modelling; the model contains each, no run states it.

- The Disconnected event of a local close can re-arm recovery
  (`picoo-sender/src/session/lifecycle.rs:227` says it cannot): `connect` called
  while the old connection is closing is answered by it. The retry dials the
  right receiver, which is why `ConnectIntentServed` holds all the same.
- The receiver's `pump` handles `Connected` and `Disconnected` only if the
  transport's present state agrees (`transport_events.rs:39`). When a successor is
  accepted before the end of the old connection was polled, that end is never
  seen, and the session goes on with the sender, pairing and configuration of the
  old connection (`reducer.rs:142` resets nothing): the `ClientHello` of the new
  one is then out of phase and refused. ReceiverLifecycle shows it in a few steps.
- A control message of a connection that has ended, still in the queue, runs into
  the error path of the live session and closes it
  (`picoo-receiver/src/session/transport_events.rs:82-83`); queued in front of
  `Disconnected` it makes the session skip the last-frame hold
  (`session/mod.rs:119`).
- A phone whose user removed the pairing gets no new one while the desktop still
  answers as to a trusted device (PUC-007, line 13).
- When packetization of the IDR that commits a directive fails, the stream epoch
  goes back to one already left (`picoo-sender/src/session/media.rs:147`).
- After a reconnection with a directive still applying, its rollback leaves an
  unsent StreamConfig, and an event without a configuration is flushed before the
  next pump sends it. `media_blocked_for_stream_config` never becomes true
  (ADR 0004, line 107), and `enter_streaming` is unreachable from
  `handle_capabilities`.
- A recovery by RandomAccessResync, or the configuration of a decoder, abandons
  units newer than its cause; a loss noticed while a refresh is awaited is
  absorbed by it; a datagram of the next epoch resets reassembly while the old
  epoch is still in force; dropping a stale batch raises the boundary above older
  gaps, which are given up in silence, and does not notice new ones;
  discarding the jitter buffer forgets the last unit emitted, so that order may
  go backwards (ADR 0005, line 42); a change of epoch during AwaitingRefresh
  cleans nothing up.
- Beyond `Reach` frame numbers the tombstones have rotated and a unit can be
  built twice (`picoo-packet/src/tests.rs:397` and ADR 0003, line 92, take the
  limit as given).
- A failure of the ingress may not show. The session sets it and drops the sender
  (`session/recording.rs:46-49`, or `ingress.rs:150` and the user's stop) between the
  worker's look at the failure and its look at the queue (`ingress.rs:170`, 177). The
  queue is disconnected, the worker does not look again (194; after it received
  something it does, 184), and the recording is Complete although units were given
  up, where `architecture/0012-native-media-multi-output-boundary.md:185` and
  REQ-PICOO-MEDIA-073 want it to fail. It takes a stop while units still wait for
  their configuration, or a full queue that the worker drains before the refusal is
  recorded. TLC finds `enc.failure # None => enc.result # "Complete"` violated in
  sixteen states. `EncodedWhole` therefore says that a loss in front of the queue
  leaves a failure, not that the worker sees it.
- A hole at the boundary of two epochs does not show: when the first unit of the next
  epoch completes, reassembly forgets the unfinished ones of the old epoch uncounted
  (`picoo-packet/src/lib.rs:590`) and the writer sees a plain change of source
  (`encoded.rs:125`). The recording is Complete where
  `docs/product/picoo-camera-next-v2-gpu-cpu-output-2026-09-06.md:739` wants HasGaps.
  `EncodedWhole` therefore speaks of each epoch by itself. No run checks that sentence
  of the document; TLC reaches a Complete recording of the first and the last of
  `TwoEpochs`, with no failure set and no gap reported, in nineteen states.
- A gap is reported before the units that wait for their configuration
  (`session/recording.rs:208`, against the order kept at 186) and is ignored
  while the recording is Arming, which asks for a refresh only once.
- A native delivery that fails resets whatever session is in force
  (`media_stream/native.rs:524-528`), where REQ-PICOO-VCAM-016 wants errors of an
  old session to leave the new one alone; every other failure of the exchange
  compares the revision first.
- A request queued as native survives a change of the D3D manager to none and is
  served by nobody until the next Stop; the same holds, while the content is a
  placeholder, for requests queued before it, until the application asks again.
  `RequestsMove` therefore speaks of live content in native mode.
- `MEStreamStarted` is queued before `transitioning` is cleared
  (`media_stream.rs:365`, 455): a RequestSample sent in answer may be refused.
- A Stop and Start within one exchange make the camera drop an Offer without an
  answer (`native.rs:262-268`); both sides then wait for their timeouts and the
  requests of the new run are dropped with the session.
- `clear` changes the content first and cuts the connection second
  (`native_windows.rs:72-82`): the cut may hit a camera that has just reconnected.
- When the rename of a manifest succeeds and the directory's sync fails, the file
  says Complete and the program Failed (`bundle.rs:328`).

### Fairness

`SenderLifecycle!Fairness`: QUIC handshakes end (idle timeout), a queued Close is
executed, a call runs to its end, the platform keeps calling `pump` (event wake
or its tick), a due deadline is seen, and opening a local UDP socket does not
fail for ever. Strong fairness is needed where another call can disable the step
in between: `PumpStarts` and `PumpReconnects` are enabled only while nobody else
holds the lock. Nothing is assumed of the receiver.

`ReceiverLifecycle!Fairness`: the owner polls, the hold deadline is looked at on
every pump, the transport task runs. Peers and users owe nothing.

`PairingHandshake!Fairness`: both owners poll their events, the desktop looks at
the one-minute deadline of its challenge at every pump, and a streaming desktop
sends its reports every second. No user ever has to confirm, reject or remove.

`SenderStream!Fairness`: a call runs to its end, the platform keeps calling
`pump`, and a pump looks at the three-second deadline of a directive. No encoder
has to report and no connection has to last.

`ReceiverMedia!FairSpec`: the owner wakes for what is due - a deadline, a unit
the scheduler can act on, a decoder event, the answer of the probe. Nothing is
assumed of the worker, which may hang in the codec, or of the network.

`Recording!FairSpec`: both threads run, so the calls into the platform's writer
return; no failure is owed, and nothing is assumed of user, network or phone.

`NativeCamera!Spec`: the two loops, the owner's started calls, the control call
and the request under way run on, and the last reference to a sample is dropped
some day, as Media Foundation's contract with an application says. Nobody has to
start, ask or publish; a dead desktop need not return, and a crash or a fault
owes nothing. The liveness of requests supposes live content that lasts.

`SharedRing!Fairness`: the worker thread of the producer and the threads of the
consumers run, and a view is dropped when its pixels are copied. Nobody has to
publish, read or invalidate, and a dead producer need not return.

## 4. Proofs

### SenderLifecycle_proofs

For every set of endpoints, every number of generations, events and backoff
stages, with the assumptions `EndpointAssumption` and `BoundAssumption`, the
sender keeps its type invariant and the safety properties of the run `sender`
(listed in PROJECT.json).

The properties are not inductive by themselves. The inductive invariant adds:

- `TransportShape`: how `transport`, the task and the generation counter agree
  (at most one of active and pending, the task is of that generation);
- `QueueShape`: what the queue can hold - `Connected` only first, `Disconnected`
  only last and only of a task that has ended;
- `ReducerShape`: which combinations of reducer fields exist;
- `OwnedShape`: what the reducer owns is what the transport has.

The proof has one lemma per action of `Next`; `Spec => []Inv` combines them with
`PTL`. Lemmas about `Append`, `Head` and `Tail` come from `SequenceTheorems`.

### PairingHandshake_proofs

For every number of connections and every queue length (`BoundAssumption`), with
queues of any length: type correctness, `CommitOrder`, that memory and file agree
(`StoreFollowsMemory`), `Implements == Spec => TrustSpec`, the refinement of
`PairingTrust`, and `NobodyIsAccused == Spec => []NoFalseAccusation`.

The refinement needs that whoever writes trust has both consents behind it,
while the messages that carried them may be long consumed. The inductive
invariant `IInv` follows the evidence along the wire: `HelloShape` (a renewal is
offered and taken up only by sides that trusted each other), `ConsentShape`
(which field of which session, or which queued message, witnesses which
consent), `CommitShape` and `CompleteShape` (a commit, and a completion, in the
queue or already handled, was preceded by its sender's write), `PhoneKeepsTrust`
(between commit and completion only the phone's user ends its trust),
`EstablishedInOrder`, and `MemoryMatchesStore`; `DeskShape` and `Fresh` say which
combinations of fields exist. Actions that only forget - ends of connections,
restarts, rejections - are treated by one lemma, `Forgetful`; each of the others
has one of its own.

That nobody is accused is a second argument with an invariant of its own,
`Expected`. A side reports a message that it does not expect in its state, so the
state of the sender must say what its reader has taken in before the message:
every kind of message is sent once, in order (`HelloComesFirst`, `OneApproval`,
`OneComplete`, `OneOfEach`), a report stands only behind the Complete, and
`Sessions` says how the fields of the two sessions go together. The property
itself is part of the invariant, because one false report would provoke others.
The exceptions in it are real: a second Confirm exists only if the user repeats
the confirmation, and a phone whose user removes the pairing in the middle does
look at fault.

### SharedRing_proofs

For every finite set of consumers and every number of slots, generations, frames,
invalidations and deaths (`RingAssumption`), with kernel locks or without: the
type invariant, `ViewIsWhole`, `FenceHolds` and `LeasesCountReaders`.

- `GenerationIsEra`: the generation is a function `Gen` of the number of
  invalidations, different for every era until it is zero for good. With
  `SlotShape` (a complete slot bears the generation of its picture's era) the
  comparison in `CheckFence` means that the picture is of the present era.
- `LeasesCountReaders`, `OwnShape` and `LockShape` are proved together: the
  writer's lease is on the slot while the producer writes, the kernel lock keeps
  a consumer from taking a living writer's mark for a dead one's, and so the slot
  of a reader is not written to, which is what makes `ReaderShape` and with it
  `ViewIsWhole` inductive.
- `FenceShape` and `WorkShape` bound the counters and say that no work is
  admitted before the opening invalidation.

There is one lemma per action; steps that leave the slots alone share
`QuietProducer` and `QuietReader`, the producer's writes `OwnStoreStep`.

### ReceiverLifecycle_proofs

For every number of connections, every length of the reliable queue and every
capacity of the video queue (`BoundAssumption`): the type invariant and the
safety properties of the run `receiver` - `HoldMatches`,
`NothingSurvivesTeardown`, `StreamingNeedsProof`, `NoUnattendedConnection`.

- `TaskShape`: the shared `active_session` is the connection that the server's
  task announces or serves, and none otherwise. Without it nobody could say that
  a close of the owner meets the connection that is being served, which is what
  `NoUnattendedConnection` needs.
- `AllowedHasOwner`: only a sender is allowed media. The phase gate lets a
  ClientHello in when no sender is authenticated; with this, no stream and no
  configuration exist then, which `StreamingNeedsProof` needs.

The owner's handlers are functions on its record; there is one lemma for what
each leaves of the record, and one for each action.

### NativeCamera_proofs

For every capacity of the request queue and any number of calls and crashes
(`BoundsAssumption`): the type invariant, `SampleWithinRun`, `SurfaceReturned`
and the action property `LiveSampleIsCurrent`. The inductive invariant is three
arguments side by side:

- one holder of `lifecycle_operation` (`GateShape`): the control call, the
  preparation thread and `RequestSample` are at a point behind the lock only if
  they are its holder; `RunShape` says for each of these points whether the
  stream runs and was announced;
- one surface for each connection (`SurfaceShape`): it is offered in the pipe, or
  held once in the camera (in preparation, prepared or with the application), or
  its return is on the way, and the worker's point says which. It rests on
  `LinkShape`: a pipe that is not up has no live end and no message;
- a token that still holds was taken after the last placeholder
  (`ContentShape`): the owner changes the ring's kind first and cuts the pipe
  second, and live content returns only after that. `SessionShape` ties the
  session flags of the threads to `cam.native`.

The worker, the callbacks and the faults leave most of the parts alone; the proof
has for each part a lemma that says which fields it depends on.

### SenderStream_proofs

For every set of formats, every offer of a receiver, and any number of epochs,
directives and encoder generations (`FormatAssumption`, `BoundAssumption`,
`NoneAssumption`: the value for "none" is no format): the type invariant,
`CommittedFactsAgree`, `EpochBindsFormat` and `ConfigBeforeItsMedia`.

- `CommittedShape`: generation, epoch, height and format in force are those of
  one encoder that was started for them.
- `DirectiveShape`: while a directive is under way, what the rollback would
  restore is the committed encoder; so rollback, deadline and abort need no
  argument of their own. A local directive has the newest epoch of all.
- `CarriedShape`: an epoch beyond the last one given out has carried nothing,
  and one whose directive runs has carried at most the target.
- `SubmissionShape`: between the first pump of a submission and its ingestion the
  StreamConfig of the access unit was queued, or the connection is gone.

### MediaPath_proofs

One module for `Reassembly` and `ReceiverMedia`, because what comes after the first
two of its parts needs both of them. The lemmas on the map are stated for an arbitrary stream
(`IsStream`), which `UnitsAssumption` makes of the constants of Reassembly and
`SourcesAssumption` of the variable `source` of ReceiverMedia.

*The map.* For every stream (units numbered without a hole, epochs that never
return), every FEC grouping, every loss and order of the datagrams and every
`MaxFrames` (`UnitsAssumption`, `GroupsAssumption`, `MaxFramesAssumption`): the type
invariant with both limits of the map, `LossIsReported`, and the refinement
`SettledOnce` of AccessUnitFates. That a sender leaves no hole comes from
`picoo-sender/src/lib.rs` line 217 and the test at line 498.

- The tombstones are bounded, so a unit that was decided can be forgotten. `Keeps`
  says what remains true of it: closed in the old map, it is closed in the new one
  or its datagrams are out of reach. `FullReachesBack` is the reason: a full set
  whose smallest member is above the boundary lies between that member and the
  newest unit observed, so it spans `Capacity` numbers. That needs the invariant
  `TermShape`: no tombstone is newer than both the newest unit and the boundary
  (a discarded batch leaves one beyond the newest unit).
- `FlightInReach` states the bound of the model as part of the invariant.
- `Proceeds` is what every operation does to the map (shape, epoch, `Keeps`) and
  `Reported` what it owes the owner; there is one lemma for each operation.
- `ClearPending` remembers its units one after another with `FoldSet`, a recursive
  function on the subsets of a set. `WalkExists` proves that there is one and
  `WalksAgree` that there is only one, by `SubsetInduction`, which rests on the
  well-foundedness of inclusion between finite sets; the order of the walk does not
  matter to the result that is used (`WalkKeeps`), as the code's hash map gives none.

*Gate and recovery.* For every source (`SourcesAssumption`), every capacity of the
jitter buffer and of the decoder's queue, every number of connections and unread
events (`BoundsAssumption`): `GateHolds`, `NewestConfigInForce`,
`CandidateIsUnderWay`. Nothing of the map is needed here.

- `GateShape`: without a connection nothing is announced, deferred or configured,
  and nothing is configured before the probe has answered; otherwise an answer
  of the probe could leave a configuration behind that was announced to nobody.
- `CandidateFor`, the strengthening of `CandidateIsUnderWay`: a candidate is of the
  epoch in force, on a live connection, and its job is current and of that
  connection. So the owner does not pass its event over when it reads it, and
  everything that makes it outdated - a reset, a newer StreamConfig, a teardown -
  leaves RefreshInFlight in the same step. `EventsName` keeps the report of the
  worker's end apart from that of a unit.

The functions on the media record preserve `MediaShape` each by a lemma of its
own; that `Min` picks a member (`MinExists`) is proved from the well-foundedness
of inclusion, since the theorem on natural numbers takes an operator.

*The way of one unit.* Under all of these assumptions the action properties
`DecodedOnce` and `LossStartsRecovery`. The invariant is `PathInv`: a unit moves one
way, from the map to the jitter buffer to the decoder.

- `OneWay`: every unit that was handed on, to the jitter buffer, to the decoder or to
  the gate that keeps a key frame, is *decided* (`Decided`): it is closed in the map
  or out of reach there, or its epoch is over, or it is of an earlier connection.
  `Keeps` carries this through every operation of the map, `InFlight` says that no
  other datagram comes. So what the map hands on is new (`MayEnter`), at each station
  there is a unit once, and the decoder is given it once.
- `InOrder`: what waits in the jitter buffer is newer than what left it, and a
  candidate is not newer than what left it last. Without that the scheduler could
  drop a reference picture as older than the candidate, in silence.
- `Passes(s, r)` is what a step owes to the losses: the decoder awaits a fresh start
  in `r`, or the map is as in `s` and no reference unit has left the jitter buffer.
  It is reflexive and transitive, so it follows a handler through the functions it
  calls. Where the map itself changes, `Told` says that a reference unit which
  disappears from it was reported (`Reported`), and `TakeLoss` turns the report into
  a recovery. The only ways out that are neither are to the decoder (`Publishes`),
  and to be dropped by the scheduler, where the case of a reference picture of the
  epoch in force contradicts `InOrder` and `CandidateFor` (`DiscardReadyWay`).
- Each action has a lemma that gives the three facts `GoesOn` together: `PathInv'`
  and one step of either property.

*The queues.* `PathTypeCorrect` is the type invariant with its limits. `BoundsInv`
adds to the invariants above that the queues fit (`Fits`) and the counters stay in
their ranges (`Counters`).

- The decoder's queue holds resets as well, so what is limited is the number of
  positions with a job (`Jobs`), and removing an item moves the others. `JobGone`
  and `JobsOfTail` compare the two sets of positions by an injection.
- `RoomFits`: whatever `DecoderAdmission` lets in, `MakeRoom` leaves room for it
  first. That is why a key frame, and a reference that displaces a discardable
  unit, may enter a full queue.
- `Overflow` gives up one unit of the jitter buffer whenever there is one too many;
  that each is in it once comes from `OneWay`.

### Recording_proofs

For every stream (`SourceAssumption`), every capacity of the queues and every plan of
starts: `ResultIsTrue`, which says of both kinds of recording what a published result
means. Every access to the state the threads share is a step of its own.

- `IInv` is the type of the stream, `HeldIsConfigured`, and for each kind a shape
  (`EncodedShape`, `RenderedShape`) that sets the worker's state against what the
  session handed over.
- Encoded, as long as the worker lives and no gap is recorded (`Intact`), whether or
  not a failure was set: the queue is the part of the history that was not taken yet
  (`Synced`); a unit that was taken is held in reordering, written, or was skipped for
  want of an IDR in front of it, and a gap lies before everything taken later
  (`Account`); what was written of an epoch has no hole and the open segment ends with
  the newest of it (`Chain`). `Whole`, what a Complete result states, follows when the
  last unit is drained.
- What missed the queue is announced (`Announced`): the failure is set, or it is on
  the list of what the session has still to do, and the session holds its handle. The
  list is in order (`Ordered`: a drop or a refresh comes last), so the failure is set
  before the handle is dropped, and a worker that finds the queue disconnected stands
  before a failure that is set - if it were to look.
- Rendered: until the subscription ends abnormally, a frame that is due was written
  or waits in the ordered queue (`Due`).
- What a call of the session prepares leaves what is shared alone (`Untouched`), and
  what one of its steps does only adds to the history (`Grows`, and `Later`, reflexive
  and transitive).
- `WriteAll` and the release of waiting units are folds over sorted sets. Both are
  instances of one walk (`Step`, `Walks`) that exists (`WalkExists`) and is unique
  (`WalksAgree`); `WriteAllFacts` and `Extended` say what it leaves.

### Only model-checked

- Liveness (the prover has no support for `ENABLED` or fairness):
  `ConnectIntentServed`, `HoldEnds`, `ConnectionIsAdopted`, `HandshakeEnds`,
  `RingHeals`, `TransactionEnds`, `PathDrains`, `StopConcludes`, `RequestsMove`,
  `ShutdownEnds`.
- The refutations, which are counterexamples and need no proof.

## 5. Plan

1. Done: SenderLifecycle, ReceiverLifecycle, PairingHandshake, SharedRing,
   SenderStream, NativeCamera, ReceiverMedia, Reassembly and Recording, with proofs
   of every safety property their runs check.
2. CpuOutput and OwnerWake: the queue in front of the ring, and the wake-up of
   the receiver's owner thread.
3. NetworkHealth, RateControl, ClockSync as operators checked against reference
   definitions.

## 6. Not modelled

Discovery (an external mDNS library), codec and bit-stream parsing, GPU code,
the FFI (argument translation around the mutex that SenderLifecycle relies on),
the applications' user interfaces, the operating systems' virtual-camera
frameworks and the macOS extension, the simulator and build tooling. PROJECT.json gives the reason for
each. The byte layout of packets and control frames is data and left to the
crates' own round-trip tests.
