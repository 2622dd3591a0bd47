# Verification of picobrokerTLS

TLA+ models of the GatoMQTT broker, its TLS adapter, the worker pool of the
ESP32-C3 firmware and the configuration updates of smartbox-config; TLC runs
over small instances; TLAPS proofs, for all instances, of every safety property
that the runs check.
`PROJECT.json` maps every definition to the lines of code it stands for.

## 1. Inventory

| Part | State | Operations that change it |
|---|---|---|
| `handler/connection.rs` | per connection: position in the loop, `session_id`, the drop-able read | first packet, CONNECT, flush, checks, select, packet handlers, cleanup |
| `handler/connect.rs` | registry, queue of displaced wills | refuse, resume, displace, insert, CONNACK |
| `handler/publish.rs`, `router/dispatcher.rs` | outboxes, drop counters, quarantine flags, packet ids, inflight lists, command channel | publish, PUBACK, retry pass, `process_outbound_publish` |
| `session/registry.rs`, `session/state.rs` | session slots, shared publish store with reference counts and generations | insert, remove, store, acquire, release |
| `session/notify.rs` | one signal per slot | raise, consume, reset |
| `router/retained.rs` | retained entries, bounded | set, delete |
| `handler/subscribe.rs` | subscriptions, bounded | subscribe, unsubscribe |
| `handler/disconnect.rs` | - | recipients of a will |
| `session/rate_limit.rs`, deadlines of `state.rs` | tokens, last activity | consume, refill, next wake-up |
| `router/subscriptions.rs`, `topics.rs` | - | filter matching |
| `codec/frame.rs`, `tls/embedded_tls_psk.rs` | frame buffer, record buffer, plaintext buffer, handshake phase | read packet, fetch record, decrypt, copy |
| `tls/mod.rs` | stored identity | encode, decode, load or generate |
| `smartbox-config` slots (`active_slot.rs`, `manager.rs`, `pipeline.rs`, `storage.rs`, `serialization.rs`) | two blobs per slot, the active pointer, the candidate in RAM | begin, compile, write, discard, activate, commit, boot |
| `smartbox-config/compiler.rs` | - | validate, compile |
| firmware `main.rs` | busy flags, socket slots, signals, static buffers | accept, reserve, hand off, serve, release |

How they interact: all connection tasks share the registry, the retained store
and the signals; a connection changes the sessions of others when it publishes
or dies with a will. The registry mutex serialises single sections, not whole
operations: a cleanup takes it three times, a flush once per frame, and one
place (the retry write) holds it across I/O. A TLS worker runs one connection
loop over a byte stream that its adapter assembles from records.

What makes it hard: slots are addressed by bare index and reused; a signal may
be raised between a flush and a wait; reads are dropped by `select`; a publish
is shared by reference count while sessions vanish; fixed capacities overflow
half way through a handler; static buffers are borrowed without the compiler's
help; power may fail between any two writes of the configuration store. The
list with its lines is `hazards` in `PROJECT.json`.

## 2. Modules

| Module | Models | Shape |
|---|---|---|
| `PublishStore` | registry slots, inflight lists and the shared publish store | one action per registry operation, offered in every order |
| `InflightCopies` | what the store promises: every session has copies of its own unacknowledged publishes | abstract specification |
| `Broker` (extends `PublishStore`) | connection tasks, handlers, outboxes, signals, retained store, wills, command channel | one program counter per connection; an action is the code between two awaits, or one locked section |
| `Outboxes` | what the broker promises for queued frames: bounded queues | abstract specification |
| `Subscriptions` | SUBSCRIBE, UNSUBSCRIBE, filters, retained store and replay, as one client sees them | one session with its loop, and the publishes and wills of others |
| `SessionTimers` | keepalive, retry timeouts, sleeps and rate limiter of one session | a ticking clock; stored instants are ages |
| `ConfigUpdate` | update pipeline, store, `ActiveSlotState`, power cuts | one action per store operation; a blob write has a beginning and an end |
| `ConfigRegister` | what the pipeline promises: one register whose version only grows | abstract specification |
| `ConfigCompiler` | `validate_config` and `compile_config` | operators on configurations, and a declarative reference (`WellFormed`, `ClosedImage`, `Partitioned`) |
| `ConfigPipeline` (extends both) | `prepare_update` with the compiler inside | `ConfigUpdate` whose compile step is decided by the configuration |
| `TlsWorkers` | accept task and worker tasks of the TLS firmware | one action per stretch between awaits |
| `TlsStream` | receiving: record layer, plaintext buffer and packet reader of one connection | records travel as header and body pieces; MQTT bytes are numbered |
| `TlsSend` | sending: handshake, frames, records, socket writes, close, drop of the socket | the nested write loops as one action per round; bytes are numbered |
| `*Proofs` | theorems about the module they are named after (`ConfigPipelineProofs`: about all of the configuration) | |
| `MC*` | instances for TLC | |

### PublishStore

`live`, `inflight`, `nextPid`, `store`, `nextGen` are the fields of
`SessionRegistry` and `SessionState` that QoS 1 tracking uses. An inflight list
is a set: its order decides only which of two entries with the same packet id a
PUBACK takes, and the model allows either. `sent_at` is reduced to "the timeout
has elapsed" (`due`). Entries carry the message they were made for as history.

`InflightCopies` has neither slots, generations nor reference counts: a session
has the publishes it was sent. `PrivateCopies` maps every entry to what its
handle finds in the store at that moment, so a slot that is freed or reused too
early shows as a copy that changes or vanishes.

### Broker

The program counter values of a connection are the places where
`connection_loop` can be suspended. Handlers that run under one lock without an
await are one action, including their trailing signal resets. What the peer
sends, whether a write fails, when a timer fires and what the rate limiter says
are free choices.

`OneExecutor` decides whether other tasks run in the gaps between two locked
sections. The library is generic over the mutex and says nothing of the
executor, so the passing runs set it to FALSE, the larger set of behaviours.
The firmware polls everything from one cooperative executor, so the runs that
show a violation set it to TRUE: their traces only switch tasks at real awaits.

`Takeover` decides whether a client may dial again while an earlier connection
of it is still open. The code has nothing that prevents this, and does not tell
the old connection. FALSE is therefore an assumption about the clients, made by
`broker_sessions` and `broker_live`; section 3 says what depends on it.

Frames are `[kind, qos, pid]`. Sizes are `small`, `edge` (fits the 192 byte
frame only without a packet id) and `large`. A subscription names a topic, and
a SUBSCRIBE or UNSUBSCRIBE has one filter: wildcards, several filters and the
frames of the retained replay are in `Subscriptions`, and here part of `Reply`.
The history variable `owner` (the connection a slot was last accepted for) is
read by properties only.

`FifoOutboxes` maps the outboxes to `Outboxes`. No run checks it; the theorem
`OutboxesAreFifo` does.

### Subscriptions

Topics and filters are sequences of levels; which levels contain `+`, `#` or a
leading `$` is given by constants. The loop of `topic_matches` over two
iterators is the search for the first pair of levels that ends it. The two
loops of `prepare_subscribe` and the loop of `apply_unsubscribe` are one action
per round (`Upsert`, `Collect`, `Unsubscribe`); as the locks are held all the
while, no publish comes between the rounds (`Locked`). The replay is cut at
`MAX_RETAINED` as its buffer is, and written message by message while others
publish. `SubscriberCurrent` speaks of the states in which no SUBSCRIBE is half
prepared, which are all that another task can see.

A publish sets the retained value and then encodes a frame for each subscriber.
A frame of more than 192 bytes ends `handle_publish` there, with the value
retained and nobody told from that subscriber on; `fits` is that choice, for
this session's frame or one before it. It is free for any payload but the empty
one: a topic that `RetainedStore::set` accepts (128 bytes) always fits by itself.

A will is published in two locked sections of `cleanup_connection`:
`RecordWill` retains it and records the sessions that subscribe to it,
`PushWill` pushes it to them, whatever they subscribe to and the store holds by
then. `OneExecutor` is the constant of `Broker`: if TRUE, nothing comes between
the two (`Undisturbed`), as on the firmware's executor, because the locks are
free and no await waits.

Three history variables are read by properties only: `view` (what the client was
sent), `missed` (topics whose newest value was not sent: outbox full, frame too
long or replay cut) and `late` (topics whose last message is a will that was
pushed after a newer value was retained or the session had unsubscribed).

Left out because no property tells them apart: the QoS of a replayed message,
which the code takes from the retained entry and not from the lower of that and
the granted one; drop counters and quarantine, which are in `Broker`. Messages
have QoS 0: a QoS 1 retry may send an older value again after a newer one, which
MQTT allows, and is in `Broker`, where messages have no values to compare.

### SessionTimers

An `Instant` is its age, which stops growing at `Horizon`; the assumption
`HorizonIsFar` says that no comparison of the code can notice. The limiter
counts whole seconds and forgets the rest of the time; `credit` is the exact
bucket next to it, as history. `MaxBusy` bounds how long the loop stays away
from its `select` (its writes have socket timeouts); a polite client sends
something at least every `keepalive_secs`.

### ConfigCompiler and ConfigPipeline

A configuration is a record of sequences with the fields the checks read.
Errors carry their kind only. `owner_of` looks at the first device with an id,
the checks run list by list and stop at the first error, as in the code. In
`ConfigPipeline` every version has a content (`plan`), and what an update does
depends on what the compiler says of it.

### ConfigUpdate

The store behind `ConfigStore` and the updater that calls `ConfigManager` are
not in the repository. Assumed of the store: an unfinished blob write leaves
something that `decode_enveloped` refuses (length or CRC), and the pointer is
written atomically. Assumed of the updater:

- it never takes the active slot as the candidate. Neither `begin_candidate`
  nor `prepare_update` tests this; the mutant `BeginCandidateAnySlot` shows
  that everything rests on it;
- it activates only what it has just prepared. `PreparedCandidate` is `Copy`
  and can be kept past a later preparation; `activate_prepared` cannot tell.

### TlsWorkers

`WORKER_BUFFERS` and `WORKER_SOCKETS` are `UnsafeCell`s. `busy` is the whole
protocol that protects them. After a failed accept the code clears the flag and
then sleeps 250 ms with both the socket and the flag's lock alive; this is
harmless because only the accept task, which is asleep, reserves workers.

### TlsStream

GatoPSKTLS is not in the source tree. Assumed of it: a record decrypts if its
header and body belong together and it is the next one under its key, else it
is an error. After a cut read the bytes in `record_buf` are arbitrary
ciphertext, so the record type read from them is a free choice, and a packet
that starts in the middle may be refused (`Misread`) or be taken for a packet.
Until the first packet a timer ends the connection (`ConnectTimeout`); only
after it do timers and signals drop reads and go on (`WakeUp`).
The history variable `cut` records that a read which had consumed something was
dropped.

### TlsSend

Three loops are nested: `write_packet` hands a frame to `TlsTransport::write`,
which makes records of up to `MaxChunk` bytes, and `TcpTransport::write` pushes
a record into the socket buffer as far as it goes. A record is a header cell
and a cell per byte, each with the number of its record. The peer (external)
collects cells and decrypts records that are whole and next in number. The
socket may fail, be reset or time out between any two of these steps.

## 3. Runs

Distinct states in parentheses.

| Run | Shows |
|---|---|
| `publish_store` (126615) | handles stay valid, counts are exact, the store fills before the lists, and the store refines `InflightCopies`; generations and ids wrap within the bounds |
| `broker_sessions` (994124) | a session stays with the connection it was accepted for, other tasks only add to it, no lost wake-up, all capacities hold; two clients with wills, QoS 0; no client reconnects while connected |
| `broker_qos1` (532716) | with retries under the lock and clients that reconnect while connected: one session per client, the retried entry stays and can be retried, and every step of the broker is a step of `PublishStore` (`PsSpec`) |
| `broker_live` (59778) | queued frames are written; a quarantined subscriber leaves once its outbox is drained; outbox, retained store and command channel fill up, and some frames do not fit; no client reconnects while connected |
| `subscriptions` (2074648) | replay, live traffic and wills together leave the client with the retained value, but for the named exceptions; return codes agree with the table; matching is MQTT's for every filter that gets into a table |
| `session_timers` (1200347) | the loop sleeps past no deadline, polite clients stay, silent ones end, the limiter admits no more than an exact bucket |
| `config_update` (354064) | the active slot is always bootable and boots a closed image; validation is exact; images partition the house; the pipeline refines `ConfigRegister` |
| `tls_workers` (9870) | exclusive buffers, no lost worker, no lost hand-off, the accept task comes back |
| `tls_stream` (578018) | packets come out whole, in order, once and eventually until a pending read is cut; after that bytes are lost but never repeated or reordered |
| `tls_send` (26094) | the peer decrypts a prefix of what was written, an Ok write is complete, close_notify follows whole records only, the socket is closed in the end, the worker comes back |

Four of the broker's properties hold only as long as no client reconnects
while it is connected (`Takeover = FALSE`). With `Takeover = TRUE`, TLC finds
counterexamples to each:

- `OwnerKeepsSession`: the run `takeover_resume`.
- `OthersOnlyAdd`: the CONNECT of the new connection gives the session another
  will while the old connection still serves it.
- `NoLostWakeup`: both connections serve the slot and share its signal. The old
  one consumes the signal of a frame, and the new one sleeps on. The frame is
  still written if the old connection gets to it first, but to the old peer.
- `OutboxServed`: the new CONNECT replaces the session, and with it the outbox.

`broker_qos1` checks what survives a takeover.

Two runs end in a counterexample: they state what a comment says and show what
the code does instead. The quotes are in `findings`.

| Run | What the trace shows |
|---|---|
| `takeover_resume` | a client resumes its session on a new connection; the old connection ends and its cleanup deletes that session |
| `record_cut` | after the first packet, a timer or signal fires between a record's header and body, and the next fetch joins pieces of two records |

Seen in the code while modelling, and part of the actions, but without a run:

- A QoS 1 publish with the retain flag that finds the retained store full
  (always, with `MAX_RETAINED = 0` of the TLS build) goes nowhere and is
  acknowledged (`PublishNotRetained`), although `handler/publish.rs:104` says
  of QoS 1 "must not silently drop — client expects PUBACK".
- Nobody empties `published_lwts`. Once it is full, the will of a displaced
  session is lost and the CONNECT fails after inserting a session
  (`ConnectReplace`); `docs/ARCHITECTURE.md:40` says "the old session is
  displaced and its LWT is queued for publication."
- After an alert of the peer, `close` finds the session closed and does not
  close the transport, and a faulty CONNECT makes `connection_loop` return
  without `close`; `transport/tls.rs:37` says "Send TLS `close_notify` and
  close the underlying stream." `EndsClosed` names both exceptions. The worker
  drops the socket right after `close`, with what its buffer still holds.
- A retained will that finds the retained store full goes to nobody
  (`CleanupWill`); will frames and the retained replay number their packets
  from 1 whatever is inflight (`LwtFrame`).
- The quarantine flag and the clocks are not looked at while frames keep
  arriving, which is why `QuarantineActsWhenDrained` and `SilentClientEnds`
  have a second disjunct.
- The replay buffer holds `MAX_RETAINED` messages, but two overlapping filters
  in one SUBSCRIBE can ask for more; `SubscriberCurrent` excuses what is cut.
- A publish with the retain flag whose frame is too long is retained, and then
  fails: later subscribers are told its value and present ones are not, until
  the next message (`Route`).
- Where tasks do not share one executor, a will may be pushed after a newer
  value of its topic was retained and pushed, and then stays with the client
  (`PushWill`). Without the exception for `late`, TLC finds this in ten states.
- A data record without data reads as the end of the stream, which is why
  `EofIsReal` names it; a CONNACK that cannot be written leaves the session
  behind (`Connack`).

What follows from the passing runs and the proofs about the code itself:
`MissingStoredPublish` cannot happen and the generation check never decides
anything (`RetryResendsOriginal`); the length test before `inflight_add` and
the fall-back after it are never needed (`StoreFillsFirst`). From reading alone,
without a property: the branch of `prepare_connect` that queues a will when the
registry is full is dead, because a displaced session has just made room.

### Bounds

- Two connections and two sessions: the hazards are races of one connection
  with one other. Two clients where sessions must be told apart, one client
  where it takes over its own session.
- `publish_store` has two sessions that share publishes, two store slots, three
  generations and one packet id, so that generations wrap and slots are reused
  while handles are held, and ids collide. Two retries, so that an entry is
  retried more than once.
- Outboxes of one or two frames: full, empty and in between. `MaxInflight` is 0
  (TLS build) or 1, `MaxRetained` 0 (TLS build) or 1, the command channel 1,
  one retry.
- `MaxOutboxDrops` and `DropsCap` of 1 or 2 reach the quarantine and the
  saturation of the counter. `broker_qos1` has 0: as with 1, the first drop
  quarantines.
- `subscriptions`: two topics, five requests of which one must be refused, two
  per packet, a table of two, a replay buffer of two and an outbox of one, so
  that table, replay and outbox all overflow; reserved and empty levels are
  probed by matching only. One topic has two values, a deletion, messages
  without the retain flag and wills, one pending at a time; the other has one
  value, enough to fill the store and the outbox. `OneExecutor = FALSE` is the
  larger set of behaviours.
- `session_timers`: half-second ticks, keepalive 2 s with 1 s of grace or none,
  retries after 1.5 s, a bucket of one token; `u8::MAX` is 3 so that it
  saturates.
- `config_update`: a factory configuration and one candidate out of about 2700,
  most of them wrong in one or more ways; every check fails for some and passes
  for others. The device is the zone board, so that it may be missing.
- `tls_send`: three frames of one to four bytes, records of up to two, a socket
  buffer of three cells: frames span records and records span socket writes.
- Three workers: one serving, one being handed a socket, one free.
- Packets of two bytes over at most five records of none to three bytes:
  packets span records and records span packets. Two records are the handshake's
  and one may hold the first packet, so that two are left for a read to be cut.
  `record_cut` has six records of one byte.
- Symmetry over connections and clients in safety runs only. `broker_qos1` tells
  states apart without the history variable `owner` (`NoHistory`), which neither
  an action's guard nor a property of that run reads.

### Fairness

`Progress(c)` of the broker is weakly fair: writes end (30 s socket timeout),
timers fire, woken tasks are polled. Nothing is assumed of peers. Weak fairness
is enough because the liveness run has `MaxInflight = 0`: no lock is held
across an await. In `TlsWorkers` the accept task's timers and the workers' own
steps are fair; arrival of clients, the end of a handshake and the end of a
connection are not, since a silent peer can delay them. In `TlsStream` the
reader is polled when bytes have arrived. In `SessionTimers` the clock, the loop
and the reading of packets are fair, the client is not. In `TlsSend` the worker
goes on by itself, the socket takes bytes while it has room, and a full buffer
that the peer does not empty times out (`set_timeout`); the peer is not fair.

Deadlock checking is off only where the system may stop: a stream, a session or
a connection after its end.

## 4. Proofs

`PublishStoreProofs`, for any number of sessions, store slots, messages and any
counter widths, from `ConstantsOK` and `RefcountFits` (no more sessions than a
reference count can hold; the builds have at most ten):

- invariant `PsInv`: types; vacant sessions have no entries; every entry points
  to an occupied slot with its generation and message; a session has at most
  one entry per slot; the reference count is the number of holders, and zero
  just for vacant slots; inflight lists are finite and bounded. The plain
  properties are not inductive: exact counts need that a session holds a slot
  at most once (else its removal would release it twice), and valid handles
  need exact counts (else the last release might come too early).
- `PsTypeCorrect`, `RetriesResendOriginal`, `RefcountsExact`, `NoPublishLeaks`,
  `StoreFillsBeforeLists` and the action property `SlotReuseVisible` (no step
  puts one publish in the place of another). `NoLeakedPublish` and
  `SlotReuseIsVisible` are proved only; no run checks them;
- `StoreActsAsCopies`: the store refines `InflightCopies`. For every action the
  view of each session is followed entry by entry (`CopyStep`): what it does to
  others' references leaves the slot a session still holds as it was, which is
  what the exact counts of `PsInv` are needed for.

`BrokerProofs`, for any number of connections, clients, topics, wills and
sessions, any capacities, and either kind of executor, from `BrokerConstantsOK`
and the assumptions of `PublishStore`:

- `BrokerImplementsStore`: every step of the broker is a step of the store or
  leaves it alone, so the theorems of `PublishStoreProofs` hold in the broker.
  `BrokerStoreSound` and `BrokerSharesInvisibly` state them there;
- `BrokerTypeCorrect` (every bounded queue and table stays in its bound),
  `OneSession` and `RetriesHoldEntries`, whether or not clients dial twice. The
  invariant `BrokerInv` adds that a connection at work has a slot number, and
  that whoever is in a retry write holds the lock;
- `OwnersKeepSessions` and `NoWakeupLost`, from the further hypothesis
  `Takeover = FALSE`. The run `takeover_resume` shows that the first needs it.
  The invariant `Alone` says of every connection, cleanup included, that it has
  the session of its client, that connected clients differ, and that a frame
  in the outbox has its signal raised from the flush that found the outbox
  empty until the wake-up. It is stronger than the two properties: that nobody
  touches a session while its connection is in the loop follows only from what
  the cleanups of the others still hold;
- `OthersOnlyAdds`, from `Alone` too: a step that does not move a connection
  takes nothing from its session. It covers the inflight list, of which
  `broker_sessions` (with `MaxInflight = 0`) has no instance;
- `OutboxesAreFifo`: the broker refines `Outboxes`, whether or not clients dial
  twice. The invariant `VacantEmpty` (nothing is queued in a vacant slot) is
  needed because cleanup blanks its slot also when the session has gone.

`ConfigPipelineProofs`, for any set of slots, version width, board and plan of
configurations of any size:

- of the update machine: types, `ActiveSlotAlwaysIntact` and the refinement
  `UpdatesAreAtomic`. The invariant `CfgInv` adds what each step of the updater
  has completed so far, that candidate and active slot differ, and that
  `ActiveSlotState` agrees with the store;
- of the compiler: `ValidationExact` (the checks in their order accept just the
  well-formed configurations; the argument goes list by list, and uses that ids
  are unique by the time an owner is looked up), `ImagesClosed` and
  `ImagesArePartition`;
- of the pipeline: `PipelineUpdates` (it implements `ConfigUpdate`, so what is
  proved of that holds here), `BootsClosed`, `CandidatesJudged`,
  `CandidatesPartitioned`, `StateAgreesWithStore` and `PipelineAtomic` (the
  register again, with the compiler inside). The invariant adds that every
  compiled blob in the store was accepted by the compiler.

`SubscriptionsProofs`, for any topics, filters, requests, payloads and sizes,
from `SubscriptionConstantsOK`:

- `TableIsExact`. `MatchingIsExact` shows it of single filters: the place where
  the loop stops exists (a set of numbers has a least element), and for a valid
  filter `#` can only be the last level;
- `AnswersAgreeWithTable`. By itself it is not inductive: a refused filter might
  get in later in the same packet. The invariant adds that a valid filter is
  refused only while the table is full, that a packet which adds never removes,
  and that the table holds no filter twice;
- `SubscriberStaysCurrent`. The invariant `CurrentBut` holds inside
  `prepare_subscribe` too: a retained entry that does not arrive yet is still to
  be compared with a new filter that matches it (`Pending`), and no message about
  it waits in the outbox, which would overtake the replay. For the latter,
  `QueuedOK`: after a flush the outbox has retained messages only for topics in
  the table, until an UNSUBSCRIBE, after which it is flushed again, or for
  topics whose will came late. The store holds no topic twice, so that a
  replayed entry does not hide another. A will that is yet to be pushed counts
  as on its way as long as its value is the retained one. `WillsInTime` shows
  that with one executor no will comes late (the will that is due is the newest
  value of a topic in the table, `InTime`), so that this exception is only
  needed without it.

`TlsStreamProofs`, for any packet length, number and content of records:
`PacketsArriveIntact`, `BytesKeepOrder`, `EofComesFromPeer`, and
`RecordsWholeUncut`, which says that the cut read alone causes what the run
`record_cut` shows. The invariant `StreamInv` takes all that is on its way as
one sequence in which heads and bodies alternate and whose bytes are numbered
without a gap; what the reader holds is increasing and smaller, and until a read
is cut it is all that came before.

`TlsSendProofs`, for any number and length of frames, record size and socket
buffer: `PeerReadsAPrefix`, `OkIsSent`, `NotifyMeansComplete` and
`ConnectionsEndClosed`. The invariant `SendInv` follows one stream of cells from
the record that is being written through the socket to what the peer has of an
incomplete record: each cell continues the one before it (`Link`). What makes it
delicate is that `close` writes its alert after a write that failed half way, so
that the stream has a gap before its last cell; the record numbers then keep the
peer from taking the alert for an orderly end (`MayEnd`). `WorkEnds` is the part
of `WorkerReturns` that needs no fairness: a measure of the work a busy worker
has left (`WorkLeft`) that each of its steps lowers, so that none of the nested
loops goes round without getting anywhere.

`SessionTimersProofs`, for any clock rate, capacities, timeouts and clients:
`LimiterBounded`, `WakesInTime`, `PoliteClientsStay`. The invariant relates
tokens and time since the last refill to the exact bucket (`Covered`), the age
of the last activity to the client's silence and to the time the loop has been
busy, and the sleep to every deadline.

`TlsWorkersProofs`, for any number of workers: types, `BuffersNeverShared`,
`WorkersNeverLost`, `HandOffsNoticed`. The invariant adds that every socket is
covered by a set busy flag, except during the back-off, which also shows that
the flag's mutex is never contended.

Model-checked only: the liveness properties (`OutboxServed`,
`QuarantineActsWhenDrained`, `SilentClientEnds`, `HandOffServed`,
`KeepsAccepting`, `PacketsDelivered`, `WorkerReturns`), as fairness and ENABLED
are outside the prover's reach.

## 5. Not modelled

- `tls/mod.rs`, the certificate identity: load, or generate and save. Nothing in
  the firmware calls it (the builds use a pre-shared key or no TLS), it is
  sequential, and the store it would tear is not in the repository.
- Radio and network bootstrap with its Wi-Fi reconnect loop: calls of esp-radio,
  whose events the repository does not define.
- Packet layouts: they are mqttrs', an external crate. The remaining-length
  digits of `codec/frame.rs` are taken as read by `TlsStream`.
- GatoPSKTLS (not in the tree): what the adapter relies on is assumed.
- Byte layout and CRC of configuration envelopes: a blob is empty, torn or good.
- Host tools, and the vendored copy of spin 0.5.2, which no manifest refers to.
