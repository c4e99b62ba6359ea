# A formal model of lightstage-server-rs

This directory is a TLA+ development kept beside the light stage server: modules
translated from the Rust sources, TLC configurations that model-check them on
small stages, and theorems that hold for stages of every size, checked by TLAPS.

The server drives a light stage, a dome of RGB and white fixtures on arcs. It
finds the power supplies (PDSs) of the arcs on the network, sends each a DMX
universe many times a second, and triggers DSLR cameras with a GPIO pin in step
with what the fixtures show. Clients choose what is shown over REST and
WebSocket. What must not go wrong is the coupling of the three: *every photo is
taken exactly once, and under exactly the light it was meant for*, although
clients change the stage at any time, the network loses datagrams and the
operating system is late.

All paths below are relative to the repository's root.

## 1. Inventory

| Part | Source | State | Operations |
|---|---|---|---|
| Stage state machine | `lsserver/src/state.rs` | `StageState`: runtime mode (Demo, Manual, OLAT, Playback) with its animator and capture session, renderer, baked frame, event sender | `advance_tick` (network thread); `try_transition_to`, `update_rgb_and_white_*`, `request_manual_capture` (handlers) |
| Animators | `lsserver/src/animator/` | OLAT: arc, light, done. Playback: sequence, index. Demo: none (wall clock) | `tick` |
| Renderer | `lsserver/src/renderer.rs` | fixtures of every arc | `update` bakes fixtures into DMX universes |
| Frame timing | `network.rs:259-299`, `state.rs:60-95` | none | `CaptureConfig::validate`, `FrameTiming::calculate` |
| Network loop | `network.rs:464-551`, `301-379` | sub-tick counter, timing, copy of the frame, pending trigger, pin off time, next tick time | one turn: release pin, tick, broadcast, shutter, sleep |
| Discovery, target map | `network.rs:66-257` | known PDSs, map universe -> address | poll, collect replies, validate |
| Heartbeat and watchdog | `network.rs:390-462, 554-608` | last reply of each PDS, last health report | send poll, receive reply, check |
| API service layer | `api/mod.rs`, `api/rest.rs` | `Arc<RwLock<StageState>>` | validation, then one call under the lock |
| WebSocket sessions | `api/ws.rs` | receiver of a broadcast channel of 100 events (`main.rs:64`) | `select!` between commands and events |
| Sequence store | `api/sequence.rs` | two files per id on disk | save, load, list, delete |
| KiNET codec | `kinetrs/src/packet.rs`, `payload.rs` | none | read and write of packets |
| Broadcaster | `network.rs:301-379` | packet buffer, sequence number | one datagram per universe |
| Addressing | `fixtures.rs`, `renderer.rs`, `main.rs` | DMX universes | write fixtures at their addresses |
| Configuration | `config.rs` | none after start | defaults, command line, bounds checks |
| Entry point | `main.rs` | none | register fixtures, start threads |

### How the parts interact

- `StageState` is shared by an OS thread (the network loop) and the async
  handlers through one `RwLock`. Each of its mutating methods runs under the
  write lock from entry to return, so methods are atomic with respect to each
  other. The lock is *not* held between the tick that renders a frame and the
  broadcast and shutter release that use it: the thread works on a copy.
- Stage events (`ModeChanged`, `CaptureFinished`) go into a bounded broadcast
  channel, read by one session per WebSocket client.
- The loop talks to power supplies by UDP and never waits for an answer. Two
  more threads of control, the heartbeat sender and receiver, share the socket.
- Sequences are read from disk before the stage's lock is taken.

### What is hard here, and what correct means

| Part | Hard behaviour | Correct when |
|---|---|---|
| Stage | calls of two actors in any order; session counters and animator cursors kept twice; stale fixtures of an earlier mode | cursor and session agree; a capture shoots exactly its frames and then announces its end; nothing is announced for a capture that was replaced |
| OLAT, playback | wrap of nested cursors; sequences of any shape | the n-th frame shows light n alone, or stored frame n |
| Timing | rates of clients, quotients and rounding | a frame gets at least one packet, no rate asks for a tick shorter than `refresh_rate_ms` |
| Loop | a frame is sent several times but shot once; mode changes between send and shutter; lost datagrams; stalls | the shutter sees its own frame, once; what is set reaches the wire; lost time is not made up for with a burst; the pulse follows the last shutter |
| Discovery | lost, repeated, late, contradictory replies | the map is complete and one-to-one when the loop starts |
| Heartbeat | reply against the check | one report per change of health |
| Sessions | lag behind 100 events, answer against event | a client that stays connected has seen every event |
| Store | crash in a write, two files per id, delete in two steps | a listed sequence loads, and is the one that was saved |
| Service layer | load before the lock; indices checked before it; clients that leave | a saved sequence plays as saved; no request poisons the lock; uploads finish |
| Codec, broadcaster | one receive and one send buffer reused; malformed datagrams; octet orders | a supply is known as it answered; it shows its own universe of one moment |

The hazards are listed line by line in `PROJECT.json`, each with the properties
that would notice it.

## 2. Modules

| Module | Stands for | Role |
|---|---|---|
| `FrameTiming` | `CaptureConfig::validate`, `FrameTiming::calculate` | operators |
| `Config` | `ServerConfig`, `validate_arc`, `validate_fixture` | operators |
| `KinetCodec` | `kinetrs`: headers and payloads | operators |
| `DmxLayout` | `fixtures.rs`, `Renderer::update`, addresses of `main.rs` | operators |
| `CaptureContract` | what a capturing client may rely on | abstract specification |
| `Stage` | `StageState`, animators, renderer | the component; one action per method |
| `NetworkLoop` | `NetworkManager::run` | the thread, composed with `Stage` |
| `Discovery` | `NetworkManager::new`, `discover_pds`, `map_and_validate_targets`, `start` | what happens before the loop runs, over `KinetCodec` |
| `Broadcaster` | `DmxBroadcaster` | datagrams, composed with `Discovery` and `DmxLayout` |
| `Heartbeat` | `spawn_heartbeat_monitor` | two threads and the supplies they watch |
| `WsSession` | `api/ws.rs`, the broadcast channel | sessions, composed with `CaptureContract` |
| `SequenceStore` | `api/sequence.rs` | handlers that share a directory |
| `StageApi` | `ApiState`, the handlers of `api/rest.rs` | requests, composed of `Stage`, `SequenceStore` and `Config` |
| `StageProofs`, `NetworkProofs`, `SequenceProofs`, `DiscoveryProofs`, `BroadcasterProofs`, `HeartbeatProofs`, `SessionProofs`, `ApiProofs` | | theorems and proofs |
| `MCStage`, `MCNetworkLoop`, `MCBroadcaster`, `MCSequenceStore`, `MCStageApi` | | instances for TLC |

`NetworkLoop` EXTENDS `Stage`: the thread's tick *is* `AdvanceTick`, and every API
call of `Stage` may come between two steps of the thread. `WsSession` EXTENDS
`CaptureContract` instead, which is sound because `Stage` implements it, and
keeps fixtures out of a model about events. `StageApi` EXTENDS `Stage` and takes the
store as an instance whose sequences are the stage's library. `Broadcaster` EXTENDS
`Discovery`: the loop's datagrams go where the validated map says.

### Stage

The variables are the fields of `StageState`: `runtime` (`RuntimeMode`, a record
whose fields depend on its mode), `renderer`, `current_frame`; and two that
stand for what leaves a call: `tick_result`, the value of the last
`advance_tick`, and `emitted`, the events the last call sent. Every method is
one action because it holds the write lock throughout: `AdvanceTick` is
`advance_tick` with the branch of each mode (`TickManual`, `TickDemo`,
`TickOlat`, `TickPlayback`), the other methods are the disjuncts of `ApiCall`,
with the requests that pass the validation of `api/mod.rs` (indices of existing
fixtures). Rates are not validated there, nor are stored sequences, so `Rate`
and `Library` contain bad ones and the model refuses them where the code does.

Data is abstracted to what the properties can tell apart. The three channels of
a fixture are one `Level`; a universe maps base addresses (`6 * light + 1`, as
`main.rs` registers fixtures) to levels. `DemoPattern` is the set of states the
sine waves of the demo may leave. The steps of `OlatAnimator::tick` read and
write its cursors exactly as the code does, including the order of wrap and
done test; so does `PlaybackAnimator::tick`, which writes only fixtures that
both the frame and the stage have.

`CaptureContract` has no fixtures and no animators: a mode, the number of frames
left, whether a manual trigger is queued. `Stage` implements it under the
mapping `left <- total_frames - current_frame_idx` (`ContractSpec`).

### NetworkLoop

The thread has a program counter. A step is what happens between points at
which time passes or the lock is taken: `ReleasePin` -> `Tick` -> `Broadcast` ->
(`Fire` ->) `Pace`. `Request` is an API call between any two of them, so mode and
fixtures may change after the frame was rendered and before it is sent or shot.

- *Time* is in milliseconds. `lead` is `next_tick_time - now`, `off_in` the time
  left until `pin_turn_off_time`, both shortened by what passes: `Stalls` before a
  broadcast (a late lock, a slow send), `SettleMs` before the shutter, the sleep
  of `Pace` and `Oversleeps` past its end.
- *Loss*: a broadcast reaches every supply except those of a set in `LossSets`.
  `send_to` errors are ignored by the code, and so is the difference between an
  error and a lost datagram here. `wire` is what each supply received last.
- *Pin*: `HasPin` is `trigger_pin.is_some()`. `GpioOutcome` is what `set_value` may
  return; the code goes on in both cases, and so does the model.
- *History variables* (`refreshes`, `shot`, `fired`, `lost`, `queued`,
  `since_fire`) are written and never read by the steps; the properties need
  them. `refreshes` starts at the count of a finished frame, since the black
  frame before the first tick is not sent. `queued` stands for supplies that take `RefreshMs` for
  each packet: how long they are busy yet with those sent so far. It is kept as a
  distance from the present, as the deadlines are, so there is no clock.

### KinetCodec, DmxLayout, Config

These are the pure parts, octet by octet where octets matter. A payload is a list
of fields with a width and a form: an integer, reversed on the wire; raw octets; a
reserved field, refused unless it is zero; or one that is written as zero and never
checked. `SizesMatch` holds the stated sizes against the fields. `ReadFrom` makes the
checks of `read_from` in their order. The characters of a label are one
opaque octet, and `Words` says what splitting and parsing make of it. `DmxLayout`
writes a colour, three 16-bit values, most significant octet first, at a fixture's
address; `LayoutAssumption` is what `main` unwraps, that every fixture fits its
universe. `Config` has the defaults, the conversion from the command line with its
division, and the bounds checks; the instances of `NetworkLoop` take their refresh
period and pin from it.

### Discovery

`ClaimPin` and `Bind` are `new` and `get_local_kinet_ip` with their errors; `Poll`,
`ReceiveReply`, `ReceiveNoise` and `EndWindow` are the attempts of `discover_pds`,
`Start` is `map_and_validate_targets` with what `start` does of its result. The replies the
supplies of an installation may give are chosen once; any of them, and any datagram
of `Noise`, may be received any number of times while the socket is read, which
stands for loss, delay and repetition at once. A datagram goes through the one
receive buffer and is parsed by `KinetCodec`. A supply that is relabelled while it is
looked for may give two replies. Noise is what does not read as a reply
(`DiscoveryAssumption`): a datagram that does is one, whoever sent it. Where the code
has a `HashMap` the model says what the inserts leave: the last entry of each key, and a duplicate if an address differs
from the one it replaces.

### Broadcaster

A turn copies the frame and writes the header (`BeginBroadcast`), then writes and sends
one universe after the other from one packet buffer (`SendUniverse`), and counts
(`EndBroadcast`). Between any two, handlers and animators may change the fixtures
(`SetFixtures`). A datagram may be lost. `received` is what stands at each address;
`look` and `reached` are history variables. `BeginBroadcast` may keep the frame it
has, as the later packets of a slow capture do; when that happens is `NetworkLoop`'s
subject.

### Heartbeat

`Note`, `Judge` and their actions are the receiver and the watchdog, each atomic
because it holds the lock. The supplies are the environment: a heartbeat every
`Interval`, late by up to `MaxDelay` or lost (a supply that is off loses them
all). The receiver thread itself never waits.

### WsSession

A session is where its task is: at the `select!`, or awaiting a send. A command
executes under the lock and then waits to be answered, so further events pile
up in `backlog`. The channel is external and follows tokio's documentation:
bounded, never blocking the sender, overwriting the oldest event and telling
the receiver once. Commands that fail to parse are `Refuse`, and so are
those on sequences, which leave the stage alone. `Publish` and the contract's
action are one step because `StageState` sends under its lock, and
`subscribe` takes it too. `due` is a history variable.

### SequenceStore

Handlers take no lock around the store, so every call on the file system (create,
write, last flush, `exists`, open and read, a directory entry, remove) is a step of
its own, and `Crash` may come between any two. `task` is what a handler's call
stack holds; a file is `Absent`, a whole sequence, or `Partial`, which both
decoders refuse. `FlushOutcome` is what the writes made by dropping the encoder and
the buffer may return, `IoOutcome` the same of creating, writing and removing.
Reads fail only on files that are gone or incomplete. A crash is one of the
server: the operating system keeps what was written. Files that are no sequences
are left out. `stored`, `owed` and `deleted` are history variables: what was
promised to clients.

### StageApi

Requests that only need the stage are one step each, since they answer under its
lock (`StageRequest`), with the validation of `api/mod.rs` before it. An index that
validation let pass although the stage has no such fixture would panic in the middle
of an update and poison the lock (`PanicInUpdate`), after which neither handlers nor
the network thread get it again: the model has that outcome so that the run can show
it never happens. Requests on sequences take the steps of the store; `request` says
what each handler is at. A playback is loaded first (`Work`) and started under the
lock by a later step (`Play`), when others may have changed both the directory and
the mode. `Leave` is a client that goes away during its upload: axum drops the
handler, but the write goes on, on a thread of its own. The directory belongs to
the store alone, so that composing it with the stage changes nothing it does.

### Where discovery meets the loop

The loop starts only if discovery found a supply for each kind of each arc
(`map_and_validate_targets`), so `Supply` is all of them. `Broadcaster` checks the two together.

## 3. Runs

| Run | Question | Instance |
|---|---|---|
| `stage` | do the animators stay in step with their sessions, do frames show what they should, does the stage implement the contract? | 2 arcs of 2 lights; sequences that fit, are partial, too long, empty, or have a refused rate |
| `stage_trigger` | does a queued manual trigger survive a fixture update? It does not (finding) | same |
| `network_frames` | does each shutter release see its own frame once, under losses and concurrent requests; do captures end and updates arrive? | 2 arcs of 1 light, 10 Hz (1 packet per frame) and 4 Hz (2 packets), one supply lossy, clock on time |
| `network_timing` | does the pulse follow the shutter, is the tick within the supplies' range, do packets pile up, do frames keep their rate, under stalls, late wake-ups and a pin that fails? | 2 lights, 10, 3 and 1 Hz (1, 3, 10 packets), stalls of 0, 40, 300 ms, wake-ups 0 or 5 ms late, pulse 300 ms |
| `supplies` | is the target map complete and unambiguous, is a sound stage accepted, does discovery end, and do lights show what the stage holds? | 1 arc of 2 lights; six installations of two to four supplies, one with two labels at one address; two kinds of noise; 3 attempts; two looks |
| `discovery_retries` | does discovery stop when all have answered? It does not (finding) | same |
| `heartbeat` | is loss noticed in time, without false alarm, and taken back? | 2 tracked supplies, 1 stranger, units of 10 s: interval 9, delay 2, limit 20 |
| `sessions` | is a connected client up to date, and has it missed nothing? | 1 session among ticks and other clients' requests, channel of 2 events |
| `store` | do saved sequences stay, are they found, do deleted ones stay away? | 2 handlers, 2 identifiers, 2 contents; empty directory or an identifier with one or both files |
| `api` | does an uploaded sequence play as uploaded, does every upload finish, can a request poison the lock? | 2 handlers, 2 identifiers, 1 light, an accepted and a refused sequence, indices one past the end |
| `store_flush` | the same for a last flush that may fail: saved sequences do not stay (finding) | same |
| `network_edge` | is each trigger an edge on the pin? It is not (finding) | same |

**Why these bounds.** Two arcs and two lights make both wraps of the OLAT cursor
happen with something before and after each. Three stored frames include one
with fewer and one with more arcs and lights than the stage. The runs keep all
modes and transitions between them. In `network_frames` time is exact, since
frames and losses do not depend on it, and the pulse is 200 ms, two ticks, which
keeps the number of its remaining times small. `network_timing` has no stored
sequences and no fixture updates, because nothing timed depends on frames; its
stalls are one shorter than a tick and one of several ticks, as long as its pulse, which
spans three ticks. No variable needs
an artificial bound (`age` and `missed` of `Heartbeat` and `due` of `WsSession` stop
at values beyond which nothing changes): counters are bounded by sessions and by the wrap, times by
the two sets of delays. `CHECK_DEADLOCK FALSE` is only said of the runs of `Broadcaster`, where a failed
discovery ends. In `heartbeat` the watchdog's 5 s are one unit of 10 s, looking at most one
unit late; the numbers of the code that the property depends on (90 s, 200 s) are
exact in that unit. Sessions share nothing but the stage, and any request of
another session is a `RestRequest` to this one, so one session stands for all; a
channel of two events lets one tick (`CaptureFinished`, `ModeChanged`) fill it and
the next event overflow it.
In `store` two
handlers give every pair of operations, and two identifiers let one be written or
deleted while a list passes both; an instance with three (7.9 million states) shows
the same but takes too long to be run each time. The outcome of the last flush is
a constant so that the rest can be checked of a disk that takes it. In `supplies` one
arc has two universes, enough for datagrams to go wrong between them; a universe has
13 channels, one more than its two fixtures need, so that an address off by one
shows, and sequence numbers wrap at 2, since only their wrap matters. Its looks give
every octet a different value. In `api` the store is without crashes
and failed writes, which `store` covers; the two handlers are symmetric. Its stage has
one light, as cursors are `stage`'s subject.

**Fairness.** `NetworkFairSpec` has weak fairness of the thread's next step: the
operating system schedules the thread, and a handler that holds the lock only
executes code without waiting and gives it back. Handlers have no fairness:
clients need not call. `BroadcasterFairSpec` has weak
fairness of discovery's own steps: windows end by the clock. Strong fairness of `Send({})` says that a broadcast that
is tried for ever reaches all supplies infinitely often; without it a network
that is down for ever would refute `UpdateReachesWire`. The two liveness
properties speak of times at which clients are quiet (`RequestsEnd`), because a
client that restarts captures for ever rightly keeps the stage busy.

## 4. What the runs show

- `SessionTracksCursor`: the count in the session and the cursor in the animator,
  which the code updates in different functions, never disagree.
- `OlatOneLight`, `PlaybackShowsFrame`: frame n is light n alone, or stored frame
  n, whatever the renderer held before.
- `ContractSpec`: `StageState` implements `CaptureContract`; in particular events
  are sent in the order `CaptureFinished`, `ModeChanged`, and only then.
- `ShutterSeesItsFrame`: at the n-th shutter release of a capture the shutter
  was released exactly n-1 times before and the supplies that received the last
  broadcast show light n, although clients may have changed the stage since.
- `FinishedMeansAllShot`: `CaptureFinished` comes after every frame was shot.
- `ExactRefreshes`: a frame is broadcast exactly `sub_ticks_per_frame` times,
  across changes of mode and rate.
- `PinFollowsPulse`: the pulse starts again with each release and ends in the first turn
  after its time, whenever the pin takes what is written to it.
- `NoBurst`: a supply that takes a refresh period for each packet never has more than one
  waiting behind the one it is at. That is all that holds of the distance of packets: a
  turn that is held up sends late, and the next packet may follow at once
  (see below), but an overrun moves the deadlines, so no further packets follow to make
  up for the time lost.
- `RefreshConfined`, `RateKept` are about the tick the loop aims at, not about when packets
  leave: whatever rate a capture asks for, it is at least a refresh period and less than
  two, and the ticks of a frame add up to what the frame should take, up to the
  rounding to milliseconds.
- `CaptureEnds`, `UpdateReachesWire`: liveness as above.
- `UniversesServed`, `OneUniversePerSupply`: the loop never starts with a universe
  that has no supply, or two at different addresses, nor with a supply under two
  labels. `SoundStageStarts` is the converse: a sound stage that was heard is
  not refused. `HeardAsSent`: what earlier or malformed datagrams left in the receive
  buffer never ends up in a supply's address or label.
- `OnlyServedSupplies`, `ShowsOneLook`: DMX goes to the stage's own supplies only, although
  the map keeps others, and what their lights show, decoded from the datagram, is
  the stage at one moment, the same for all, whatever is changed while it is sent. Where
  supplies of different labels claim one address, which nothing checks, the light shows
  one of their universes, and that one whole.
- `NoFalseAlarm`: the limit of 200 s is exactly enough for one lost heartbeat and
  20 s of delay; `LossNoticed`, `ReportsTakenBack`: reports come and go in time.
- `NoEventSkipped`: a client that lags is disconnected rather than left with a gap;
  `ViewIsCurrent`: a client whose session is idle has the current mode.
- `SavedIsOnDisk`: if the last flush succeeds, what was answered with success
  survives crashes, other saves and partial failures. `ReadersFindSaved`: loads and
  lists find it, whatever else is written, half-written or deleted while they look.
  `DeletedIsGone`: a deletion that succeeded has removed both files, also against
  another deletion or a save under way.
- `UploadsCanBePlayed`: a request to play finds what was uploaded unless it is deleted
  during the load, and between the load and the lock no other client makes the playback one
  of something else, or none, not even by deleting the sequence; `UploadsFinish`: a file that is not complete has a writer, even
  if its client has left; `LockNeverPoisoned`: validation stops every index that would
  panic under the lock.

### Findings

1. **A fixture update drops a queued trigger** (`stage_trigger`). Every update
   enters Manual anew with `capture_requested: false` (`state.rs:350-358`,
   `305-309`), also if the stage was in Manual with a trigger queued and the
   client was told so (`state.rs:456-469`).
2. **Triggers can merge on the pin** (`network_edge`). The pin is held for 500 ms
   and a trigger in that time extends the pulse (`network.rs:524-531`), so above
   2 Hz the cameras get one edge for several frames, although captures of up to
   30 Hz are offered (`network.rs:8-10`). Whether cameras need an edge depends on
   how they are set up (a held line is burst shooting); the model only shows
   that one trigger is not one pulse.

3. **Discovery never stops early** (`discovery_retries`). With all supplies found it
   sleeps and polls again (`network.rs:173`), although the doc says it stops
   (`network.rs:72`).
4. **A save whose last write fails is answered with success** (`store_flush`). The
   encoder is finished, and the buffer flushed, by being dropped, which discards
   errors (`api/sequence.rs:118-123`): the client gets the identifier of a file that
   no reader accepts, although the doc says the sequence is saved to disk
   (`api/sequence.rs:111`).

Seen while modelling, and not the subject of a run: packets can come closer together than the
maximum refresh rate allows, since a turn that waits for the stage's lock
(`network.rs:497`) sends late, while its deadline stays or, if it has passed, is replaced
by the time after the broadcast (`network.rs:534-548`): held up for 300 ms at a tick of
100 ms it is followed by the next packet at once, and, held up for 40 ms, after only 60 ms, although
the refresh rate "must always stay confined within some limits" (`network.rs:261`), and
`NoBurst` says how far it can go; the heartbeat tracker also watches
supplies of arcs the stage does not have, since they stay in the map, although a
comment says "only valid targets" (`network.rs:434`); two supplies with different labels
at one address are both accepted, since only those under one label are compared
(`network.rs:212`), and their universes then replace each other; `read_from` is documented to
refuse invalid reserved fields, but the padding of `PollReply` and `DmxOut` is not
looked at; the period `1000 / r` is rounded down, so a "maximum" of 30 Hz gives 33 ms
(30.3 Hz), more than 1000 gives 0 ms and 0 panics at start (`config.rs:97`); sequences
sent over a WebSocket are written on the session's own task, not on a blocking thread
as those over REST.

## 5. What is proved

`tlapm` on each of the eight modules of proofs checks everything below, for every number
of arcs and lights, every set of levels, rates, sequences, batches and demo patterns,
every way to lose datagrams, every delay, every installation of supplies, and every
number of clients, handlers and identifiers. The assumptions are the named ASSUMEs of
the modules: the constants have their types, the channel has room for an event. What a theorem assumes beyond them is in its statement.

*StageProofs.*

1. `TypeCorrect`: `TypeOK` is inductive by itself (`TypeStep`). Its content is that
   the OLAT cursor never leaves the registered fixtures and that no session runs
   at a rate `validate` refuses.
2. `CursorCorrect`, `OlatCorrect`, `PlaybackCorrect`: the inductive invariant is
   `CaptureInv`, which adds `FrameIsRendered` (the frame is the baked renderer) and
   `SessionTracksCursor` to the two properties of frames: what a frame shows is
   known only if the cursor is at the frame the session counts. `CaptureStep` says
   what any step may do to a capture, so that each invariant has four cases
   instead of thirteen. `LightNumber` is the arithmetic of the nested cursor:
   `arc * LightsPerArc + light` numbers the lights without gap or repetition.
3. `StageImplementsContract`: `TickMapping` and `RequestMapping` map every step to
   one of `CaptureContract` or a stutter, under the invariants above.

*NetworkProofs.*

1. `NetworkRefinesStage`: every step of the loop or of a handler is a step of the
   stage or none, so the theorems above hold under the thread.
2. `NetworkTypeCorrect`: needs that `calculate` yields at least one packet and one
   millisecond for every valid rate (`SubTicksPositive`, `TickPositive`).
3. `RefreshesCorrect` from `TurnInv`, which says of every point of the turn what the
   property says at the tick.
4. `ShutterCorrect` and `FinishedCorrect`, for a server with a camera pin, from
   `ShotInv`. The property speaks of one point of the turn; the invariant has to
   say in addition that no trigger is left over when the turn ends, that the
   thread's copy shows the light of its number, and that a capture that has shown
   frames is the one the thread shot last. The last part holds because no
   request continues a capture (`RequestLeavesCapture`).
5. `PulseCorrect` from `PulseInv`, for a pin whose writes may fail: the time left and the
   time since the last release add up to the pulse, and the pin agrees with them
   whenever its last write succeeded.
6. `NoBurstCorrect` from `PaceInv`, for any stalls and oversleeps: the distance to the next
   deadline bounds what the supplies have left to do, so a packet finds at most one before
   it. It needs that the tick is not shorter than a refresh period (`RefreshConfined`).
7. Of the tick the loop aims at, `RefreshConfinedCorrect` and `RateKeptCorrect`: `TickConfined` bounds the tick of any
   valid rate by the arithmetic of its two nested quotients (`Quotient`), and
   `AdvanceTiming` says that a tick of the stage yields no other timing.

*SequenceProofs.*

1. `StoreTypeCorrect`: `StoreTypes` gives every step of an operation its own set of records,
   so that `TaskShape` reads off where a handler is what it holds. `FilesStep` says what a
   step may do to the directory: remove, complete, or create under an identifier
   nobody has used. All that follows rests on it rather than on the fourteen actions.
2. `GoneCorrect`, without further assumption, from `GoneInv`: a deletion that has turned
   to the second file has removed the first or found it missing, and what is missing
   under an identifier in use stays missing (`NothingAppears`).
3. `SavedCorrect`, if the last flush succeeds, from `SavedInv`: a file under way
   belongs to one save, a saved one stands alone under its identifier, and nobody who
   was asked to delete it is still at work. Without the condition it is false
   (`store_flush`).
4. `ReadersCorrect`, under the same condition, from `FoundInv`: a load of what is owed
   stays with the compressed form; a list has told of it, or its file is among the
   entries still to visit and its identifier has not been seen. The last part needs
   that it stands alone: the other form would hide it.

*DiscoveryProofs.*

1. `OneUniverseCorrect` from `RegisteredInv`: the supplies registered have distinct
   serials, and while discovery goes on these have been seen. It holds whatever the
   datagrams contain, so nothing about the codec is needed.
2. `UniversesServedCorrect`: `insert` compares each supply only with the one it replaces.
   That all supplies under a label are at one address follows by a pair of entries as
   close together as any that differ (`OneAddress`); `MappedEntry` says that the map
   holds an entry of the list under each of its labels.
3. `ReadsAsWritten`: for every kind of packet, `ReadFrom` returns the values `WriteTo` was given
   (what of them is read at all, `Kept`), for all values that fit their fields and whatever
   octets stand behind in the buffer; the lemmas below it are about any layout of fields.
   Offsets and packets are folds, and a fold is a value of a function on the sets of places
   (`FoldExists`). Arguments about all places go by the least one that fails (`Least`), since
   the library's induction cannot be used.
4. `DiscoveryTypeCorrect` from `DiscoveryInv`, which adds that the receive buffer is as
   long as it was made and holds octets (`BufferInv`).
5. `HeardAsSentCorrect`: a reply is read as its supply meant it (`ReplyRead`), whatever an
   earlier datagram left behind it, and so registered (`ReplyProcessed`); a datagram that is no
   reply changes nothing (`NoiseIgnored`). `WaysToRegister` says that there is no other way.
6. `SoundStageCorrect` from `SoundInv`: of a sound installation every supply that was heard
   and has a label is registered until the map is made, with `HeardAsSent` none but its
   supplies are, and so validation finds neither a gap nor two addresses (`SoundIsMapped`).

*BroadcasterProofs*, over any layout that `LayoutAssumption` allows, so for any number of
arcs and lights, any colours, and any loss.

1. `BroadcasterTypeCorrect` from `BroadcasterType`: frames and packets keep their lengths
   and hold octets.
2. `OnlyServedCorrect` from `MapInv`: what is known of the map from discovery
   (`DiscoveryInv`, `HeardAsSent`, `LabelsKept`) is true of the recipients of every frame.
3. `OneLookCorrect` from `BroadcastInv`. Below it is the layout: a colour written at a
   light's address is decoded there (`OneWritten`), and no other light's write touches
   it, because addresses are six apart and fit (`AddressFits`), so after the fold of
   `Update` every light is told its colour (`UpdateTells`). Above it: the frame and the
   thread's copy tell their looks; the header stands while universes are written behind
   it; what arrived last at an address tells one supply's universe of the look of the
   number it carries. The last part speaks of some supply at the address, because there may
   be two.

*HeartbeatProofs.*

1. `TypeCorrect`: `TypeOK` is inductive.
2. `LossCorrect` from `NoticedInv`: what has been over the limit for as long as the
   watchdog has slept is reported.
3. `NoFalseAlarmCorrect`, if the limit is two intervals and the longest delay at least,
   from `FlyingInv` and `AgeInv`: age and time to the next heartbeat add up to at most an
   interval, and one more for each heartbeat lost or on its way. The limit of 200 s and
   the interval of 90 s leave 20 s for the delay, which is the code's grace period.

*SessionProofs.* The inductive invariant (`SessionInv`) says two things of each session.

1. `Latest`, for `ViewCorrect`: whatever the stage announces ends with its mode
   (`StageAnnounces`), so a backlog does too, and the channel drops events in front.
   Behind an empty backlog the client is being told the mode or knows it.
2. `Owed`, for `NoSkipCorrect`: what is due begins with the event being sent, and goes on
   with the backlog unless the session has lagged.

A step of one session, and what the channel does to the others (`PublishEffect`), are
separate lemmas, so the number of clients never matters.

*ApiProofs.* The store's lemmas are used through an instance of `SequenceProofs`.

1. `LockCorrect` from `NoPanic`: what passes validation is an arc and light of the stage,
   for single updates and for batches.
2. `ApiTypeCorrect` from `BusyInv`: a request tells where its handler's task can be, so a
   handler that plays has loaded one sequence of the library.
3. `ApiRefinesStage`: every step is a call of the stage, a tick, or nothing to it. A
   request rejected for its index is to the stage what one for a refused rate is; the
   theorem assumes that there is one.
4. `UploadsCorrect`, if no call fails and no file is half written to begin with: every
   file that is not whole has its save under way. Handlers that save nothing only remove
   files (`OthersKeepFiles`).
5. `PlayedCorrect`, if the last flush succeeds, from `BusyInv` and the store's `GoneInv`,
   `SavedInv` and `FoundInv`. A play leaves the store alone (`PlayKeepsStore`) and every other
   step is one of the store or none (`StoreNext`), so the store's invariants hold here too;
   a handler that has loaded keeps the one sequence it has until it plays it (`LoadedKept`).

*Only model-checked:* liveness (`CaptureEnds`, `UpdateReachesWire`, `DiscoveryEnds`,
`ReportsTakenBack`, `ViewSettles`), which is out of the prover's reach. Every safety
invariant and every action property of a run that passes is also a theorem. What recursion
computes is reasoned about through the graphs of folds, as said above.

## 6. Not modelled, and the plan

Not modelled: logging, self-update and the parsing of arguments (`main.rs`), the HTTP
framework and JSON, compression, the sine waves of the demo, addresses and paths of the
configuration, which are passed on unchanged. `f64` is replaced by rationals, so rates
at the limits of floating point are out of scope: below some 1e-18 Hz the number
of packets saturates, and far below that `Duration::from_secs_f64` panics. Fixtures of
one octet per value, which nothing constructs, and the fixture kinds of
`kinetrs/src/fixtures.rs`, which nothing uses, are left out, as are packet types
without a payload, of which only the refusal is modelled. `NetworkLoop` assumes a
refresh period of at least one millisecond (`RefreshMs`), which a `--max-refresh-rate`
above 1000 does not give.

Still to do, in this order:

1. That the network thread's abstraction of a broadcast is what `Broadcaster` does: `wire`
   of `NetworkLoop` is what the lights decode from the datagrams, a set of supplies lost
   at a time, so that `ShutterSeesItsFrame` speaks of octets.
2. `SizesMatch` and the bounds of `Config` (defaults and accepted arguments satisfy the
   assumptions of the other modules) as lemmas, for every number of arcs and lights.
3. Shorter proofs where one lemma about folds would serve both the codec and the layout.
