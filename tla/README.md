# minidsp-rs in TLA+

minidsp-rs controls MiniDSP audio processors: a daemon (`minidspd`) discovers
devices on USB and on the network, keeps a connection to each and serves them
over HTTP, websockets and the TCP protocol of the vendor's apps; a command line
tool and the library `minidsp` do the same without the daemon. This directory
models the parts of it where tasks, timers, failures and a device that answers
without naming the question meet, and what a request or a subcommand makes of a
device, command by command, on every device there is. TLC checks the modules on small instances;
TLAPS proves the main invariants for all values of the constants.

Paths below are relative to the repository's root.

## 1. The system

### Parts and how they interact

```
 HTTP handlers   status sockets   TCP / websocket forwarding   discovery tasks
      |                |                     |                       |
      |  MiniDSP       | events              | hub clone             | register
      v                v                     |                       v
   Client ---- service mutex                 |                  Registry
      |                                      |                       | events
   Multiplexer (pending queue, receive task) |                       v
      |                                      |                DeviceManager
      +---------------> Hub <----------------+                       | spawns
                  (read task, send task)  <---- owned by ---- Device::task
                         |
              HidStream | TCP codec | websocket
                         |
                      the device
```

| Component | State it keeps | Operations | Hard behaviour | What makes it correct |
|---|---|---|---|---|
| Multiplexer and `Client` (`minidsp/src/transport/multiplexer.rs`, `client.rs`) | queue of commands awaiting an answer, event channel, write lock and sink, receive task, service mutex | roundtrip, timeout, send failure, dispatch, event forwarding, closing in two steps, shutdown | answers carry no tag; a future may be dropped at every await; closing races enqueueing | a caller is queued or answered, never both or neither; nobody is stranded by the closing; an answer goes to its own caller |
| Hub (`transport/hub.rs`) | broadcast channel, send queue, two tasks, shared `Inner`, clones | clone, drop, poll, write, shutdown | end of stream against frames in flight, slow consumers, who keeps the tasks alive | who is told of the end has been handed the newest frames, a lag costing the oldest only; all consumers learn of the death; tasks end with the clones |
| Registry and `DeviceManager` (`daemon/src/discovery`, `device_manager.rs`) | known urls with kind and last sighting; event queue; list of devices | register, cleanup, handle event | the list is a copy that lags behind; expiry only while registering | list and registry agree once the queue is empty; no duplicates; absent devices leave |
| `Device::task` (`device_manager.rs`) | handle, open connection, count of failed opens | open, probe, publish, watch, exit, retry | sessions, and the multiplexer's detached receive task, outlive the handle and hold the USB claim; HID context goes stale | the handle is always the watched connection; dead ones are withdrawn; a present device comes back unless its claim is held for ever |
| Requests on a device (`daemon/src/http/mod.rs`, `minidsp/src/lib.rs`, `model.rs`) | none of their own but a status read earlier | volume and mute steps, preset and settings, filter loading | several commands each, with other requests in between; early returns | audio comes back after a load; settings land in the preset they name |
| Settings and configurations (`lib.rs`, `model.rs`) | none: each setting is computed from the device's table | gain, mute, filters, crossover, compressor, FIR, routing, delay, master status; applying a whole configuration | dozens of commands with no way back; tables, rates and dialects differ | what returned "ok" is in the device, nothing else is, what is refused cannot be done |
| Command line tool (`minidsp/src/bin/minidsp`) | the devices found, the line of the file that runs | every subcommand; files run on several devices | one of several devices or lines fails | the same, for all lines and all devices |
| Device tables (`protocol/src/device`) | constants, generated | probe | strides and names of thousands of addresses | a setting's words belong to that setting alone |
| Command and response codec (`protocol/src/commands.rs`, `dialect.rs`) | none | format, parse | widths of addresses and values, told from the length | a command is read as it was written |
| Level reading (`client.rs`, `lib.rs`) | addresses left, levels read | group, read, split | off-by-ones at the size of an answer, order of the addresses | each channel gets its own level, with the fewest commands |
| Status sockets (`daemon/src/http/mod.rs`) | what was fetched, what polling saw last | initial message, push, poll, leave | changes between reading and subscribing, lagging, two sources | the client's view catches up |
| Forwarding sessions (`daemon/src/tcp/mod.rs`, `http/websocket.rs`) | a hub clone, the frame or command being passed on | connect, take, deliver, read, write, end | everybody gets all answers; one side stops reading | apps get their answers; sessions end with their app or device |
| TCP codec (`transport/net/codec.rs`) | buffer, mode, guessed packet size | decode in both modes | reads cut and merge frames | frames come out as sent, none waits for the next |
| HID, UDP, websocket transports; probing; formats; logging; Home Assistant integration | see `PROJECT.json` | | | |

`PROJECT.json` lists every component with its status, and the hazards of the
code at their lines with the properties that stand against them.

## 2. The modules

Each component has one module with its state, an action per handler or step and
its properties; `MC<module>` gives the constants values for TLC, and
`<module>Proofs` holds the theorems. A definition named `Bad...` is a faulty twin
of the one that follows it, a bug the code might have had; specifications never
use it, and it serves to see that a property would notice.

**Multiplexer** — `Multiplexer::roundtrip` is cut at its awaits: `Enqueue` (the
test of `event_tx` and the push, under one lock), `AcquireWrite`, `SendOk` or
`SendErr`, `Receive`. `Lock` is the service mutex of `Client::roundtrip`, which
only `Clients` take; `Direct` callers use the multiplexer as the library allows
but the daemon does not. `Timeout` is tower's timer dropping the future at any
of these points. `Dispatch`, `ForwardEvent`, `SkipGarbled` are the branches of
`recv_loop`, `RecvExit`, `CloseEvents`, `DrainPending` its end. A command's `kind`
is all that `matches_response` can see; the number `id` exists in the model only
and says which command an answer was made for.

**CommandService** — the abstract specification of the above: a call is accepted
while the service is open, answered at most once, and when the service closes
everyone waiting is told in that very step. `Multiplexer` implements it with
`phase` computed from `pc` and `answer`, and `open` from the receive task.

**Hub** — the broadcast channel is a counter `sent` and a cursor per clone;
a clone whose next frame has been overwritten, `Capacity` frames back, goes on with the
oldest one left (`Oldest`), and the error that reports the lag does not end its stream (`Over`). `from` and `handed` are history: since when a clone listens
and what it was given. The read task leaves its loop, drops its reference to the sender and takes `Inner` in separate
steps (`ReadEnd`, `ReleaseSender`, `SignalDeath`), because another task may look in
between; `Hub::shutdown` takes `Inner` first too, but drops the sender only once it
has the sink's lock (`SenderAlive`). `AbortOnDrop` is the `OwnedJoinHandle`. `Shutdown...` are the awaits of
`Hub::shutdown`.

**Discovery** — `Register` is `Inner::register` with the `cleanup` that ends it, one
step since it runs under the registry's lock; the timeouts of one cleanup come
in any order, as a hash map iterates. `HandleEvent` is one turn of
`DeviceManager::task`. Time is an `age` per entry up to `Limit`, standing for the
five minutes.

**DeviceTask** — a connection is a hub and a multiplexer reduced to their three
tasks. The task opens, probes, publishes and watches; `Held` says who owns a
clone, `Reap` what the last owner's drop does, `Claimed` that an open connection keeps
the USB device from the next. The multiplexer's receive task owns a clone too, and since
it is spawned without a handle (multiplexer.rs:72-95) nothing but the end of its
stream ends it (`StreamEnds`): a connection that is given up while it works (`NotReady`, a
failed probe) stays open. Requests are of two kinds: `Forwards` hold the hub
and notice its end, unless an app that does not read keeps them (`Stall`); `Calls` hold
the service and do not notice.

**DeviceRequests** — the service mutex covers one command, so a command is one
step and a request is the sequence of those it still has to issue. `Program`
gives that sequence per handler; `Fail` ends it early. The device is its volume
byte, mute status, preset, an open filter load, and, per preset, for which presets the
settings written into it were meant. `disturbed` is history: a load was cut short, or the remote
changed the mute status during one.

**DeviceSpec, Device..., DeviceTables** — the generated tables
(`protocol/src/device`), one module per firmware. A table is written the way it
is laid out, by first addresses and strides, and its symbols as the set of their
addresses. `DeviceTables` has the devices by kind, `probe` and the sources.

**CommandCodec** — the dialects and the commands that change settings, both ways.
A value is a tuple of its encoding and what it encodes, so that a mix-up of
fixed point, float and integer shows; addresses and lengths are bytes.

**Dsp** — the device at the other end: what `MockDevice::execute` does, and the
filters and FIR loads the mock only acknowledges. It reads frames, not commands:
everything `Control` sends goes through `to_bytes` and `from_bytes`. A device may
switch presets later than it says (`Switched`).

**Channels, Configuration, CommandLine** — what a method of `lib.rs`, `apply` of a
part of `model.rs` and a subcommand of `handlers.rs` send, as operators that give
the sequence of steps on a table, with the error that ends it where the code
returns one.

**Control** — a job: the lines of a file on the devices that were found, which for
one line and one device is also the daemon's `POST /devices/:n/config`. A step is a
command and its answer (`Answered`), a lost answer (`Lost`), a refusal (`Refused`),
an answer that decides (`FirFits`, `PresetRead`), or a step of **Levels**,
`read_floats_multi` chunk by chunk and the split that follows, where a level is
represented by the address of its meter. **Asked** is the reference: from a
request alone it says which settings it names and in which words of the table
they are; it sends nothing. **Plans** says of a plan on its own, as it is computed, what
the theorems about `Control` take for granted of it; TLC evaluates that for every job of
the run.

**SharedDevice** — `Multiplexer` with sessions of apps over one hub. Commands of all
wait in the hub's queue, every frame goes to every session's `inbox`, which holds
`Capacity`. A TCP session does one thing at a time (`MayTake`, `MayRead`), a websocket
bridge both. The multiplexer's wire lists the daemon's commands only, and an
answer to an app is an unsolicited message to it, which may look like the one it
waits for.

**StatusSocket** — one session: `Fetch`, `SendInitial` and `Subscribe` are separate
because the upgrade lies between; `Push` and `PollStatus` are the branches of its
select loop. Level updates carry no status and are left out.

**NetCodec** — `Codec::decode` on a stream of small numbers, `DecodePacket` for
fixed packets and `DecodePrefixed` for length prefixes. `Read` is what
`tokio_util`'s `Framed` does when decode returns None.

## 3. What the runs check

All runs finish in less than three minutes with two workers.

| Run | Bounds | Shows |
|---|---|---|
| `mplex_clients` | 2 clients, 3 calls, 2 kinds, 1 loss, 1 event, 2 timeouts | types; a call is queued or answered (`Tracked`); the closing strands nobody (`NoneStranded`); whatever is queued ahead of the call in progress was given up (`LiveIsLast`); until something is lost or given up each answer reaches its caller (`UndisturbedAnswer`); `CommandService` is implemented |
| `mplex_mixed` | 1 client, 1 direct caller, 2 calls, 1 event, 2 timeouts | every client call returns, and who has no timer is released when the receive task ends, with a command any response matches and events that look like answers |
| `hub_shared` | 2 hub values, capacity 2, 4 frames, 1 write | who is told of the end was handed the newest frames, as many as the channel holds (`EndedAfterNewest`); consumers learn of the death; tasks end with the last clone; shutdown returns |
| `discovery_list` | 3 urls, one of them static and findable too, age up to 2, 2 pending events | the list follows the registry; a static entry is left alone; present devices return to the list and absent ones leave |
| `task_life` | 2 connections, 1 forwarding session whose app may stop reading, 1 call or status session, threshold 3, 2 faults (a failed probe of a working connection among them) | dead connections are withdrawn, and closed when nobody holds them for ever; a present device gets its handle again and again, unless a session or an orphaned connection keeps its claim |
| `codec_peers` | packets of 4 bytes, 4 frames, six kinds of peers | what was sent comes out, all of it, as it was sent |
| `requests_shared` | 2 clients, 2 presets, 3 requests, filters of two blocks and filters too long, 1 failure, 1 change by the remote | the volume byte does not wrap; audio is back after every load that was not itself cut short or muted into, whatever else failed and whenever else the remote muted; settings land in their preset; requests end |
| `control_jobs` | every setting of every known device at once; subcommands, and configurations that name what a device lacks, on a 2x4HD, a 4x10HD and a Flex; filters around the size of what a device takes; files of two or three lines on three devices; requests for the master status on devices with Dirac and without; the meters of all tables but the MiniSHARC's, and of made-up ones (4 of 7 spread addresses, every split into inputs and outputs); an answer lost at any step; left out: clearing a crossover or a FIR filter (see 6) | what returned "ok" is in the device, in the words and the encoding its table gives (`OkMeansDone`), nothing else is (`OnlyAsked`); the master status is the one asked for; only the impossible is refused; a configuration cut short was done in order; each channel its own level, the fewest commands |
| `shared_apps` | capacity 1, one command per app; a call of the daemon beside a TCP app, or beside a websocket app; a websocket app beside a TCP app that may stop reading; one garbled answer, one failed write, the device's end | apps get their answers whoever else uses the device (`AppsAnswered`); sessions end with their app or device (`SessionsEnd`); inboxes and the queue hold their capacity |
| `status_kept` | 3 statuses, capacity 2, 4 changes, three kinds of sessions | the view catches up with the device; polling withholds nothing |
| `mplex_stale` (violation) | 1 client, 2 calls, 1 timeout | see 6 |
| `requests_twice` (violation) | 2 clients, 2 loads | see 6 |

Why the bounds are enough. The multiplexer's hazards need an abandoned entry, a
live one behind it and an answer for either: three calls and two timeouts give
all orders. A hub needs a consumer that lags by more than the capacity while
another keeps up, and frames behind the lag: four frames over a capacity of two. A registry entry is
refreshed, about to expire or expired: ages 0, 1, 2; a url's addition, timeout and second
addition overlap with a queue of two and a third being taken. Two connections are the old one and the
new one; while both are in use the task of the model waits where the code would try to open a third. Two settings and two presets are the fewest that can be separated by
another request. The codec's constants 64 and 100 shrink to 4 and 6, which keep
their relation (the guess must exceed one packet and be less than two), and
four frames fill the buffer twice. A job needs no more devices than one that
fails, one before and one behind it. Spread meters lie at distances 1, 13, 14 and
15, around the 14 floats of an answer. A capacity of one makes a session that is
not run at once lose a frame, and the daemon and the apps wait for the queue. `Limit`, `MaxQueue` and the `Max...` constants
are bounds of the model; the code has no such bound except `CAPACITY`, the HID
threshold, the size of an answer and the expiry time.

`CHECK_DEADLOCK FALSE` stands where the system may stop: a closed multiplexer, a
dead hub, a shared device that is gone, a device task with the bounded faults used up and nothing to do, a finished session,
requests up to their number, a codec with nothing to read.

## 4. Fairness

* Multiplexer: the runtime polls every caller and the receive task (weak
  fairness); tokio's mutexes are first come, first served (strong fairness of
  `Lock` and `AcquireWrite`); timers fire (weak fairness of `Timeout`). Nothing is
  assumed of a send in progress, of the device or of who starts calls. So
  `CallsReturn` rests on the timer alone; `Timeout`'s bound equals the number of calls there.
* Hub: both tasks run, an owner polls its clone, a started shutdown is polled.
  Aborting has a fairness of its own, since the abort is seen at the next await.
* Discovery: the discovery tasks keep looking, the manager takes the next event,
  time passes. Registering is strongly fair because only the bound `MaxQueue`
  can disable it; the code's channel is unbounded.
* DeviceTask: the task and the connection's tasks run, a forwarding session
  returns when its stream has ended and it is not held up by an app. No session is assumed to
  end, no app to read on and no orphaned connection to fail: `Reconnects` and `DeadIsClosed` name as hypotheses what
  they need of that (`Ends`, `Reads`, `Orphaned`).
* DeviceRequests: handlers are polled, commands are answered or time out, the
  device applies a preset it accepted.
* SharedDevice: the device serves what reaches it; sessions are polled; the hub's
  queue lets its writers in one after the other (strong fairness of
  `WriteCommand`, since `mpsc` parks senders in order). Of apps only those outside `Slow`
  read what they are sent. Nothing is assumed of the daemon's own calls.
* Control: none; its properties are about what a job leaves behind.
* StatusSocket and NetCodec: the session's task is polled and its timer ticks; the connection
  delivers what was sent.

## 5. What is proved

All theorems hold for every value of the constants that satisfies the named
assumptions of the modules.

**MultiplexerProofs.** `Tracked` is not inductive: that a new call finds no old
entry of its own needs that ids are unique in the queue and among callers, that
a caller outside `Engaged` has neither entry nor answer, and that the queue stays
empty after the drain because `event_tx` was taken before it. `QueueInv` is that
conjunction; each action has a lemma. `TrackedTheorem` and `NoneStrandedTheorem`
follow from it. `LockInv` says where the two mutexes are held, `SinkSafeTheorem` follows; with
both, `LiveIsLastTheorem`: with clients only, the call holding the service mutex
is the last in the queue. `Refinement` maps every step to a step of
`CommandService` or a stutter. `UndisturbedTheorem` is the action property that an
answer reaches its caller until something is lost or given up. It needs `CalmInv`: while
the receive task runs, at most one command is on the wire or in the stream, and
its caller is the one that waits; what is queued belongs to callers that are
still there, unless a failed send has taken the sink away. Assumed: clients and
direct callers differ, the bounds are numbers.

The same module proves of `SharedDevice` that each of its steps is a step of
`Multiplexer` or leaves it alone (`AppsAreEvents`), so that the theorems hold beside
any apps (`TrackedBesideApps`), and the bounds of inboxes and queue
(`SharedTypeCorrect`).

**DiscoveryProofs.** The list after the pending events is a function of them:
the events about one url alternate, an addition where it is not listed and a
timeout where it is. That (`InStep`, over `Alternating`) is preserved by a registration with a
cleanup of any size and order and by handling the head; `ListTheorem` and
`NoDuplicatesTheorem` follow. `PinnedTheorem` is the action property of static
entries. Assumed: finitely many urls.

**DeviceTaskProofs.** Types, with the count of failed opens below the threshold,
and `HandleTheorem`: the published handle is the connection the task watches,
from the invariant that relates phase, connection and handle.

**StatusSocketProofs.** Types, with the bound of the event channel, and
`NothingWithheldTheorem`, strengthened by what holds before the session runs and
by the emptiness of the channel when the remote makes no changes.

**HubProofs.** Types, and `EndedTheorem`: whoever was told of the end of the stream
was handed the newest frames sent since it subscribed, as many as the channel holds, for any number of clones,
any capacity and any traffic. The invariant follows each frame from its broadcast to the cursor
that passes it: what a cursor has passed was handed over or had been overwritten by then
(`PassedOver`), and stays so (`StaysOverwritten`); a clone that was told of the end has passed
everything, and nobody is left to send more (`EndIsFinal`).

**DeviceRequestsProofs.** Types, from the types of what a handler still has to
issue (`Typed`), and `SettingsTheorem`: where only one client switches presets,
the settings of its request land in the preset the request names. The invariant
says how a program may be ordered (no write between a switch and the status that
confirms it) and that behind a confirmed switch the device is in that preset.
Assumed: one client switches. `AudioTheorem`: when no request is in progress, the device is muted only if
that was asked for, whatever the other clients do, whatever fails outside a load and however the
remote is used, as long as no load is cut short and the remote leaves the mute status alone during one; in
those two cases the code itself fails, see 6. `AudioInv` follows a load of any length command by command
(`InLoad`: what is left to issue, whether the filter is open, that the status read
before it is the one wanted); at rest, mute status and wish agree; a load that has not read
the status yet can be given up, and the remote may mute (`NotLoading`). Assumed: one client
alone mutes and loads (`MutesAlone`). That with a second client it does not hold is the run
`requests_twice`.

**NetCodecProofs.** `FramesTheorem`, types, and that no buffer is split beyond its
end (`NeverPanics`), for any frames, any number of them and any packet size, from
the peers the decoder can follow (`Supported`: apps that frame as they should; devices all
of whose reads are shorter than a packet and that fill with zeros, if at all; devices all
of whose reads are one, two or four whole packets of a size that halving cannot miss). TLC
checks `Supported` of the peers of `codec_peers`. The frames are not told apart in the
bytes, so the invariant names their places: `Placed(pos)` says that the bytes
read and on the wire hold the frames not yet decoded, frame after frame, at the
increasing positions `pos`. For length prefixes what lies between is zeros
(`ZerosBetween`), so that the first byte that is no zero starts the next frame; in packet
mode they start at multiples of the packet (`InPackets`), and what is in the buffer
is whole packets. What each read length is halved to is proved by cases.

**ControlProofs.** First the frames. Two-byte addresses are read as written below 4096, and
modulo that otherwise; three-byte ones modulo 2^20. With them the guess of an
address's length from the frame's size: every `Write`, every `WriteBiquad` of five
values and every `WriteBiquadBypass` comes out as it went in.

Then the jobs. What a plan is made of is computed from tables by operators
that flatten and fold over configurations, and stays with TLC. The theorems are about
carrying plans out: that lost answers, repeated statuses, devices that switch late, later lines and
other devices leave intact what each plan does on its own. They name what they take for granted of the plans as a
predicate of the job, in `Plans`; `MCControl` has TLC evaluate every such predicate for
every job of `control_jobs` (`JobsFit`).

* `LeastTheorem`: no fewer `ReadFloats` could have read the meters. Assumed, `Metered`:
  the meters are finitely many addresses, and a plan ends with collecting and
  reading them or does neither. `ReadingInv` says that a job waits, is
  measuring or has measured; while measuring, `Greedy`: the addresses left ascend, no
  command issued reaches them or the start of another, and what is gone is reached. The
  starts of the commands are then as many meters no two of which fit into one command, and
  an injection into any set that covers them gives the bound.
* `EachItsOwnTheorem`: each channel gets its own level. Assumed besides,
  `InOrderWhereRead`: where levels are read, the meters of the inputs precede those of the
  outputs, and if an output has one, so has every input. That is so in the tables of all
  devices but the MiniSHARC 4x8 (see 6).
* `OnlyAskedTheorem`: whatever is lost, and whenever a device switches presets, only the
  words and flags that the lines ask for are written. Assumed, `Fits`: a step that writes does so
  at an address of a setting its line names, within what the device's addresses can
  tell apart. `FitInv`: what is left to do fits the line and the
  device it is done on, and each device's memory is within what was asked of it so
  far. The proof takes every command through `to_bytes` and `from_bytes`, by the theorems about
  frames, and shows that the ones that are no writes are not understood as one.
* `TypeCorrect`: what the devices hold is at addresses of theirs, volumes and sources stay
  within the byte they are sent in, and while a job runs there is one result for each device before the
  current one. Assumed, `Fits`: indices and sources are bytes, and a step relative to
  the status comes after a step that reads it. That this survives answers, retries and
  returns is `SavedInv`: `saved` is a status, or the reading is still ahead of the step.
* `RefusedTheorem`: a line is refused by a device only if that device cannot do
  it; a panic ends the program instead, is no result and is not judged. Assumed, `Fits`: a step refuses only in the plan of such a line. Beside
  `FitInv` it needs that results belong to the devices before the current one.
* `DoneTheorem`: when a job returned "ok", what its lines ask for is in every device.
  Assumed, `Fits` and `PlansDo`: unless a step stops it, a plan writes last to each word and
  flag its line asks for what was asked, and loads the filters asked for and no other; it switches
  presets first or not at all; lines that set the same words name the same setting; a device that
  switches late is not told a preset it has been in, since its status could not show
  the switch. `Along`: a job has `Passed` some steps of the plan it is `Here` in, what is left
  is the rest, and the device is as the steps passed leave it (`Taking`), whatever was
  lost. Beyond each plan: `SwitchInv` follows a device that switches late; until it has, its
  line waits for the status to name the preset, or has failed there, so that nothing is
  written before the switch. And an earlier line's settings must outlast the later lines, in the
  preset they were meant for.
* `InOrderTheorem`: an output was written to only after the inputs were done, a channel only
  after the master status was set, wherever a configuration is cut off. Assumed, `Fits`, `PlansDo` and `AppliesInOrder`:
  a configuration is a job of its own, and the steps of its plan take that order. Needed besides,
  `FreshInv`: in the first line a device holds only what the steps passed touch and one further on
  nothing; and where a plan has begun with a switch that is no longer pending, the preset is set.
* `MasterTheorem`: after a job that returned "ok", the master status of every device is what its lines,
  one after the other, make of the one it began with. Assumed, `Fits`, `PlansDo` and `PlansSteer`: a plan decides a
  field as its line asks, no line asks for more than 0 dB, and where it starts from a status (a step of the volume, a toggle, the
  mute status set back after a load), that status was read since the field changed last. A line that panics (a
  toggle of Dirac where the device has none) leaves no "ok" and nothing to show.
  `MasterInv`: in the middle of a plan each field is as the steps taken leave it
  (`Follows`), muted where a load is open, and the `saved` status is the device's own
  wherever a step may still use it; devices further on are as the line before left them, those
  behind as this one does.

Only model-checked: liveness, since TLAPS proves neither fairness arguments nor ENABLED; and the
predicates on plans, since a plan is concatenated and folded over configurations, and what
a fold computes for every input is out of reach. Where the theorems need induction over numbers, it
is that a non-empty set of them has a least element (`LeastElement`).

Proved and not run, since a run adds nothing: the types of `Hub`, `Discovery` and
`StatusSocket`, `SinkSafe`, `HandleIsWatched`, `NoDuplicates` and the codec's `panicked`.

## 6. Where the code and its documents disagree

Two of these are runs that end in a violation.

* `mplex_stale`. A call that times out leaves its entry at the head of the queue;
  the next answers are compared with it (multiplexer.rs:170) and go to the event
  channel when they do not match, so one timeout makes the following calls time
  out as well. The module's documentation speaks of "the last command".
* `requests_twice`. Two filters loaded at once: the second load takes the muting
  of the first for the user's and restores it, and the device stays silent.

The others were seen while modelling. The properties that hold say, in their
hypotheses or in the choice of the instance, where they stop.

* Two direct callers of a multiplexer may be queued in one order and sent in the
  other, which loses an answer; `Client`'s service mutex hides it.
* Expiry happens only in `register` (registry.rs:88): when the last visible device
  disappears it stays listed. Hence the `Steady` url of `discovery_list`.
* A configured device that discovery registers before `App::start` does is never
  marked static (registry.rs:85, main.rs:89-113) and expires like any other.
* A request may hold a removed `Device` in its retries while a second one for the
  same url is added, although `Device::task` calls itself the sole owner.
* A status session that stays keeps the multiplexer and the hub's send task of a
  dead connection, and with them the USB claim: hidapi is built with its libusb
  backend (minidsp/Cargo.toml:55), where one process-wide claim excludes the next open. A forwarding session that stays does the same when
  only the multiplexer's receive task died. Hence the hypothesis of `Reconnects`.
* The multiplexer's receive task is spawned without a handle (multiplexer.rs:72-95) and holds the hub. When
  the probe fails on a connection that works (device_manager.rs:333-336), or the send task of a connection dies alone
  and its holders leave, that task keeps the connection and its USB claim until the transport fails by itself, and
  every reopening fails meanwhile. `Reconnects` assumes that no connection stays orphaned so.
* A failed write ends the hub's send task alone, which neither of the signals
  watched at device_manager.rs:408 shows; the handle stays while commands fail.
* The TCP codec takes 64 or more bytes in the first read for a packet: merged
  plain frames are lost. It halves a first read of three packets to a size that
  none of them has.
* A filter longer than the device takes returns between `FirLoadStart` and the
  restored mute status (lib.rs:690), as a failure in between does; and a change of the mute status by the remote
  during a load is undone by its end. `AudioRestored` leaves such loads out (`disturbed`). Two requests that each name a preset may
  write into each other's (model.rs:150). A volume step at 0 dB asks for +0.5 dB,
  which is encoded as -0.5 dB (http/mod.rs:280).
* Without polling, a change by the remote between the fetched status and the
  subscription is never told (http/mod.rs:133). With polling, a pushed status
  that another application undoes before the next poll stays on the client
  (http/mod.rs:196).

Settings, files and meters (`control_jobs` and its modules):

* On the MiniSHARC 4x8 the outputs' meters (176-183) have lower addresses than the
  inputs' (184-187), and the levels, which come back sorted by address
  (client.rs:131-132), are split as if inputs came first (lib.rs:171-172): four outputs are
  reported as inputs. `StatusJobs` leaves this table out.
* The 8x12CDSP's table gives a sampling rate of 0 and the Flex DL's 4800, so that
  a delay becomes nothing there or a tenth or less of what was asked for. The
  limit of 8000 samples is 83 ms at 96 kHz, where the comment says [0, 80].
* `run_xover` with a file of fewer filters than slots clears the whole group for
  each slot left over, and with it what it imported before (handlers.rs:296-324).
* `clear` is documented to "set all coefficients back to their default values and un-bypass
  them" (main.rs:429, `FilterCommand`); for a crossover and a FIR filter it leaves the bypass as it is
  (lib.rs:531-541, 664-667). `Asked` asks for what is documented, and `OkMeansDone` would fail for these two
  subcommands: `control_jobs` does not run them.
* `dirac toggle` on a device without Dirac panics: it unwraps a field (handlers.rs:91) that is only filled
  where `supports_dirac` says so (commands.rs:1063, protocol/src/lib.rs:61-63). The other
  fields of a status are always there.
* A gain above 0 dB from the command line loses its sign, as over HTTP.
* "Run this command on all devices in parallel" (main.rs:608) runs them one after
  the other.
* `peq all` on a channel without filters succeeds and does nothing. A crossover
  group beyond the table is an error when set and a panic when cleared; a filter
  of other than five coefficients is a panic. The Flex HTx has four groups per
  output, of which "all" means two. The 8x12CDSP and the MiniSHARC list fewer
  routes than they have outputs.
* `Source::to_id` takes a source the device lacks for number 0.
* `FirLoadData` loses its last coefficient when it is parsed; a name of the generator's
  symbols is used once (`resolve_symbol`). The mock is a 2x4HD whatever it
  says it is.

Sessions (`shared_apps`):

* A TCP app that stays connected but stops reading blocks `remote.send`
  (tcp/mod.rs:65): its session never notices that the device is gone and keeps
  its hub clone, and with it the USB claim. `SessionsEnd` leaves such an app out.
* A short frame ends every TCP session on the device, while `recv_loop` skips it
  and the websocket bridge passes it on.
* Any message but a binary one, a ping included, ends a websocket session
  (websocket.rs:29).
* An app's answer may complete the daemon's call, which the comment at tcp/mod.rs:30
  admits: `AnswerReachesWaiter` does not hold beside apps.

## 7. What is not modelled

* Commands of backup and bulk loads, the views of memory and floats, the
  arithmetic of fixed point; packets' checksums and framing, which keep no state.
* `Device::shutdown`: no caller in the daemon.
* The order of the manager's list and thus what an index a client remembers
  comes to mean; requests' retries in `get_minidsp`.
* The borrow checks of the global HidApi cell, and the discovery task that keeps
  enumerating with the context it took at its start.
* Level messages of status sockets.
* The choice of a device for a connection and the advertising in `tcp/mod.rs`, the
  websocket client transport, and the deprecated server of the command line tool
  (`tcp_server.rs`).
* Parsers of files and arguments, the debug subcommands, logging, schemas, the
  generator of device tables (its output is modelled): sequential input and output.

## 8. Plan

Order: what everything else depends on first.

1. Done: `Multiplexer` with `CommandService`, `Hub`, `Discovery`, `DeviceTask`,
   `DeviceRequests`, `StatusSocket`, `SharedDevice` and `NetCodec`, with proofs.
2. Done: the tables, `CommandCodec`, `Dsp`, `Channels`, `Configuration`, `CommandLine` and
   `Control` with `Levels` and `Plans`; proofs of the frames and of carrying out plans.
3. `HidStream`: the read thread, its unbounded channel, the drop flag and the
   shared context (`transport/hid/*`), refining what `DeviceTask` assumes of a
   connection; the composition of `Discovery` and `DeviceTask`, with requests that
   hold a removed device.
4. `Coordinator`: the Home Assistant client's websocket loop against
   `StatusSocket`; the builder's concurrent probing.
5. Proofs: every safety property that a run checks is proved, of `Control` under the
   hypotheses on plans of section 5. Left are those hypotheses, which need induction over configurations.
