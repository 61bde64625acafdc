# Totem firmware: TLA+ specifications

This directory specifies and verifies parts of the Totem firmware, a set of
ESP32 nodes (master, media, power, two GPUs, io, and a stand-alone ai node) that
drive an LED installation and talk to each other by publish/subscribe over SPI,
RS485 and UDP links. All paths below are relative to the repository root; C++
headers live under `include/`, node programs under `src/`.

`PROJECT.json` lists the components, the runs, the source lines behind each
definition, the hazards the properties are aimed at, and the theorems.

## 1. The system

### Parts, their state and their operations

| Part | State | Operations | Interacts with |
| --- | --- | --- | --- |
| PubSub `Node` + `Drainer` (`include/PubSubBackend/detail`) | publish queue, table of in-flight frames with a mask of pending transports | publish, the task step (drain queue, poll transports, send), ack | transports, pools, ingress buffer, subscribers |
| Transports (`include/PubSubBackend/Transports`) | send queue of frame handles, publish queue of received envelopes, wire slots | enqueue, send, receive, pollInto, completion of a write | `Drainer::ack` by callback, the link's task |
| `IngressBuffer`, `ByteArena`, `Pool` | payload bytes, records by header, free spans | store, deduplicate, release | transports (store), Drainer (release) |
| `SubscriptionManager`, `TransportDirectory`, `SubscriberDirectory` | topic masks per link, local subscriptions, replay flags | subscribe, (un)register from a peer, replay on availability and periodically | nodes of the whole tree |
| RS485 and SPI links (`include/Wire`) | sync state, transmit queue, pending transaction, heartbeat misses | poll, send, ack/nack, reset, attention line | transports by callback |
| `TaskController`, `TaskControllerRegistry` | runners, their tasks, state and stop result, managed handles | add, start, signal, stop, reap/restart, end, kill | every component with a task; the main loop reaps |
| LED start-up (`src/master/led_bringup.hpp`, `src/gpu/led_startup.hpp`) | readiness of the GPUs, output gate | announce ready, enable outputs once | PubSub |
| Light show (`src/master/orchestration.hpp`, `include/LedDisplay`) | what the master believes is shown; layers, animations and fade of each GPU's engine | start, rotate, refresh and stop visuals; handle layer, play and fade-swap commands | PubSub, the main loop, each GPU's render task |
| Battery monitor (`include/BatteryMonitor`) | the calibration's state and what it still has to write, the journal and what its scan found, a mailbox | observe a sample, start or abort a session, one journal step per `work()`, scan at the start | the file system, the shell, the sensor |
| Audio, LED rendering, metrics, logging, commands, AI session, inputs | mostly data paths | | PubSub |

### What is hard here

* A node is shared by its own task (the *runner*), by the tasks of its links,
  which complete and acknowledge writes at any time, and by publishers. Queues
  carry raw handles to table slots, so a handle that outlives its frame would
  send or acknowledge something else.
* Links fail and come back between any two steps; frames arrive again after
  recovery; a queue or table at its limit makes the runner wait for itself.
* Tasks are created, exit, are restarted and killed while others signal them;
  a new task may run to its end before its creator has stored its handle.
* Several protocols (subscription replay, light show, link heartbeat) rely on
  periodic repair after loss, crash and restart.
* The master of the light show never reads a GPU back: it sends commands and predicts,
  on its own clock, what the engine there makes of them.

The correctness properties per part: the node neither loses nor double-frees a
payload, releases it exactly when every addressed link is done with it, never
waits for itself and never runs out of slots it has counted; the tasks' storage
is never destroyed or reused under them and a failed task is restarted; the
arena never hands out overlapping bytes; every link delivers a frame at most
once per acknowledged send; routes converge to the subscriptions after loss; a GPU
shows what the master believes it shows.

## 2. Modules

| Module | What it is |
| --- | --- |
| `Retention` | Abstract promise of a node: a payload is held from the moment it is accepted, owed to the transports it was routed to, and given back once, when none is owed |
| `Drainer` | The path of a message through one node (detailed specification) |
| `MCDrainer` | Instance of `Drainer` for TLC |
| `DrainerProofs` | Types and the inductive invariant; ownership, correspondence, awaited writes; no rejection, the runner never blocks; implements `Retention` |
| `TaskController` | Runners, their tasks, reap, end and kill, and the table of managed handles |
| `TaskControllerProofs` | Who may use, restart and destroy a runner: types, storage, restarts |
| `Rs485` | Both nodes of a point-to-point RS485 link, their turn guards, and the line |
| `Rs485Proofs` | Types; one completion per request; what an ack is worth under any faults; turns never meet and acks are true under any losses |
| `Spi` | Both nodes of a point-to-point SPI link, their transceivers and pending writes, and the bus |
| `SpiProofs` | Types and room; one completion and one delivery per write, and no unearned ack, under any faults |
| `Routing`, `MCRouting` | Subscriptions, control events, replays and fan-out in a tree of nodes |
| `RoutingProofs` | Types; in any tree nothing is delivered twice, and what is published over settled routes reaches all who listen |
| `ByteArena` | The arena of the ingress buffer: spans, records, best fit, coalescing |
| `FrameStore` | Abstract promise of the buffer: a frame handed out reads as received until it is given back |
| `IngressBuffer`, `MCIngressBuffer` | The ingress buffer over `ByteArena`, with its table of serialized frames; implements `FrameStore` |
| `Show` | LED start-up of the GPUs, the master's sequencing of visuals, and the engine of a GPU |
| `ShowProofs` | Types; what is held back until every GPU is ready and the boot animation over; master and GPUs agree; fade swaps are accepted |
| `IngressBufferProofs` | What the arena's operations preserve; tiling, reclaiming, validated reads; implements `FrameStore` |
| `Battery`, `MCBattery` | Battery calibration and its append-only journal, through power failures and failed appends |
| `BatteryProofs` | Types; the scan after a boot finds what the writer left; a session that starts has room |

`IngressBuffer` EXTENDS `ByteArena`: the buffer calls the arena's operations as
parts of its own actions. `Routing` sees a transport as an ordered queue of
frames, which is what `Drainer` (the sending node), `Rs485` and `Spi` (the links)
look into; a completion by the link is an input of `Drainer` and a property of the
two link modules. The shared guarantee is "completed once": `Drainer` relies on it
when it frees a wire slot and acknowledges, `Rs485` and `Spi` check it as
`CompletedOnce`.

### Drainer: state and actions

| Variable | Code |
| --- | --- |
| `stored` | payloads held by a `Pool` (local) or the `IngressBuffer` (remote) |
| `inbox[0]`, `inbox[t]` | `Node::_publishQueue`, `BaseTransport::_publishQueue` |
| `inFlight` | `Drainer::_inFlightFrames`: header and pending mask of a slot |
| `sendQueue`, `wire` | a transport's queue of handles, its in-flight wire slots |
| `link` | where the link's task is between a completion and the release |
| `ready` | `_link.ready()` |
| `pc`, `cursor`, `maxCount`, `count`, `item`, `slot`, `todo`, `back` | where the runner is in `Node::_onTaskStep` and its local variables |
| `overrun`, `rejected` | history: `pollInto` passed its last statement; a fan-out was dropped |

The runner's step is cut where another task can interfere, that is at every lock
and queue operation: `DequeueLocal`/`EndQueue` (`_publishFromQueue`), `Poll`,
`Receive`, `Dispatch` and their ends (`_publishFromTransports`, `pollInto`),
`EnqueueReceived` (the send in `receive`, which waits while the queue is full),
`Route` (`_storeFrame` under the spinlock), `Fanout` (one `enqueue` per target),
`Release`, `BeginSend`, `SendFrame`, `FinishFrame`, `EndSend`, `EndStep`. The
link's task takes `Complete` (frees the wire slot), `Ack` (clears the bit under
the spinlock) and `AckRelease` (gives the payload back). `LinkUp`/`LinkDown`
may happen at any time.

Abstractions. A frame is its header. Topic masks have any value: the targets of
a frame are a nondeterministic set. Each local message id is used once. The
arena is a number of records. Giving back a wire slot is one step: the
`occupied` flag is declared after the data it guards in `InFlightFrame`, so the
struct assignment clears it last. Errors of subscribers or of the control plane
end the runner; that is the business of `TaskController`. Raw cut-through relays
(`enqueueRaw`) and availability replay are left to later modules.

### TaskController: state and actions

`entry`, `life`, `handle`, `everStarted`, `stop` are the members of a
`RunnerEntry`, its `Runner` and `StateManager`; `phase`, `native`, `outcome`,
`note` are the program counter, the locals and the FreeRTOS notification of each
task; `managed` is the registry's table. `op` is the operation holding the
directory's mutex over several steps; `reap` and `ender` are the program counters
of the two callers of `reap()` and of `_onEnd`.

`CreateTask`, `StoreHandle`, `RegisterHandle` are separate steps because the new
task runs from the first on; the exit of a task is `Shutdown`, `ClearHandle`,
`Deregister`, `PublishStop`, `DeleteCurrent` for the same reason. Reap releases
the mutex between handling an entry and removing it, hence `ReapStopped` and
`ReapRemove`. `Notify` overwrites, as `eSetValueWithOverwrite` does.

Abstractions. A handle is the number of the task, as if no address were reused;
`ExclusiveStack` is about the address being the same in static allocation. A
failing hook is a choice. Memory for a runner's tasks ends after `MaxTasks`.
Snapshots, the watchdog and mutex timeouts are left out, and the delay in
`_onEnd` takes any time. A step of a loop that neither fails nor takes a signal
changes nothing and is a stuttering step, like a reap that finds nothing.

### Rs485: state and actions

`node[n]` holds the fields of a `Node` and its transceiver (state, turn, sequence
number, heartbeat counters, attention request) and `wait`, the answer its task
waits for; `rx[n]` is what is on the way to it and in its UART's buffer; `queue` the
two request queues; `req` is a history of the callbacks. A task step is one action
up to the next synchronous read: `Receive` (one action per outcome of
`_handleIncomingHeader`), `ProcessOne` (`_processOneSend` and exchange),
`Await` (`TransactionAnswered`, `TransactionFails`, `LinkAnswered`,
`ResponseTimeout`), the handshake (`Hello`, `MasterOnHello`, `SlaveOnHello`), the
heartbeats and `SendTurnGrant`/`SendNopExchange`. Users `Check` `ready()` and then
`Enqueue`, in two steps, as `send` does.

Time is counted in heartbeat intervals: `Tick` is enabled when no task has anything
to do. A frame is put into `rx` whole. The environment loses a frame, damages a header
or a payload, answers late, lets the UART refuse a write, stalls a task, and reboots
a node; the number of faults is bounded. Sequence numbers wrap at `SeqMod`.

### Spi: state and actions

`node[n]` holds the link state, the slot and frame counters, the expected sequence,
the header acknowledgement due and the one sent, the slot being built (`tx`) and the
table of pending writes; `transfer` is the slave's DMA transfer (armed while `got` is
`None`); `queue` is `_txQueue` with `_deferredWrite` at its head.

`MasterTurn` is `_runTurn`: the guard `Due` is its early returns, `Prepared` the slot
after `_processQueuedWrites` and `finalizeTx`, and the turn ends in `NoSlot` (the slave
armed nothing, or its preamble is unreadable: the slot is kept) or in `Slot`
(`markTxConsumed`, `parseRx`, completions, hello). `SlaveStep` is `_onTaskStep` after a
transfer. Both are one action: between them the two ends share only the armed
transfer and the attention line. What the second makes of a turn that read the line
too early is the fault `window`. `parseRx` is a function of a node's fields and what
was read; `Handled` is `_handleFrame`. `TransferFails`, `Expire` and `Reboot` are the
driver's error, the 250 ms timeout and a restart.

Every turn begins two slots (`markTxConsumed`, then `parseRx`), so slot numbers rise
by two and a "missed sequence" is ordinary. The master's slot counter starts at 0 and
is never reset, the slave's restarts at 1. A write expires at any time after it was
sent. A hello that answers another is told apart by its frame type and not by
`responseTo = 0`, which a wrapped frame number would equal. The 500 ms hello retry is
left out: it writes the slot that holds the hello again.

### Routing: state and actions

`slots`, `subscribed`, `listeners` are the `SubscriptionManager` and the
`SubscriberDirectory` of each node; `app` and `runner` are where the application and
the node's task are; `route` is the topic mask per neighbour in the
`TransportDirectory`; `pending` and `known` drive the availability replay; `wire` holds
the frames on the way. `Node::subscribe` is three actions, cut where a replay can read
in between: `Subscribe` (the listener and the slot's counter), `Mark` (the rest of
`registerSubscription` up to the event) and `Announce` (`_sendPubSubEvent`).
`Node::unsubscribe` is `Unsubscribe`, then `Announce` if the topic had no other
subscriber. A replay is `AvailabilityReplay` or `PeriodicReplay`, which read the mask
(`StartReplay`), then `PublishReplay`, which publishes one event for all its topics.
`Ingress` takes one frame from a link in one step, the routing it leads to included:
`_dispatchIngressFrame`, `ControlPlane::handle` and the fan-out, which all run in the
node's task. `DrainLocal` is the same for a frame of the node's own queue
(`_publishFromQueue`).

Abstractions. The 50 ms delay of the availability replay is any time after the
pending flag is set, which covers the early replay of `Node.hpp:231`. The periodic
replay (1 s) happens when no control event is on the way. `Lose` is a frame refused by
a full queue, taken for a duplicate after a restart, or dropped by an end that is not
ready. There are as many slots as topics, as with `maxTopics`.

### IngressBuffer: state and actions

`spans`, `offset`, `buffer` are the arena; `records` the table of serialized frames;
`task` where each task is; `held` the frames handed out. `Arrive`, `StoreFrame`,
`Remember` are `storeFrame`; `Validate` is the lazy checksum of
`_ensureSerializedValidated`; `ReleaseFrame`, `Clear`, `ReleaseRecord` are `release`, which
clears the unlocked record (header, then flags) before it takes the arena's mutex.

Abstractions. Spans are a set and slots a partial function. An arena operation is one
step under its mutex. A byte is named by its frame and place; damage hits a payload.
Only the runner stores and reads, a key is given back once and not while it is read,
which is what `OwnedOnce` of `Drainer` promises.

### Show: state and actions

`begun`, `gateOpen`, `mask`, `bringup` are `LedStartup` of the GPUs and
`MasterLedBringup`; `layersSet`, `published`, `suppressed`, `fading`, `active`,
`preset`, `pending` the variables of `MasterOrchestration::detail`; `menu` its event
queue; `at` where the main loop is in `handleFftVisuals`. Per GPU `chan` holds the
commands on their way, the engine's queue included, `enabled` and `opacity` its layer
stack, `playing` the animation of a layer, `fade` the layer a fade swap leads to.

`Due` is the part of `handleFftVisuals` that reads the flags, and
`PublishInitialFftVisual`, `Rotate`, `Refresh` what it then publishes: between them
`OnAnimationStop` may run, in the task of the PubSub node. `HandleMenu` drains the menu
events, `CompleteFft` ends the master's fade. The engine takes one command at a time
(`SetLayerActive`, `SetLayerOpacity`, `PlayAnimation`, `StopAnimation`,
`StartLayerFadeSwap`) and fades in `UpdateFade` and `CompleteLayerFadeSwap`. A round
in which publishes fail leaves out any of the commands (`TryAll`, results combined) or all
from the first failure on (`TryEach`, first error returned).

Abstractions. Of the layers only `Fft` and `FftAlt`, of the commands those about them.
Time is order: a fade ends at any time after it began, on the master and on the GPU
separately, which covers every delay of the commands; a dwell time (45 s and more) and
the refresh interval (5 s after a fade ended) outlast the commands on their way and a
GPU's fade (`Quiet`). `UpdateFade` has three opacities; the rounded ones reach 0 and 255
before the fade ends. The readiness event is published every second and arrives in the
end.

### Battery: state and actions

`journal` and `torn` are the file, its whole records and a partial one at the end: the
only state that survives `Boot`, a power failure at any point followed by `_onBegin`.
`cal` is `Calibration`; `sequence`, `checksum`, `reading`, `built`, `point`,
`highest`, `profile`, `dangling`, `rebootFooter`, `health` are the fields of the monitor;
`request` the mailbox that `RequestCalibrationStart` and `AbortCalibration` fill from
another task. `ScanRecord` is the body of the loop of `scanJournalRecords`.

`work()` is two actions, since a power failure or an `observe()` cannot tell finer steps
apart: what decides (`ControlNothing`, `AbortCalibrationOwned`, `RejectStartOwned`,
`RefuseToArm`, `StartCalibrationOwned`, each with the freshness check and the footer request), and
at most one step of the journal (`WriteHeader`, `WriteInterval`, `BeginCurveBuild`,
`WorkCurveBuild`, `WritePoint`, `WriteCompleteFooter`, `WriteTerminalFooter`,
`WriteRebootFooter`). `observe()` is one action per outcome of `Calibration::observe`. An
append fails before its write, in it (the partial tail), or in the flush or close after it
(the record is there and the monitor does not know).

Abstractions. A sample is one of six kinds; the dwells, the interval and the session's
bound elapse at will; a count of charge and energy is positive or zero. The XOR of CRCs is
the set of sequence numbers it covers. The published snapshot a command reads may be old,
so the commands rely only on what does not change back. The file system has room for
`MaxRecords`, whole records read back as written, and a session is `Complete` by its
footer's state and positive totals.

## 3. Runs

| Run | Checks | Instance | Result |
| --- | --- | --- | --- |
| `drainer` | `TypeOK`, `OwnedOnce`, `PendingMatchesWork`, `WritesAwaited`, `RunnerNeverBlocks`, `NoRejection`, `ImplementsRetention`, `EventuallyReleased` | 2 transports, 1 local and 3 remote messages, 3 arrivals, a link failure, `FairSpec` | holds, 573,756 states |
| `drainer_unreachable` | `PollIntoReturns` | one full poll | violated |
| `task_controller` | `TypeOK`, `StorageSafe`, `NoRestartOnceAsked`, `StoppedIsReaped` | one runner, 2 tasks, a table of one handle, 2 ends | holds, 39,170 states |
| `task_controller_closed` | `ClosedMeansStopped` | two runners | violated |
| `task_controller_stack` | `ExclusiveStack` | one runner, a restart | violated |
| `rs485` | `TypeOK`, `CompletedOnce`, `AckedMeansDelivered`, `NoCollision`, `Recovers` | two writes of the master, an exchange of the slave, one fault of any kind, `FairSpec` | holds, 361,546 states |
| `spi` | `TypeOK`, `CompletedOnce`, `DeliveredOnce`, `AckedMeansDelivered`, `Recovers` | two writes of the master, one of the slave, one fault of any kind, `FairSpec` | holds, 277,312 states |
| `routing` | `TypeOK`, `AtMostOnce`, `ReachesListeners`, `Repaired` | a hub and two leaves, one topic, 2 changes, 1 message, `FairSpec` | holds, 197,592 states |
| `show` | `TypeOK`, `GateAfterReady`, `HeldUntilBooted`, `RefusedOnlyAfterCut`, `Agreement`, `Repaired` | 2 GPUs, the engine of one, 3 presets, 2 rotations, one Next, stop, round of failed publishes and lost play command each, `FairSpec` | holds, 255,534 states |
| `ingress` | `TypeOK`, `Tiled`, `Reclaimed`, `AccessImpliesValidation`, `ImplementsFrameStore` | 4 frames of two sizes in 10 bytes, 3 tasks | holds, 178,568 states |
| `battery` | `TypeOK`, `ScanFaithful`, `SessionFits` | 2 packs, a journal of 8 records, sessions of at most 5, 2 sessions, one failed append, any number of power failures | holds, 364,768 states |
| `battery_footer` | `FooterOnce` | as `battery` | violated |

Bounds of `Drainer`. Two transports are enough for a fan-out of which one part
fails, and for acknowledgements from two tasks; three arrivals are three messages, or
duplicates in every phase of the first copy; slots and queues are small enough to be full.
The arena holds more frames (`IngressRecords` 3) than a publish queue (`QueueDepth` 2), as
in the code: the smallest frames are about 30 bytes, so 33 to 35 of them fit in 1024 bytes,
and more once the 32 entries of the serialized table are used up and only payloads are
kept (`IngressBuffer.hpp:86-103`, 64 records), against queues of 32. The run reaches the
state in which this stops the node (`pc = "blocked"`). Two constraints keep it small:
the remote headers, which are interchangeable, are first stored in one order
(`NamedInOrder`), and a third frame arrives only while the second transport's publish
queue is empty (`ThirdFrame`). `MaxArrivals` and `MaxFlaps` only make the state space
finite; the proofs do not use them. `SlotCount <= QueueDepth` (32 and 32 in
`include/StaticConfig/PubSub.hpp`) is the one assumption about sizes. Deadlock is not
checked since `std::unreachable()` may halt the node (`Unreachable`) and a full publish
queue may block it (`EnqueueReceived`).

Bounds of `TaskController`. Two tasks are what an overlap of an old and a new one
takes; a table of one handle is filled by one leaked handle, so that the failing
registration is reached; the second `end()` follows a failed or a successful
first one, with a `begin()` in between. Runners interact only through the mutex,
the table and the counts of `_onEnd`, for which the violated run has two. The
same invariants were explored with two runners and one task each (738,013
states). Nothing happens after the last runner is removed and the calls of
`end()` are used up, so deadlock is not checked.

Bounds of `Rs485`. Requests in both directions meet the other's turn; an exchange
takes the slave through its attention request and the master's grant. The second write of
the master is the one that an answer to the first could be taken for: the mutant of
`AckedMeansDelivered`, a reset that keeps the input of the old connection, breaks the
property here and not with a single write. The run explores one fault at any point of any
behaviour, and `Recovers` is claimed for that: two faults reach further stuck states. The
safety properties were also explored with two faults: two writes of the master (460,607
states), and two writes and the exchange of the slave (8,263,742 states).
`MaxMissed` is the code's 3; four sequence numbers wrap; three frames fill a UART's
buffer.

Bounds of `Spi`. Two writes of one node are what a cumulative acknowledgement takes;
one data frame per slot keeps them in different slots; the table has two entries and
is full with both. Six sequence numbers wrap within the run: the code's wrap after
65,536 slots, which the hellos of a peer that is switched off reach in hours. One
fault of any kind is what the run explores; `DeliveredOnce` names the two faults that
together break it (the slave's answer lost to noise, and a restart of the slave before the
next turn: the repeated slot, which also answers a hello, resynchronises the slave and
its data is delivered again). The invariant behind its proof was also explored with three
faults and one write in each direction (2.3 million states). An idle link stops,
since no configuration enables heartbeats, so deadlock is not checked.

Bounds of `Routing`. A hub between two leaves has every role: origin, relay, end.
`h` is subscribed at the start; `h` and `b` subscribe and unsubscribe; the link between
them may fail; `a` and `h` may reboot; calls and faults together are two, publications
one. The behaviour stops when they are used up, so deadlock is not checked.

Bounds of `IngressBuffer`. Four frames of four sizes of holes fragment ten bytes: the
run reaches a store that is refused for lack of a span, of a slot and of a hole
although enough bytes are free, a payload kept without its frame beside serialized
ones, and two tasks releasing at once. Nothing counts up, so there is no other bound.
Frames of one size and the links' tasks are interchangeable (no liveness is checked).

Bounds of `Show`. Two rotations bring the first layer back, and with a Next the presets
wrap; Next may be selected before, during and after a fade, and a stop come at any point.
One engine is followed since engines do not interact; two GPUs are what readiness takes.
One round with failed publishes and one lost play command meet in every stage. The show stops when
these are used up or a stop command came, so deadlock is not checked.

Bounds of `Battery`. A session has two intervals (the second may be the partial one that
is queued when the session ends, or one too many) and one profile point; a journal of
eight records holds a complete session and a part of another, so it also fills up. The
curve builder reads four records per call, so it ends in the first, second or third call. One
append fails, in any of the three ways; power fails any number of times. Session ids end at 2,
which reaches the refusal at the largest id. The behaviour goes on for ever (`Boot`).

Fairness. `Show`: the main loop, the tasks of the nodes and each GPU's rendering go on,
and a fade ends; nobody has to press a button, and the master need not rotate. `Rs485`: tasks run, a user that checked enqueues, and time passes
(strong, since a tick is enabled only while the tasks rest). `Spi`: the master's and
the slave's task run, at every interval and on notification. `Routing`: runners and the
applications' calls go on, a link that is down comes up, and the replay interval
elapses again and again. `Drainer`: the runner is scheduled again and again (its periodic
interval, and notifications), each link's task finishes what it began (every
write is acknowledged, refused, times out or is reset), and a link that is down
comes back. `TaskController`: tasks that can run are scheduled, an operation that
holds the mutex ends, and a reaper waiting for the mutex gets it in the end
(strong fairness: FreeRTOS hands a mutex to a waiter). Failing hooks, starts,
signals and ends are never forced.

### What the violated runs show

* `drainer_unreachable`: `pollInto` ends in `std::unreachable()`, but its loop does
  end by its bound when `maxCount` envelopes are dispatched.
* `task_controller_closed`: `_onEnd` compares the number of runners reaped with
  the number asked to stop; a runner that failed earlier is counted for one that
  is still running, which is then left alone by a controller that is "closed".
* `task_controller_stack`: `hasStopped()` is visible before the task has left its
  static stack, which a restart reuses.
* `battery_footer`: `markFooterWritten` clears the pending footer but not the flag that
  the header was written, and every `work()` asks for the footer of an aborted or invalid
  session whose header was written: the footer is appended again and again until the
  journal is full. The next scan takes the second one for a corrupt record, which disables
  calibration and the learned profile.

Two smaller disagreements are stated by properties that name them. `docs/wire-rs485.md`
says that either side resets after three missed heartbeat windows, but
`_runReadyTransactions` returns before the heartbeat step unless the node holds the write
slot: `Stuck` of `Rs485` names the states that are never left. A task that starts before its
creator stores its handle (`Runner.hpp:297`) never deregisters it: `TaskController`
reaches this, and its properties hold all the same.

### What the conditions of the properties leave out

* `Drainer!RunnerNeverBlocks` excepts a publish queue that fills up after a link failure.
  When the link goes down between `receive` and the dispatch (`BaseTransport.hpp:346-352`),
  the envelopes received stay in the queue. After the link has come back the next poll
  receives up to its bound on top of them, and the send at 324-326 has no timeout and no
  other consumer than the runner: with more frames in the arena than the queue has room
  for, the node stops for ever. The property says that nothing else can block it;
  `EventuallyReleased` promises nothing of a node that is blocked, or halted by
  `std::unreachable()`.
* `Rs485!NoCollision` excepts damaged headers and late answers: the waiting side then
  takes the turn back while the other still holds it; and stalls and restarts that come
  with another fault, which the run's one fault never reaches. `AckedMeansDelivered`
  excepts more than two faults of which one is a damaged header, a late answer, a stall or
  a restart (see "Only model-checked"). `Recovers` excepts
  late answers and reboots: a stale frame in the master's buffer makes it discard the
  hello reply behind it at every retry. `Stuck` names three states that a node does not
  leave by itself; the run shows that there are no others. `Asserted` reads the attention
  line as the slave's queues stand, while the node drives the line after each change of its
  queues (`Node.hpp:896-912`): the two are one step here.
* `Spi!AckedMeansDelivered` has two exceptions. `Lost`: a write that noise, a cut slot or
  a restart lost and that the acknowledgement of a later write covers.
  `docs/spi-transport-plan.md` (288) says that a corrupted or missed slot ends in a timeout
  or nack of its write; by its own rule (108) and `_completePendingWritesThrough` it is
  acknowledged when a later write is. After a restart this includes a write whose slot the
  slave dropped as an old one.
  `Stale`: it needs no fault. The slave answers the master's hello and then the master's
  answer, so a second hello reaches a master that has already sent a write. It
  resynchronises the master (`Transceiver::reset` sets the frame number to 1 again), which
  fails that write although the slave takes it, and the slave's acknowledgement of it
  completes the next write, whose frame has the same number. The same document (121-122)
  says that the completion of a write means that the peer's wire handler accepted its data.
* `Routing!Repaired` excepts a runner that waits for room in its own publish queue
  (`Node.hpp:127`). Routes nobody wants any more are only extra traffic: `Covered` asks
  that routes contain the subscriptions. An Unregister from one of two nodes behind a
  link clears the topic for both (`docs/pubsub-transport-refactor.md`, 265-273); the
  periodic replay repairs it, and `ReachesListeners` does not hold in between.

* `Show!RefusedOnlyAfterCut`, `Agreement` and `Repaired` except a fade that was cut short:
  the master ends a fade on its clock, and a user who selects Next before the GPU has
  ended it sends a stage whose opening commands cancel it. The same happens to a Next that was
  handled just as the boot animation ended: its fade is staged before the initial visual, which
  cancels it. The layer that was fading in
  is then neither at 255 nor the only one enabled, the swap is refused, and the next stage
  sets the other layer to 0 too: the display stays dark. `Losable` of the run holds play
  commands only: a lost layer, opacity or swap command is never sent again, nor is the
  output enable, and the display stays as it is until a restart. After a stop the
  properties say nothing: `docs/animation-pipeline.md` (114-117) promises silence until
  the master restarts, but a stop that comes between the check of `fftVisualSuppressed`
  and the publish does not hold the publish back, and Next (`handleMenu`, 1546) does not
  check it at all.

* `Battery!ScanFaithful` excepts repeated footers (`battery_footer`): they make the scan
  report a corrupt journal. What it finds is still the last completed session. `SessionFits` excepts
  a session that was armed before the reboot footer of the previous one was written: the
  check of the room does not count that footer, so the session may be one record short and
  ends in an overflow. Neither property says that a completed session is one the user saw
  complete: a footer whose flush or close failed is reported as an invalid session and
  activated by the next start. Nor that its totals are those of the session: a pack that
  comes back while the profile is written begins a new count, and the footer records it.

## 4. Proofs

### Drainer

For every number of transports, slots, messages, arrivals and link failures,
under `DrainerAssumption`:

* `TypeCorrect` (`TypeOK`). `TypeInv` adds `Control` (what the runner holds at each
  `pc`) and `OccupiedNamed` (an occupied slot has a header).
* `Invariance`: `IInv == TypeInv /\ WorkInv /\ OwnerInv` is inductive. `WorkInv`
  relates pending bits to queued handles, wire slots, acknowledgements and the
  fan-out under way; `OwnerInv` makes the owners of a payload unique. Neither is
  inductive alone: an acknowledgement looks up its slot by header, so it clears
  the right bit only because a header is in one slot (`SlotUnique`, of
  `OwnerInv`); a slot is emptied, and its header may enter again, only because no
  handle to it is left (`QueuedUnwritten`, `WrittenPending`, of `WorkInv`).
* From it `Ownership` (`OwnedOnce`), `Correspondence` (`PendingMatchesWork`) and
  `Awaited` (`WritesAwaited`).
* `SlotsSuffice` (`NoRejection`): a budget invariant says that what may still be
  dispatched in this poll fits the free slots, since links only add free ones.
* `NeverBlocks` (`RunnerNeverBlocks`). Handles in a send queue are distinct slots, so by
  counting it is not full when the runner adds to it. For the publish queues `PollInv` says
  that, until a link has failed, only the queue of the transport being polled holds
  anything, and what the poll has received and may still receive is no more than the free
  slots it counted. After a failure the envelopes of a queue are still distinct records,
  so it has room if the arena holds no more frames than the queue (`InboxRoom`). The
  exception of the property is what is left, and the run reaches it.
* `Refinement` (`ImplementsRetention`): initial states map to initial states and each
  action to a step of `Retention` or a stutter, given `IInv`.

### IngressBuffer and ByteArena

For every buffer, table and record size and every set of frames and tasks, under
`ArenaAssumption` and `IngressAssumption`:

* `ArenaTiled` (`Tiled`). `ArenaInv` says that spans
  are disjoint, cover the buffer, have an owner exactly when they are used, and that
  no two free ones touch. A split keeps this because the chosen span is free; a merge
  because the neighbours of a free span are used.
* `NothingLeaks` (`Reclaimed`): the frames held, the slots, the records and the tasks
  account for each other, so with nothing held nothing is taken.
* `OnlyValidatedIsRead` (`AccessImpliesValidation`) and `TypeCorrect` (`TypeOK`).
* `Refinement` (`ImplementsFrameStore`). The invariant adds `Stored`: the bytes of a
  held frame are in its span. Each operation on another record preserves it by a
  framing lemma (`Addressed`, `Holds`): spans of different records never overlap.

### TaskController

For every number of runners, tasks, handles and ends, under
`TaskControllerAssumption`, from `IInv == Types /\ Storage /\ Order`:

* `Safe` (`StorageSafe`). `Storage` says that only the task created last uses a
  runner's storage, and while one does the runner has not stopped (unless it is being
  killed), is neither removed nor about to be, and its handle is that task or none.
  The handle is what makes it inductive: it may be stored after the task that owns it
  has cleared it and ended, so "no handle" does not mean "no task", nor the converse.
* `NoneRestarted` (`NoRestartOnceAsked`). `Order` says who may start a runner at
  which point, that only Core's reap restarts, and that `_permitRegistration` stays
  false from the request to stop to the end.
* `TypeCorrect` (`TypeOK`).

### Rs485

For any requests, queue and buffer sizes, sequence numbers and any number of faults,
under `Rs485Assumption`, from `IInv == TypeOK /\ QueueInv /\ WaitInv /\ CompletedOnce`:

* `ExactlyOnce` (`CompletedOnce`). `CompletedOnce` alone does not say that a request
  taken from a queue, or failed by a reset, was still open. `QueueInv` says that a
  queue holds open requests of its own node and kind, each once; `WaitInv` that a
  node waits only for an open request of its own. A reset completes these two and
  leaves neither behind; requests of the other node are never touched.
* `TypeCorrect` (`TypeOK`), with the bound on missed heartbeats.
* `TakenAtMostOnce` (`TakenOnce`) and `NoAckMadeUp` (`AcksEarned`), two conjuncts of
  `AckedMeansDelivered`, for any number of faults. `OnTheWay` says that a request is on
  the line in at most one frame, only between its sending and its delivery, and on its
  peer's line; `Earned` that the acked requests of a node and the answers on their way to it
  that accept one are together no more than what its peer has taken. Each step is shown
  to be one of four (`Moves`): frames are read or lost, a request is sent, taken or
  answered.
* `TurnsNeverMeet` (`NoCollision`) and `AcksAreTrue` (`AckedMeansDelivered`) hold when the
  faults are `Lossy`: frames lost, payloads damaged, UART writes refused, in any number
  and for any `SeqMod` from 2, `RxSize` and `MaxMissed`. The invariant is
  `InStep == Lossy => Fits(...)`, a relation between the two turn machines and the frames
  on both lines. The line to a node is determined by where the two stand: it is empty,
  or holds the one frame its peer waits to have answered, or one answer to its own,
  or a hello beside them, or the remnant of a frame whose payload was not read.
  `Placed` says which, for each slot the slave can be in: with the turn (`AtTurn`), waiting
  for a request (`Listening`, `Starting` without a connection), and waiting for an answer
  (`Answerable`, or `Idling` when its frame was refused). An answer names the frame it
  answers by two numbers, and because no other frame can be on the line they need
  only differ from each other. `Reply` also says that an ack on the line is for a request
  that the handler has taken; `Retrying` that before another hello the old one is gone.
  TLC checked `InStep` on four instances (requests of both kinds from both ends, `SeqMod`
  2, 3, 4 and 8, one to three frames in the buffer, two to four faults) before the proof.
  Each step of a node has a lemma on `Fits` over values (two nodes, two lines), and one
  that says the action is such a step. A stall, a restart, a late answer and a
  damaged header are not `Lossy`. The first two break it: see "Only model-checked".

### Show

For every set of GPUs, number of presets, kinds of lost commands and bounds, under
`ShowAssumption`:

* `TypeCorrect` (`TypeOK`). `TypeInv` adds that the queued menu events are no more than
  the selections made.
* `GateSafe` (`GateAfterReady`) and `NothingBeforeBoot` (`HeldUntilBooted`), from
  `StartInv`: who announced itself has begun; from the published enable command on every
  GPU has; before, no enable command is on its way to anybody; the main loop is past its
  flags, and a play or swap command is on its way, only in normal operation. The
  properties speak of what a GPU does, and a command is handled long after the master
  published it: the invariant follows it through the channel, where commands are lost
  and a stage that failed half-way has left some of its commands.
* `Agreeing` (`Agreement`) and `SwapsAccepted` (`RefusedOnlyAfterCut`) need what each GPU
  will look like after every prefix of the commands on their way. A token is as much of a
  GPU's engine as is known after some of them: what it shows (`Shows`), or whether it will
  accept a swap (`Accepts`). The invariant says that the commands on their way lead (`Leads`) from
  a token that fits the engine (`Matches`, `Fits`) to one that fits what the master believes
  (`Believes`). A publish appends commands and moves the end of the path, the engine takes
  one and moves its start, a stage that failed half-way leaves a token that says less. `Loop`
  adds what the main loop's flags say of the master's beliefs.
* `SwapsAccepted` assumes that only play, enable and stop commands are lost (`Losable`). With
  a lost layer, opacity or swap command the property is false; the run loses play commands. Both
  invariants were also explored with two failed publishes, two Next and all three kinds of
  loss (5,185,465 states).

### Spi

For any writes, depths, slot sizes, moduli and faults, under `SpiAssumption` (the two
numberings wrap at an even number above two, as the code's types do), from `IInv ==
Typed /\ Fits /\ ReadInv /\ Kept /\ CompletedOnce`:

* `Completes` (`CompletedOnce`). `Kept` says where every open write is: once in its
  owner's queue, marked "queued", or in one entry of its owner's table of pending
  writes, marked "sent", never in both. Without it a reset could complete a write that
  an answer in the same slot has completed. A received slot is handled frame by frame, so the
  proof follows the fold: what is settled by the frames up to the n-th is apart from
  what is settled after it (`ParseRxOf`), the rest of the queue moves into the table one
  frame at a time (`Processing`).
* `TypeCorrect` (`TypeOK`): with `Fits`, the table, the queue and a slot's frames
  never exceed their depths.

From the second invariant, `Delivering == Placed /\ SlaveOnce /\ Heeded /\ Steady /\
Acknowledges`, which is inductive given `IInv`, and from `NoneAssumption` (that nothing
was received is no reading):

* `DeliversOnce` (`DeliveredOnce`). Neither direction is safe for the reason of the other.
  A slot of the slave is read once because the step that follows drops it, whatever the
  numbers (`SlaveOnce`). A slot of the master may be clocked again, and there are two
  independent reasons why its data is not taken again: as long as no noise hid a slot of the
  slave, the master keeps only what the slave has not read (`Heeded`); and as long as the
  slave read every slot whole and did not restart, it expects the number after the slot it
  took, which makes that slot one behind (`Recognised`, `NextIsBehind`). The second reason
  needs that a slot with data never holds a hello, since a hello skips the comparison, and
  so that such a slave never starts the handshake again (`Shaken`).
* `EarnsAcks` (`AcksEarned`, a conjunct of `AckedMeansDelivered`). `Acknowledges` follows an
  acknowledgement back: a node that owes or sent one took a write, also one on its way in a
  slot of the master, which outlives a restart of the slave.
* The operators of the transceiver have one lemma each for types (`Like`) and one for slots
  (`BeginSlot` to `ParseRxSlot`); `SlaveStepDid` and `SlotDid` say once what a step does in the
  terms of the invariant, so that each step of the proof is about sets of writes only.

### Routing

For every tree of nodes, any finite set of topics, subscriptions, fragile links,
restarts and bounds, under `RoutingAssumption`. That the links form a tree (`IsTree`: the
branches behind the neighbours of a node are apart, and they and the node are
everything) is the code's own condition: a node forwards to every route but the one a
message came by and remembers no message, so a cycle would circulate it for ever.

* `NotTwice` (`AtMostOnce`). `Copies` says that all copies of a message under way are
  on hops with disjoint branches ahead, where nobody has it yet; a node that passes it
  on splits its branch (`Onward`, `Apart`). Counting deliveries alone is not
  inductive: what forbids the second one is where the copies are.
* `Reaches` (`ReachesListeners`). `Owes` says that, while a message is owed to a node,
  it was delivered there or a copy is on a hop towards it; every such hop has its
  route, no unsubscription of the topic is on its way or under way, and no link is down.
* `TypeCorrect` (`TypeOK`).

### Battery

For any packs, sizes of a session and of the journal, any records per step and any
number of power failures and failed appends, under `BatteryAssumption`:

* `ScanFinds` (`ScanFaithful`). `Running` ties the RAM of the calibration to the file:
  while a session is written, the scan of the file ends in that session, at its
  sequence, checksum and points (`Open`), unless its footer is already there (`Closed`).
  That an append preserves this is the equation `Scan(Append(j, r), p) =
  ScanRecord(Scan(j, p), r, p)` (`ScanAppend`), and one lemma per kind of record.
* `RoomEnough` (`SessionFits`): what a session has still to write, counted by stage
  (`Stages`), is within what the file has left, and each append uses one of each.
* `TypeCorrect` (`TypeOK`).

### Recursive functions

`Scan` and the parsing of an SPI slot are recursive functions over the natural
numbers. The library's induction rules take an operator and no installed prover can
instantiate them; `SetInduction` is the same rule for a set, proved from the existence
of least elements (`WFMin`), so "such a function exists, is unique, and has a property at
every index" is proved with it by comprehension over `Nat`.

### Only model-checked

Liveness under fairness (`EventuallyReleased`, `StoppedIsReaped`, `Recovers`,
`Repaired`) is beyond the prover. Three safety properties rest on the sequence numbers
of all that is on the way, and fail or may fail when faults are combined:

* `NoCollision` of `Rs485` with stalls and restarts: the run shows that one of them alone
  does no harm, and the property excepts more. With two restarts of the master the
  reply to a hello before the restart completes the handshake after it, since every first
  hello has number 0: the master is synced with what the slave said before, reads
  an old nop behind it, and both hold the turn. With four stalls of the slave in the
  handshake (`MaxMissed` 1) the retried hellos wait in its buffer, and each one read
  gives it the turn; TLC finds no collision with three.
* `AckedMeansDelivered` of `Rs485` with damaged headers, late answers, stalls and restarts is
  claimed for up to two faults. The run has one; with two faults TLC finds no
  counterexample either (8,263,742 states, two writes and an exchange). With two writes of
  the master and three faults (a restart of the slave and two late answers) there is one, for
  `SeqMod` 2 and 8: the ack of the first, made in an earlier connection, is read as the ack
  of the second, since a new connection counts from the sequence numbers the old one had.
  What protects up to two faults is the input discarded at a reset and the turns more
  than the numbers.
* `AckedMeansDelivered` of `Spi`, but for `AcksEarned`, is claimed for one fault: which writes
  a cumulative acknowledgement covers.

## 5. Plan

Done: every module of section 2 is checked, and there are theorems about `Drainer`, `IngressBuffer` with
`ByteArena`, `TaskController`, `Rs485`, `Spi`, `Routing`, `Show` and `Battery`; the
refinements of `Retention` and `FrameStore` are proved. Next:

1. `AckedMeansDelivered` of `Spi`: which writes a cumulative acknowledgement covers, for any
   number of restarts and bus errors.
2. Raw relays of the transports, and the exchanges and the clock marker of SPI.

## 6. Not modelled

LED rendering, audio and the battery estimator are numeric code over large
arrays or floating point, out of TLC's reach. Logging, metrics, commands and
monitoring format and forward. WiFi, Bluetooth, file system and secrets are calls
to ESP-IDF. `include/Generated`, `include/Data` are generated; tools, tests and
schematics run on a host. Most of the repository's lines are such code.

Of the modelled parts: Rs485 leaves out `begin` and `end` of a node and errors of the
attention line; Spi leaves out exchanges, the clock marker, heartbeats, backoff and
coalescing delays, `_onEnd`, and short and overlong transfers; Routing leaves out
deregistering a transport and two tasks subscribing at once; IngressBuffer leaves out
eviction and ageing, which the node never asks for, mutex timeouts, and the buffers
that nothing uses (`EgressBuffer`, `LocalBufferedTransport`); Show leaves out restarts of
a node, the wheel, dials, battery gauge and debug mode, which turn the latest input into
a command, and the other layers of the engine. `PROJECT.json` gives the
reason for each component.
