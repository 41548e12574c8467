# TLA+ verification of WKOpenVR

WKOpenVR is a SteamVR driver with an overlay and a set of feature modules. The
driver is loaded into `vrserver`; features run in it as modules, in sidecar host
processes it spawns (face tracking in C#, captions in C++), and in the overlay.
The parts talk over named pipes and shared memory. This directory holds TLA+
models of the parts where threads and processes meet, TLC runs over them, and
TLAPS proofs.

## 1. Inventory

| component | state | operations | interacts with |
|---|---|---|---|
| face frame ring (`FrameWriter.cs`, `Protocol.h` `FaceTrackingFrameShmem`, `FacetrackingDriverModule.cpp` `WorkerLoop`) | ring of slots (generation, body), `publish_index`; the writer's local index; the reader's `last_idx` | publish a frame, poll, read the latest frame with retries | one host process writes, one driver thread reads; the supervisor kills and respawns the host |
| host supervisor (`HostSupervisorBase.cpp`) | `process_handle_`, `attached_to_existing_`, `stop_requested_`, `halted_`, `consecutive_fast_exits_`, `backoff_ms`; a job object | `Start`, `Stop`, `Restart`, `Spawn`, `Kill`, `CleanupStaleHostIfWedged`, `MonitorLoop` | module thread, its own monitor thread, IPC thread, face worker thread; the host process and a host of an earlier session |
| control messages (the two `HostSupervisor.cpp` subclasses) | the pending uuid or config message, its sent mark | set and send, `OnHostReady`, `OnHostExited` | IPC thread and monitor thread; the host's control pipe |
| OSC router (`OscRouter.cpp`) | bounded ring of packets, send socket and port, pending port, stop flag | `PublishOsc`, `HandlePublish`, `HandleSetConfig`, send worker, publish-pipe worker, `Init`, `Shutdown` | face worker, IPC thread, sidecars over the publish pipe, UDP |
| OSC publish pipe (`RouterPublisher.cpp` against `PubPipeWorkerMain`) | a byte stream; the publisher's handle; the frame being read | connect, identify, write a frame, retry, read a frame | captions host process and router thread |
| route table and statistics (`RouteTable.cpp`) | subscriptions, counters | `Subscribe`, `Unsubscribe`, `Dispatch`, publish statistics | IPC thread, send worker, overlay |
| OSC wire format (`OscWire.h`) | none | pattern match, encode | router, route table |
| driver lifecycle and hooks (`ServerTrackedDeviceProvider.cpp`, `Hooking.cpp`, `InterfaceHookInjector.cpp`) | active modules, IPC servers, hooks, in-flight detours | `Init`, `Cleanup`, detours | every module; vrserver |
| IPC server and clients (`IPCServer.cpp`, `IpcClientBase.cpp`) | set of pipe instances, connect event, stop flag; client handle | `Run`, accept, read, reply, `Stop`; connect, handshake, send, resend | overlay and driver modules |
| device transforms (`ServerTrackedDeviceProvider.cpp`, its pose hook) | a transform slot per device, the tracking system of each, a table of fallbacks | `SetDeviceTransform`, `SetTrackingSystemFallback`, `HandleDevicePoseUpdated` | IPC thread, pose hooks of all devices, phantom |
| driver-side headset synthesis (`DriverSynthCompose.h`, the same hook) | head-mount config, tracker snapshot, source blend, reset flag | `SetHeadMountConfig`, snapshot, `Compose`, `StepSourceBlend` | IPC thread, hooks of the tracker and of the headset |
| phantom trackers (`DropoutState.cpp`, `PhantomDriverModule.cpp`) | a dropout ladder per device, opt-in and role caches, timings | `OnRealPoseObserved`, `MaybeOverridePose`, five requests | pose hook, IPC thread |
| pose shared memory (`Protocol.h` `DriverPoseShmem`), input-health snapshots | rings and seqlocks | publish, lagging read | hooks and overlay |
| face tracking driver worker | heartbeat, wedge timers, shaping state | wedge detection, `Restart`, shaping, output | frame ring, supervisor, OSC router |
| face tracking module host (C#) | loaded modules, subprocesses | load, select, publish | frame ring, control pipe |
| captions host | audio, recogniser, chatbox pacing | push to talk, translate, publish | publish pipe |
| smoothing, input health, calibration, quest app, dev module, overlay shell, common utilities | see `PROJECT.json` | mostly numeric, UI or I/O | |

What is hard in this code, and what makes each modelled part correct:

* **Frame ring.** The writer and the reader share memory without a lock, and the
  writer can be terminated at any store. Correct means: a frame handed over is
  one frame, it is not stale, and no frame is missed for good.
* **Supervisor.** Four threads share a handle; process exit, `Restart`, `Stop`
  and a failing `CreateProcessW` interleave with a monitor that reads state,
  waits, and uses it afterwards. Correct means: no host is left behind, `Stop`
  returns, a lost host comes back, the breaker counts what it should, and only
  exited hosts are reaped.
* **Control messages.** The lock is not held across the send. Correct means: what
  is marked as sent was sent, everything is sent in the end, and the host ends
  up with the current message.
* **Router.** Several producers, a ring that wraps and overflows, a port that
  changes while packets wait, and a shutdown that joins blocking threads.
  Correct means: FIFO without loss or duplication, drops only when full, an edit
  takes effect, and `Shutdown` returns.
* **Publish pipe.** Two programs implement one framing; connections break in the
  middle of a frame. Correct means: what is enqueued are the packets that were
  published, in order and once.

* **Driver lifecycle and IPC.** vrserver ends or crashes at any time; `Cleanup`
  takes down what server threads and detours still use; a client retries what may
  have been executed. Correct means: `Cleanup` and every client call return, an
  answer belongs to its request, a request is executed at most twice, and no
  handler runs on a module that is gone.
* **Device transforms.** The pose hook releases its mutex in the middle to ask
  SteamVR something. Correct means: no device applies a fallback that is gone,
  an enabled device follows the overlay, late answers overwrite nothing.
* **Headset synthesis.** Three threads share a config, a snapshot and a flag,
  each protected by itself. Correct means: no jump between sources, nothing left
  of a deselected tracker, and in the end the right source.
* **Phantom.** A ladder of time-outs, reconfigured on the way, that must notice
  what does not arrive. Correct means: it climbs only, from the last pose on, and
  no silent tracker is left with a healthy pose.

`PROJECT.json` lists the hazards with their lines under `hazards`.

## 2. Modules and the code

| module | models | proofs | TLC module |
|---|---|---|---|
| `FrameRing` | writer, reader, kill of the host | `FrameRingProofs` | `MCFrameRing` |
| `HostSupervisor` | supervisor, its threads, host processes | `HostSupervisorProofs` | `MCHostSupervisor` |
| `ControlMessage` | the queued message of both supervisor subclasses | `HostSupervisorProofs` | `MCControlMessage` |
| `SendQueue` | what the send queue promises (abstract) | | |
| `OscRouter` | queue, publishers, both workers, port change, shutdown | `OscRouterProofs` | `MCOscRouter` |
| `PacketDelivery` | what the publish pipe promises a sidecar (abstract) | | |
| `PubPipe` | publisher and reader of the publish pipe | `PubPipeProofs` | `MCPubPipe` |
| `Phantom` | dropout ladder, hot path, requests | `PhantomProofs` | `MCPhantom` |
| `DeviceTransforms` | transform slots, fallbacks, pose hook | `DeviceTransformsProofs` | `MCDeviceTransforms` |
| `DriverSynth` | head-mount config, snapshot, source blender | `DriverSynthProofs` | `MCDriverSynth` |
| `IpcServer` | server thread, `Stop`, client of one pipe | `DriverLifecycleProofs` | |
| `DriverLifecycle` | `Init`, `Cleanup`, detours, over `IpcServer` | `DriverLifecycleProofs` | `MCDriverLifecycle` |

`PROJECT.json` maps each definition to its lines. Definitions whose comment
starts with "Mutant of" are deliberately wrong variants; no specification uses
them. They are there so that each property can be seen to fail when the code is
wrong.

**FrameRing.** One action per store or load that another process can see:
`BeginWrite`, `OpenSlot` (generation + 1), `WriteWord`, `CloseSlot`
(generation + 2), `PublishIndex`; `Poll`, `LoadIndex`, `LoadGen1`, `CopyWord`,
`LoadGen2`. Words of the body are written and copied in any order. Stores of the
writer are seen in program order and the reader's loads happen in program order:
this is what x64 and the fences of both sides give; weaker memory is not
modelled. `KillAndRespawn` ends a host at any point and starts another on the
same segment. A frame is a serial number; this is history, the code knows only
`publish_index`. `tainted` are the slots in which a host died between its two
generation stores, `orphans` counts frames begun and never published.
Generations and indices are unbounded naturals: the 32- and 64-bit counters are
not taken to overflow.

**HostSupervisor.** One action per critical section of `process_mutex_` and per
test of `stop_requested_`. `mon`, `main` and `pc` are the places of the monitor,
the module thread and the two threads that call `Restart()`. `proc` is the
operating system's view; `Ext` is a host left over from an earlier session, dead,
answering, or hung. A probe of the control pipe can fail although the host is
up. A host takes the singleton mutex and binds its pipe in two steps, as
`Program.cs` does, and may hang once it is up. A write of the monitor's
`OnHostReady()` to a hung host may block (`mon = "blocked"`) until that host is
dead; the same write at the end of `Restart()` blocks only its caller and is left
out. The destructor waits for nobody, as in the code: `raced` marks that a
`Restart()` was about to spawn when the object went, and what it does then is
modelled as if the freed object kept its contents. The cleanup of a wedged host
kills any part of the processes it finds, since opening or terminating each may
fail. Creating the job object and assigning hosts to it is taken to succeed; the
code logs a failure and goes on without the guarantee. `failed` is history: the
last `Spawn()` returned false.

**ControlMessage.** Reading the pending message, sending, and marking are three
steps, since the lock is released between them. `Captions` selects the captions
code (mark only if the message is still the pending one; after a `Restart()` the
module sends its config again, `SendAgain`) or the face-tracking code (mark
whatever is pending; nothing is sent again). The face worker, which calls
`Restart()` too, is not a thread of this module. Process handling is reduced to
what the message sees: a host that boots, binds its pipe, exits, and is
replaced; its monitor (`monPc`) is the part of `MonitorLoop` that sends and
respawns. The monitor's mistaken reaping of a host that `Restart()` has just
started is in `HostSupervisor` only; here it would clear a mark, which leads to
one more send.

**OscRouter.** Each critical section of `queueMutex_` is a step, as is each pass
through the blocking calls of the two workers. The history variables number the
accepted packets, so that the ring's slots hold numbers and the refinement
`IsBoundedFifo` maps directly to `SendQueue`. `strays` counts packets accepted
after the last config push and sent to a different port; `answer` is what the
worker made of the last push: a socket opened, refused, or the push ignored because
its port is the one configured.

**PubPipe.** The stream is a sequence of words; reads return what is there, as a
byte-mode pipe does. The client is `RouterPublisher`, which writes its source id
once per connection; the router reads one before every frame. A word that is
not a length can have any value when it is read as one. `first` is history: no
frame of this connection has been enqueued yet; `firsts` are the numbers of the
packets with which the first frames began. They map to `PacketDelivery`
(`IsInOrderDelivery`), which may lose packets and does nothing else to them.

**Phantom.** A ladder is a record of its state and three ages (since the last
pose, since the dropout began, since the blend back began), so that time is one
action, `Clock`. `Observed` and `Ticked` are `OnRealPoseObserved` and `Tick` of
`DropoutState`; `Observe`, `MaybeOverridePose` and `HandleRequest` are those of
the module. `SetConfig` stores `timings_` without the mutex, all five fields of it
one by one (`StoreTiming`), before `FinishConfig` takes the mutex.
`Spec` is the class as its header describes it, with observations and
ticks in any order; `HookSpec` is the one caller there is, which makes both calls
with one time stamp. What is synthesised does not matter here, only whether it is
published as healthy.

**DeviceTransforms.** Each request and each pass of the hook is one step under
`stateMutex`, except that the hook is split where it unlocks: around the query
for the tracking system (`HookLookup`, `HookLookupEnd`) and around the query for
a serial number when a device becomes hidden (`HookHidden`, `HookHiddenEnd`).
A transform is an opaque value; `Mid` is any value on the way to the target.
`pushed` and `overlapped` are history.

**DriverSynth.** A pose is the set of devices it is made of; time is counted in
frames of the headset, which are taken to be regular, so a blend of two frames
has a frame that shows both sources. The clocks advance with every frame, with
those that pass the headset's own pose through as well. The durations are part
of the config: a request that changes only them resets nothing, and a frame uses
the ones it has read. The steps are the critical sections of the three small
mutexes and of the reset flag, since `SetHeadMountConfig` does not take
`stateMutex`. The early return of the hook for a device of unknown tracking
system, which skips the blender, is in `known`.

**IpcServer, DriverLifecycle.** `IpcServer` has the state and the actions of one
pipe: the server thread with one action per system call that another party can
see, the failures of `CreateNamedPipe`, `ConnectNamedPipe`,
`GetOverlappedResult` and of the wait among them, completion routines inside its
alertable wait, `Stop()` in four steps (flag, read the handle, signal, join),
and the client. It is no specification by itself: `DriverLifecycle` extends it,
adds `Init`, `Cleanup`, a module and a detour, and lets vrserver exit or crash,
upon which a new one may load the driver while the overlay keeps its client. One
server, module and detour stand for the several the code has: they are alike,
and are started and stopped one after the other. The module's `Shutdown` begins
and returns in two steps, and need not return.

## 3. Runs

| run | result | shows |
|---|---|---|
| `face_ring` | pass | `TornOnlyWhereKilled`, `FreshRead`, `StepBackByOne` with a kill anywhere; up to the kill, equal indices mean no new data and every frame or a later one arrives (`EqualMeansNoNewData`, `CatchesUp`) |
| `supervisor` | pass | `NoHostOutlivesDriver` (unless a `Restart()` was about to spawn as the object was destroyed), `BreakerHolds` (with the breaker open only a `Restart()` starts a host), `StopReturns` and `Recovers` (unless a write to a hung host blocks the monitor for ever), with failing process creation and every kind of leftover host |
| `control_message` | pass | captions: `SentMeansWritten`, `EventuallyWritten`, `RestartReachesHost` |
| `osc_router` | pass | `IsBoundedFifo`, `DropsOnlyWhenFull`, `AtMostOneStray`; `EditTakesEffect` (unless the socket is refused or the push ignored), `Drains`, and `ShutdownReturns` unless a connected client stays silent |
| `pub_pipe` | pass | `FirstFrameIsPacket`: the first frame of every connection is a packet; `IsInOrderDelivery`: the first frames implement `PacketDelivery` |
| `pub_pipe_framing` | violation | from its second frame on, what the router enqueues of a connection of `RouterPublisher` is no packet |
| `phantom` | pass | `DropoutIsAnchored`, `SilentIsNotOk`, `LadderOnlyClimbs`, `OptInReachesSlot`, for the ladder as its header describes it: a statement about the class, since the hook never lets it leave `REAL` (`LadderStaysReal`) |
| `phantom_frozen` | violation | as the hook drives it, a silent tracker keeps its last healthy pose for ever |
| `device_transforms` | pass | `NoOrphanFollower`, `EnabledFollowsOverlay`, `OverlayNameWins` |
| `driver_synth` | pass | `NoJump` (under blends of two frames or more, whatever the durations were before), `OldTrackerGone`, `SteadyDrives`, `LostFallsBack` |
| `driver_lifecycle` | pass | `AtMostTwice`, `AnswerMeansExecuted`, `StopIsHeard` (no wakeup is lost between `Stop()` and the server thread), `CleanupReturns` unless a module's `Shutdown` hangs, `ClientAnswered` unless the client is on an instance that an ended server thread left open, with exits and crashes of vrserver and of the overlay |
| `driver_cleanup` | violation | a request (no handshake) is in a module's `HandleRequest` when `Cleanup` shuts it down |

The type invariants of the frame ring, the router, the publish pipe, the headset
synthesis, the control message and the lifecycle are in no run: they are theorems
(section 4), and TLC agrees when they are added to the configurations. So is
`DownIsQuiet`.

The runs that end in a violation state what a comment or a text of the
repository says; `findings` in `PROJECT.json` quotes it.

Seen while modelling, and not given a run of their own:

* Frame ring: a host killed between its two generation stores leaves an odd
  generation; the next host takes it as its base (`FrameWriter.cs:278`), so that
  slot is even while it is written and odd when it is done, against "odd =
  mid-write, even = stable" (`FrameWriter.cs:60`). `TornOnlyWhereKilled` confines
  the damage to the slot. A respawned host counts `publish_index` from 1 and can
  meet the driver's `last_idx` with a new frame.
* Supervisor: after one failed `CreateProcessW` in the monitor nothing spawns
  again, although `HostSupervisorBase.h:25` promises a backoff (take `failed` out
  of `Recovers`). The uptime of a host is measured from the last one-second wait,
  so every exit counts as a fast one (`CountsAsFast`). Between the monitor's wait
  and its critical section a `Restart()` can put a live host in the handle that
  is then reaped. `Restart()` leaves an attached host as it is. A host that finds
  the singleton mutex taken is respawned without backoff. The monitor's write to
  the pipe of a host that hangs blocks without a time limit; `Stop()` frees it by
  killing the host, but not if the supervisor is only attached to it. A
  `Restart()` of the IPC thread can go on in a supervisor that is being destroyed
  and start a host that belongs to no job (the cause is that of `driver_cleanup`).
* Control messages: with `Captions = FALSE`, the face-tracking code,
  `SentMeansWritten` fails: the send of an older uuid marks a newer one as sent
  (`HostSupervisor.cpp:205`). `Restart()` clears the sent mark before it kills
  the host: a monitor that sends in between marks as sent what the old host got.
  Captions sends its config again afterwards and so clears the mark once more;
  what is left there is a monitor that has sent to the old host and sets its
  mark only after that, which `RestartReachesHost` excludes. Face tracking sends
  nothing again (`FacetrackingDriverModule.cpp:286`), against
  `HostSupervisorBase.h:85`. The monitor's send of an older captions config can
  arrive after the IPC thread's send of the current one.
* Publish pipe: besides the framing, `RouterPublisher.h:14` calls its own format
  that of `PubPipeWorkerMain`. The first frame of a connection is always a packet
  (`FirstFrameArrives`), and no frame has a length the router would not take
  (`FramesAlwaysFit`).
* Router: the first packet after a port edit can go to the old port; pushing the
  port already configured does not reopen a socket that failed to open, although
  the log says "will retry on config push" (`OscRouter.cpp:74`);
  `Shutdown` does not return while a client of the publish pipe is silent.
* IPC: the instance that waits for its next client is not closed when the server
  stops, nor when its wait fails (`IPCServer.cpp:168`); a client connected to it waits
  for an answer until vrserver exits. After a failed `ConnectNamedPipe`
  (`IPCServer.cpp:215`), say of a client that has left again, the server thread
  waits without an instance to connect to: no further client can connect.
  `Stop()` may signal a handle the thread has just closed. A `CreateNamedPipe`
  that keeps failing makes the server thread spin. When the hooks cannot be
  installed, `Init` stops the servers and leaves the modules running.
* Hooks: `MH_RemoveHook` frees the trampolines before the detours in flight, which
  call the original functions through them, are drained; the drain gives up after
  half a second; a thread between the patch and `DetourScope` is not counted.
* Device transforms: a request that enables a device while its hook is in the
  lookup loses its target to the fallback (`ServerTrackedDeviceProvider.cpp:966`
  calls the state untouched in between); `overlapped` marks it, and such a slot
  keeps the fallback's offset although it is enabled. A device un-hidden while its
  hook asks for the serial number has its hidden pose recorded by phantom, since
  `quash` is read again afterwards; the comment at
  `ServerTrackedDeviceProvider.cpp:1096` says that this corrupts the inverse
  kinematics.
* Headset synthesis: a frame that composed its pose before a change of tracker
  takes the reset that belongs to the change, and the old tracker's pose is held
  through the grace period; `late` marks it until the next reset. A request that
  cuts a blend to 0 ms while it is under way makes the pose jump, as does any blend
  of less than two frames (`LongBlends`).
* Phantom: publishing a virtual tracker from the pose hook enters the hook again
  on the same thread, which holds `stateMutex`.

**Bounds.** Frame ring: two slots and five frames give the writer two laps and
more, so that a reader can be overtaken by a lap and a slot spoilt by a kill is
used again; two words are the least that can be torn; two attempts show success
on the first, on the last, and failure (the code has more attempts, which add
nothing new). Ring size and number of kills are free in the proofs. Supervisor:
two process ids, for the process waited for and the new one, and the leftover
host; ids of dead processes are reused, so the number of spawns is not bounded,
but a host orphaned by the monitor and still alive takes one of the two, and a
spawn then waits until an id is free. A threshold of two distinguishes the first
from the last counted exit. Control message: three messages, so that an old, a
current and a next one exist at once. Router: two slots and three packets make
the ring fill, overflow and wrap (the proofs have no such bound); two ports and
two edits cover an edit and its revocation. Publish pipe: an id of three words,
packets of one to three and frames of up to four, so that a misread can look
like each part of a frame; four packets, enough for two connections with a
misread frame each. Phantom: one device, since devices share nothing but the
configuration; a horizon at the highest threshold, so that each is reached; two
configurations, one with the lost time-out below the synthesis time-out. Device
transforms: one device against two systems and a table of one entry, so that it
is full; the slots of two devices are independent. Headset synthesis: two
trackers, an old and a new one; two sets of durations, one with blends of two
frames, the least that have a middle, one without grace period and with no blend
to the tracker. Lifecycle: two pipe instances, one in use and one waiting; a
third would only be a second client's. `CHECK_DEADLOCK FALSE` is set for the
ring, the supervisor, the control message, the router and the publish pipe:
these systems may really stop, by shutdown or because the bounded supply of
frames, packets or edits is used up.

**Fairness.** Threads that can run do (weak fairness per thread), and a host
that boots gets as far as its mutex and its pipe. Nothing obliges a host to
publish, a user to edit, or a process to crash. `ControlMessage` has strong
fairness on one send: a pipe that is free again and again is not busy at each
attempt of the monitor. A host may hang for ever. In `FairHookSpec` of `Phantom`
time passes and a request or lookup once begun is finished; nothing else has to
happen, since the hook runs only when an upstream driver sends a pose. In
`DriverSynth` the poses of the headset keep coming. The publish pipe's client
may stay and be silent. In `DriverLifecycle` all threads but the detours run on,
except that a module's `Shutdown` need not return; strong fairness on the
completion routines and on the end of the alertable wait excludes only a
`CreateNamedPipe` that fails for ever and requests that follow each other so
fast that the wait never returns; nobody has to load, to clean up or to unload
the driver.

## 4. Proofs

All theorems hold for every value of the constants that satisfies the named
assumptions (ring size, capacity and retry count positive, the initial port
among the ports, thresholds within the horizon of the clock, the breaker's
threshold and the words of a source id positive, packets of 1 to `MaxFrame`
words, durations natural numbers, and the markers for "no handle", "no pipe",
"no message" and "no device" distinct from what they could be mistaken for).
One theorem, `MarkedMeansWritten`, has a hypothesis besides: it is about one of two
variants of the code.

`FrameRingProofs`:

* `TypeCorrect`.
* `ReadsAreWhole` (`TornOnlyWhereKilled`). The property alone is not inductive.
  `SeqlockInv` adds three facts: what the writer has stored so far
  (`WriterInv`); in an unspoilt slot the generation is odd exactly while the
  host is inside it, and the body of an even one is whole (`SlotInv`); and what
  the reader has copied is what the slot holds as long as the generation is the
  one it started from (`ReaderInv`). Generations only grow, so an equal second load
  means that nothing was written between the two.
* `ReadsAreFresh` (`FreshRead`) and `ReadsStepBackByOne` (`StepBackByOne`), from
  `FreshInv`: the words of the published slot are at least as new as the
  published frame, and nothing is more than one frame ahead of it unless a host
  died inside a write.
* `EqualIsOld` (`EqualMeansNoNewData`), from `PollInv`: before the first kill
  `publish_index` is the serial number of the frame it stands for, and the index
  the poll remembers is not ahead of the one its last read was loaded with.

`HostSupervisorProofs`:

* `TypeCorrect`. The bound on `consecutive_fast_exits_` is what takes an
  argument: `Restart()` resets the count at any time, and only the monitor adds
  to it. `BreakerInv` says that the count is at the threshold only with the
  breaker open and the monitor at the top of its loop or out of it.
* `OpenBreakerHolds` (`BreakerHolds`), from the same invariant: an open breaker
  means a monitor at the top of its loop, where it tests the breaker before it
  spawns, or one that has ended; and the module thread spawns only before there
  is a monitor, with the breaker closed (`SpawnNeedsBreaker`).
* `HostsAreGone` (`NoHostOutlivesDriver`), from `JoinInv`: `Stop()` has joined
  the monitor before the module thread goes on; the destructor closes the job
  object, and once it has only a `Restart()` that had passed its test of the stop
  flag (`raced`) can bring a host to life.
* `MarkedMeansWritten` (`SentMeansWritten` of `ControlMessage`), assuming
  `Captions`. `MarkInv` adds that a thread about to mark has sent what it holds;
  the mark's test for the pending message does the rest. Without the hypothesis
  the statement is false (see section 3).
* `MessagesAreQueued` (the type invariant of `ControlMessage`, with either mark):
  what is pending, held by a thread, or received by a host is a message queued
  before. `QueuedInv` bounds all of them by the number queued, `PlacesInv` gives
  the places of the two threads.

`DriverLifecycleProofs`, for any number of pipe instances:

* `ExecutedAtMostTwice` (`AtMostTwice`) and `OkMeansExecuted`
  (`AnswerMeansExecuted`). The client's list of exchanges takes only six values
  while a request is under way, four before it has reconnected for the request
  (`Early`) and two after (`Late`). `PipeInv` says that the client's pipe holds at
  most one message, that it belongs to the exchange the client waits for, and
  that an instance which listens is empty, so that nothing is left for the next
  client. `ExecsInv` counts: none before the request is sent, one per copy, at
  least one when its answer says "ok".
* `StopWakesServer` (`StopIsHeard`), from `StopInv`: the flag is up before `Stop()`
  reads the handle, and the event exists before the thread first waits. So a
  thread that waits when the handle is read waits for the event `Stop()` is going to
  set, and one that does not will see the flag before it waits again. The
  client's connection can set the event and nothing but the thread resets it.
* `TypeCorrect`, from the invariants above and `RestTypes`, the types of the server
  thread, of `Stop()` and of the driver.

`DriverSynthProofs`:

* `TypeCorrect`: the capped clocks of the blender and of the snapshot stay within
  their bounds (`Clocks`), and the pose of the headset is never empty, for
  which the shape of each phase (below) is needed.
* `OldTrackerIsGone` (`OldTrackerGone`), from three parts: what the blender shows
  in each of its phases (`Shape`); a frame under way has seen the present config
  once a change is through (`FrameInv`); and neither the pose, nor the blend, nor
  what a blend starts from has anything of another tracker (`SourceInv`).
* `BlendsDoNotJump` (`NoJump`), for durations that requests change at any time. The
  property itself asks that the blends of the frame under way last two frames or
  more: the code accepts 0 ms (`HeadMountDriverSynthConfig.h:15`), and a shorter
  blend goes from one source to the other without a frame that shows both.
  `TimeInv` says that after a blended frame the pose is the blender's, and that a
  blend one frame old has its target mixed in (two, once the next frame's time has
  passed), so that a blend that ends or turns back keeps a source.

`PubPipeProofs`, for source ids and packets of any size:

* `FramesAlwaysFit` (`TypeOK` and `FramesFit`): whatever word the router takes for a
  length, it enqueues only frames of 1 to `MaxFrame` words. `FitInv` says that the
  part of a frame read so far is within the length that was accepted.
* `FirstFrameArrives` (`FirstFrameIsPacket`). `ConnInv` says that client and router
  agree on whether a connection is up, and that a pipe nobody has connected to is
  empty; `FirstInv` that until the first frame is through, the words read and the
  words in the pipe are, position by position, a beginning of an id, a length and
  one packet of that length.
* `FirstFramesInOrder` (`IsInOrderDelivery`), from `OrderInv`: the packet that the
  pipe starts with is newer than the first frames of all earlier connections. A
  retry cannot put a packet in twice, since a write fails only after
  `DisconnectNamedPipe` has emptied the pipe. The end of a first frame is then a
  `Deliver` of `PacketDelivery`, the start of a packet a `Publish`, and every other
  step a stutter (`DeliveryStep`).

`OscRouterProofs`:

* `TypeCorrect`, which includes that the ring indices stay in the ring.
* `QueueIsFifo`: the router implements `SendQueue`. `RingInv` says that the
  `qCount` slots from `qHead` hold the packets `taken + 1 .. accepted` in order,
  and `qTail` is the slot after them. `DropsAreFull` follows from it.
* `OneStray` (`AtMostOneStray`), from `StrayInv`: a socket on the wrong port has
  a push pending, and after a stray packet the worker is at the top of its loop,
  where it sees the push.
* `ShutdownIsFinal` (`DownIsQuiet`), from `DownInv`: `Shutdown` is through only with
  both workers joined, so that nothing takes a packet or touches the socket
  afterwards, although requests of the IPC thread may still come in.

`PhantomProofs`, along the three parts of `DropoutState::Tick` as functions on
one ladder:

* `TypeCorrect`, with every threshold in force positive whatever a request sends.
* `DropoutsAreAnchored` (`DropoutIsAnchored`) and `OptInArrives`
  (`OptInReachesSlot`): both are inductive on top of the types.
* `LadderClimbs` (`LadderOnlyClimbs`) and `SilenceShows` (`SilentIsNotOk`), from
  `TickedRung`: the rung a tick leaves, given the rung and the dates it finds;
  the second needs the anchoring.
* `LadderStaysReal`: under `HookSpec` every ladder stays in `REAL`
  (`LadderIsInert`), because a tick directly after an observation sees a silence
  of zero, and a threshold is at least one. This is the general form of the
  violation that `phantom_frozen` shows.

`DeviceTransformsProofs`:

* `TypeCorrect`, which includes that the fallback table does not outgrow its
  entries; `TableFinite` makes its cardinality a number.
* `FollowersAreBacked` (`NoOrphanFollower`), inductive on top of the types: the
  case that needs care is the end of a lookup, where the system of a follower
  may be replaced.
* `OverlayIsFollowed` (`EnabledFollowsOverlay`), from `History`: a disabled slot has
  nothing pending, and an enabled one that is in a lookup or follows a fallback is
  marked as overlapped.
* `NameWins` (`OverlayNameWins`), from the types and the race check.

Every invariant and every action property that a passing run checks is also a
theorem. Only model-checked: the liveness properties (fairness and `ENABLED` are
outside the prover).

## 5. Not modelled

Most of the repository's lines are of these kinds, or vendored (`src/lib`) or
generated (`EmbeddedFiles.cpp`): the models cover the code in which threads,
processes and time meet, which is a small part of them.

Numeric code (calibration solver, smoothing filters, face signal shaping, inverse
kinematics, learned models), user interface, file and device I/O, speech
recognition, translation, MinHook's patching, vendored libraries. Inside the
modelled parts: virtual trackers and the sidecar of phantom, scale and motion
gating of transforms, message contents of the IPC,
`TryReadWireByIndex` (used by tests only), the heartbeat of the
frame segment, `FrameWriter.Dispose`, route statistics, log and status texts.

## 6. Plan

Done: `FrameRing`, `HostSupervisor`, `ControlMessage`, `SendQueue` and
`OscRouter`, `PacketDelivery` and `PubPipe`, `Phantom`, `DeviceTransforms`,
`DriverSynth`, `IpcServer` and `DriverLifecycle`.

Theorems to add: that the mark of the face-tracking supervisor is right while no
two messages are set in one send.
Refinements to add: the face worker's `Restart()` in `ControlMessage`, and the blocking
write at the end of `Restart()` in `HostSupervisor`.

Worth modelling when these are done: the wedge detector of the face worker on top
of `HostSupervisor` (the heartbeat survives its host, and the `Restart()` that
follows resets the fast-exit count); the module host's subprocess manager; the
route table's unlocked `Dispatch` and its statistics seqlock; the pose ring and
`TryReadWireByIndex`.
