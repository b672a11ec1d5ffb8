# Verification of the Banks infotainment frontend

TLA+ models, TLC runs and TLAPS proofs for the car head unit in this
repository: a Yocto image for a Jetson Xavier NX and, on it, `banks-frontend`,
a Qt 6 program that shows Android Auto, a music visualizer and status pages.
All paths below are relative to the repository; `fe/` stands for
`banks-frontend/src/`. `PROJECT.json` is the index: components, runs, the map
from definitions to source lines, mutants, findings, hazards and theorems.

To repeat the checks, in this directory:

    tlc -workers 2 -config AASession.cfg AASession.tla
    tlapm AASession_proofs.tla

## 1. The system

### Threads

| thread | made by | what it runs |
|---|---|---|
| GUI | `main()` | QML, every Qt slot, timers, D-Bus handlers of the agent and of SleepManager |
| io (several) | `AASessionController::startUSB` | boost::asio: aasdk, openauto's App, its services and strands |
| USB (several) | `startUSB` | `libusb_handle_events` |
| decoder | `AAVideoDecoder::open` | `decodeLoop` |
| PipeWire real-time (one per stream) | `AudioCapture`, `PipeWireAudio*` | `onProcess` |
| render | Qt scene graph | `VisualizerRenderer`, `AAVideoItem::updatePaintNode` |
| any | | `LogCapture::append` (Qt, spdlog and boost.log sinks) |

The GUI thread takes no lock that matters: what other threads tell it, they
post to its queue (`Qt::QueuedConnection`) or leave in atomics. It does block:
`deactivate()`, `shutdown()` and `onPhoneDisconnected()` join other threads
from inside a handler.

### Components

| component | state | operations | talks to | hard because | correct when |
|---|---|---|---|---|---|
| session controller `fe/aa/AASessionController` | session, connection, status, timers, first-frame flag, io_service, App, threads, wireless handler | `activate`, `deactivate`, `suspend`, `resume`, `shutdown`, `onFirstFrame`, `onPhoneDisconnected`, `onHeartbeatTimeout`, `startWireless`, `stopWireless` | decoder, openauto, QML, SleepManager | queued events outlive what they report; joins from handlers; the App constructor can throw | teardown is complete and ends, status follows the connection, one transport at a time |
| decoder `fe/aa/AAVideoDecoder`, `NvdecVideoOutput` | `m_running`, thread, codec contexts, NAL queue | `open`, `feedNalUnit`, `close`, `decodeLoop` | io strand, GUI thread, item | condition variable, two closers | contexts outlive their uses, one owner of the thread, no lost wake-up |
| pairing agent `fe/aa/BluetoothPairingAgent` | dialog, delayed reply, registration | the `org.bluez.Agent1` calls, `confirmPairing`, two timers | BlueZ, QML | delayed replies, a Cancel that names nothing, timers that cannot be cancelled | one reply per request, the dialog is for an open one, BlueZ never waits for ever |
| log capture `fe/aa/LogCapture` | bounded list, dirty flag, filter | `append`, `clear`, `setFilterLevel`, `messages` | every thread, QML | coalescing with one atomic flag | bound kept, no entry left unseen, no flood of events |
| sleep coordinator `fe/SleepManager`, `fe/main.cpp` | `m_asleep`, delay lock, signal pipe | `onPrepareForSleep`, `requestSleep`, `requestWake` | logind, session, capture, rfkill | four triggers, two of which look at the state and two do not; a lock; detached processes | lock let go after the teardown and taken again, suspends proceed, subscribers follow |
| microphone `fe/aa/PipeWireAudioInput` | streams, ring, parked promise, `m_active` | `open`, `start`, `stop`, `read`, `onProcess` | openauto, PipeWire | promise against real-time threads, opened again by every connection, ring arithmetic | no read forgotten, bytes in order |
| phone audio output `fe/aa/PipeWireAudioOutput`, `AAServiceFactory` | ring, stream | `open`, `write`, `start`, `stop`, `suspend`, `onProcess` | openauto, PipeWire | overflow and wrap-around in one write, start and stop beside the real-time thread | the latest 350 ms in order, each byte once |
| capture fan-out `fe/AudioCapture`, `AudioRingConsumer` | four atomic slots, rings | `start`, `stop`, `addConsumer`, `removeConsumer`, `onProcess`, `pop`, `peekLatest` | visualizer, spectrum | no lock at all: consumers and capture freed, and samples overwritten, under other threads | no call into a ring that is gone, readers get the stream in order |
| visualizer and favorites `fe/Visualizer`, `Favorites` | command queue, playlist state, file | navigation, modes, `toggleFavorite`, `load`, `save` | render thread, disk | commands and reports cross between two threads, failed loads and saves, restarts | page, renderer and file agree in the end, favorites survive |
| video item and touch `fe/aa/AAVideoItem`, `QmlInputDevice` | textures, gesture | `setDecoder`, `updatePaintNode`, touch down, move, up | decoder, openauto | three threads hand a frame on | the newest frame is painted |
| Bluetooth manager `fe/aa/BluetoothManager` | adapter and device mirrors | setters, discovery, connect, remove | BlueZ | optimistic values, lost signals, a blocking call on the agent's own thread | the mirror converges, BlueZ gets its answer |
| spectrum and FFT, status pages, debug overlay | drawing, polling | | | no protocol | |
| `banks-viz` (`banks-viz/src`) | track, volume, the loop | player discovery, signals, commands, `poll`, `set_volume`, `toggle_mute` | BlueZ, `wpctl` | signals wait while calls block, players come and go | the panel shows what the player last told, and the volume comes right |
| media player, AVRCP bridge, audio agent (`meta-seeed-jetson`) | D-Bus mirrors | | BlueZ, uinput | | |
| boot scripts, recipes, `jtx`, `mic-test` | | | | run once, or off the target | |

There are no automated tests in the repository; promises are taken from
headers, comments and assertions, and quoted where a run refutes one.

## 2. Modules

| module | models | refines or composes |
|---|---|---|
| `AALifecycle` | what callers of the session controller are promised: off, on, stopping; a stop returns after everything is released | |
| `AASession` | the controller, its event queue, io threads, entity and decoder thread as far as the controller sees them | implements `AALifecycle` |
| `VideoDecoder` | the decoder, one action per shared access | the close that `AASession` takes as one state, opened up |
| `VideoPath` | frames from the decoder to the texture of `AAVideoItem` | extends `VideoDecoder` |
| `PairingAgent` | the agent, its queue, the dialog, both timers, BlueZ | |
| `BluetoothManager` | the settings page's mirror of BlueZ, call by call | shares the GUI thread with the agent |
| `LogCapture` | append in three steps against the GUI thread | |
| `SleepCoordinator` | SleepManager, the subscribers of `main.cpp`, logind, rfkill | composes `AALifecycle` in place of `AASession` |
| `PipeWireRing` | the ring both PipeWire classes have: sizes, write, read | |
| `AudioFifo` | a bounded buffer that drops its oldest bytes and hands out chunks | |
| `MicInput` | streams, ring, parked promise, strand and real-time threads | extends `PipeWireRing`, implements `AudioFifo` |
| `PlaybackBuffer` | a bounded buffer played a quantum at a time | |
| `AudioOutput` | a phone audio channel's ring and stream | extends `PipeWireRing`, implements `PlaybackBuffer` |
| `AudioFanout` | the capture's slots and rings, real-time, render and GUI threads | the consumers of `Visualizer` and `SpectrumWidget` |
| `Visualizer` | the page, the renderer with its playlist, the favorites on disk | |
| `MediaPanel` | the media panel of `banks-viz`: player, volume, loop | |
| `AudioRings_proofs` | theorems of `PipeWireRing`, `MicInput` and `AudioOutput` | |
| `Bluetooth_proofs` | theorems of the clients of BlueZ: `PairingAgent`, `MediaPanel`, `BluetoothManager` | |
| other `*_proofs` | theorems of the module they are named after | |

Every name with a suffix after an underscore and the comment "Mutant" is a
definition with a plausible bug; it is not used by the specification. Each one
replaces a definition in a run of its own, to see that the property would
notice.

### AASession

`gui` is where the GUI thread is: its event loop, one of the two joins of
`stopUSB` (`join` for the io threads, `close` for the decoder), the join of
`onPhoneDisconnected` (`drop`), or gone. A handler that does not block is one
action, with every call it makes; `stopUSB` is three (`EnterStopUSB`, `JoinIO`,
`StopUSBReturns`), because other threads run while it waits. `guiQ` holds the
events other threads posted. `io`, `phone` and `ioClosing` are the io_service
with its App, the entity of a phone, and an io thread inside
`NvdecVideoOutput::stop`. The three atomics appear as `firstFrameSeen` and
`lastFrame`, time as the three values the heartbeat tells apart.

Simplifications: `startUSB` is one action of the GUI thread (its threads are
started last); opening the codec succeeds; the USB threads' joins are part of
`JoinIO`; the entity stops its video output when it ends, as openauto does (it
is an external library, modelled from how the controller uses it); a phone
that is plugged in again finds the previous decoder thread gone, because
re-enumeration takes seconds. `VideoDecoder` does not make the last assumption.
The setters of the video settings and the level meters are left out: they
store a value for the next start.

The model allows what the code does with late events: a flushed frame may queue
`onFirstFrame` behind the teardown, so that "connected" is reported with no
phone, and a queued `onPhoneDisconnected` may reach the next phone. What is
checked is that status line, heartbeat and transports stay consistent with
`m_connected` through it, and that teardown is complete all the same; that the
late event leaves the heartbeat running in a session that is off is neither
forbidden nor claimed away (`TeardownComplete` does not name the heartbeat).

`decoder->close()` tests `m_running` and stores it in two steps. A caller that
finds another one inside may therefore join too, or come too late, skip the join
and free the contexts in use; either is undefined behaviour and may end the
process (`Closer`, and `aborted` for the GUI thread). The properties hold in all
three cases, as far as a process that goes on has a meaning.

### VideoDecoder and VideoPath

`dt` is the decoder thread's place in `decodeLoop`, with the wait in three
parts: the predicate under the mutex (`lock`), the moment between predicate and
block (`tosleep`, the mutex still held) and `asleep`. `pc` is the place of the
io strand and of the GUI thread in `open`, `feedNalUnit` or `close`, one label
per access to shared state. There are three closers: the entity on the io
strand, `onPhoneDisconnected` on the GUI thread while the strand may be
anywhere, and `stopUSB`, which joins the io threads first (`StartIo`, `JoinIo`).
Nothing in the code keeps the second one apart from the first: the later of two
closers may find `m_running` false, skip the join and free the contexts in use,
both may join, and an `open()` may meet a `close()`. All of that is in the
model. The history variable `crossed` tells that `onPhoneDisconnected`'s close
has met an open or a close of the strand; `NoUseAfterFree` and `ThreadOwnedOnce`
hold until then and say nothing after, which is a statement about the code: in
that overlap, which an ordinary unplugging can produce
(`AASessionController.cpp:249`), the contexts are freed in use. There is no
comment, assertion or test in the repository that promises otherwise, hence no
finding; the hazard list names it. A codec that fails to open leaves nothing
behind and is not an action.

`VideoPath` adds the published frame. A unit may or may not give a picture
(`StoreFrame`); the callback posts `onFrameReady`, which asks for an update, and
`updatePaintNode` takes whichever frame is the latest by then. Frames carry the
name of the unit they came from. Pixel conversion is left out. The NAL queue
survives a close, as in the code.

### PairingAgent

Everything of the agent runs on the GUI thread; `inbox` is what BlueZ's calls
and the agent's own posted lambdas wait in. BlueZ has one request open at a
time, and ends it by taking the reply, by Cancel, by Release or by seeing the
agent go; a Cancel in flight may cross a reply. `armed` and `age` are the
single-shot timers, one per request, that nothing cancels; the dialog's own
timer (`AndroidAutoPage.qml`) counts the same time. The calls that are answered
at once (PIN codes, authorisation) keep no state and are left out. A timer left
over from an answered request may reject a later one before its thirty seconds
are over: the model allows it, and no property forbids it.

### BluetoothManager

A refresh is one D-Bus call after the other on the GUI thread
(`ReadProperty` for each adapter property, `AdapterRead`, `CheckValid`,
`ReadObjects`), and BlueZ may change, die or come back between two of them.
`mirror` is the members, `shown` what QML read at the last
`adapterInfoChanged`: a refresh that finds no change emits nothing. The setters
write the member and look at no reply; BlueZ may refuse, and its signal may get
lost; `BluezSets` is BlueZ's part of a call, `SetAdapterProperty` the program's.
`Connect()` blocks the GUI thread (`connect`) until BlueZ answers or Qt's
25 seconds are over; BlueZ may want an answer from the pairing agent first,
which sits on the same thread. The user does what the page offers at that
moment. All devices change in the same way; their names are left out.

### LogCapture

`append` takes three steps: the list under its mutex, the exchange of `m_dirty`,
the posted lambda. The lambda starts a timer, the timer clears the flag and
emits, and the binding reads the list. A logger may be the GUI thread itself;
letting it interleave with its own handlers only adds behaviours.

### SleepCoordinator

The lambda of `sleeping()` is `StopSession`, the session's own steps, and
`TearDown` for what follows `deactivate()`; then `onPrepareForSleep` goes on to
`ReleaseInhibitor`. `waking()` is `WakeUp`, then `TakeInhibitor`. While the
machine is suspended nothing runs. `rfkill` counts detached processes; each
acts on its own, in any order, so that the machine may end up awake with
Bluetooth blocked. logind is external: it announces the suspend, waits for the
lock or for `InhibitDelayMaxSec`, suspends, announces the resume, and refuses a
new lock while it waits. It is assumed to be on the bus, with the subscription
made. `persistState()` has nothing left to write, because
`setCurrentPresetFromRenderer` has handed each preset to `Favorites` already
and `setLastPreset` returns when it is unchanged (`MirrorsAgree` of
`Visualizer` checks that `last` is the preset on screen); it is no part of this
model. The quit path and its two-second watchdog are not composed with sleep.

### PipeWireRing, MicInput and AudioOutput

The two classes have the same ring; the input copies byte by byte, the output in
the two parts a buffer that wraps falls into. A ring keeps its head, tail,
modulus and byte array. A byte is its position in what was delivered or written
(modulo `Wrap`), so order, loss and repetition can be seen. `Dequeue` and
`DequeueQuantum` are `onProcess` up to its test, `Process` and `FillQuantum` the
part under the mutex; `MicInput`'s `stop()` is three steps, as the mutex is
taken twice. The strand calls one operation at a time and has one read open, as
openauto's microphone service does.

The controller makes one `PipeWireAudioInput` and every connection opens it
again; `open()` drops the handles of the earlier stream and leaves it running.
`MicInput` has `Streams` of them, each with a real-time thread of its own, and
the properties hold for what they deliver together, in the order in which they
take the mutex. That the same sound then arrives twice is outside of the model.
A ring that overflows moves its tail by an odd number of bytes (one byte is
always free), so a chunk may begin in the middle of a sample; `AudioFifo` has
the same capacity and therefore the same effect. `stop()` may leave one block of
the old session behind, by a thread that was past its test.

`write()` takes a buffer of any size. Above the capacity the second part of the
copy runs over the first; when it is longer than the ring itself
(`PipeWireAudioOutput.cpp:183`, `Overruns`) it writes past the end of `m_ring`.
That is undefined, so the run ends there (`WriteOverruns`): `ImplementsBuffer`
is about every size up to the first such write, and claims nothing beyond it.
`MicInput` copies byte by byte and has no such edge.

`AudioOutput` is opened once: `AAServiceFactory` makes an output for every
channel and connection. `start()` activates the stream before it empties the
ring, and `StopDestroys` waits for a running callback, as
`pw_thread_loop_stop` does.

### AudioFanout

Every copied sample is a step, and a sample is its number in the ring's stream,
so a reader that is overrun sees wrong numbers. `LoadSlot` is the atomic load of
a slot; from there on the real-time thread holds a pointer the GUI thread may
remove. `LoopStopped` is the wait inside `pw_thread_loop_stop`. Items stay in
the scene until `main()` returns (the pages live in a `StackLayout`), and by
then `aboutToQuit` has deleted the capture: their `removeConsumer` writes to
slots that are gone, which the model shows as `LeaveScene` after `Deleted`. That
is a use after free on every quit, against "Lives for full app lifetime"
(`fe/main.cpp:112`). `RingsOutliveCalls` is about the real-time thread's
pointers; no run is about the GUI thread's, and the hazard list says so.

### Visualizer

`cmds` is `m_pendingCmds`; `synchronize()` is one `Run...` action per command,
the first of which blocks the GUI thread and the last of which lets it go.
Reports of the renderer are queued events with the preset, or none when they
come from `pushNavState`. projectM's playlist is external: next and previous in
order or, shuffled, any. The first paint takes the hint of the last preset,
drops what was sent before there was a playlist, and loads the library.
Sensitivity and preset duration behave alike and are one level. `Save` may fail
any number of times and leaves the old file (`QSaveFile`); `Load` may fail and
leaves an empty set, which the next save writes over the file; `Restart` ends
the process at any point. The history follows one preset, `Watched`, which may
be any: `mark` is what the user last made of it, or `lost`, and `pending` says
that no save has succeeded since. A mark is lost in two ways, both real losses
of the code: the process ends while it is `pending`, or a load fails. Nothing
else may change it (`FavoritesSurvive`). `unsaved` says that the file is behind
the set in memory, because the latest save or load failed; the program does not
try again by itself, so `MirrorsAgree` speaks of the file only when it is not
`unsaved`. Commands given before there is a playlist are dropped while the page
keeps what they set: such runs (`early`) are left out of the comparison of lock
and mode.

### MediaPanel

One thread: while a call blocks, signals wait in sd-bus's queue. `said` is the
history of what the player last told, field by field, by signal or by answer.
There is one player, which may go and come back; nobody listens for that, so the
panel keeps the track of a player that has gone. The match is assumed to
succeed. A volume command changes the panel's copy whether or not `wpctl` did
anything (`Command`), and a poll advances its clock before it knows whether
`wpctl` could be run, read and understood (`Readings`): after a failure the
guess stays for another second. Other programs may turn the sink up beyond what
the slider allows (`Loudest`), and the poll shows it. A `wpctl` that hangs would
hang the loop, and is not modelled.

## 3. Runs

| run | module and instance | states | what it shows |
|---|---|---|---|
| `session` | `AASession`, 3 events | 24 971 | `TeardownComplete`, `StatusMatchesConnection`, `OneTransport`; `ImplementsLifecycle`; every join returns if the decoder's do (`TeardownTerminates`), also after a failed App start |
| `decoder` | `VideoPath`, 2 NAL units, all three closers | 147 258 | until two calls overlap, `NoUseAfterFree`, `ThreadOwnedOnce`; a fed unit is decoded and its frame painted, or the decoder is closed (`FedReachesScreen`) |
| `decoder_close` | `VideoDecoder`, 1 unit | violation | `CloseReturns`: `close()` stores `m_running` and notifies without the mutex; both can fall between predicate and block, and `join()` waits for ever |
| `pairing` | `PairingAgent`, 3 requests, 2 ticks | 216 255 | `DialogIsUnanswered`, `CancelHitsItsRequest`, `AnsweredOnce`; BlueZ never waits for ever (`RequestEnds`) |
| `log` | `LogCapture`, 3 loggers, 2 entries | 367 | bound kept (`TypeOK`), `NoLostRefresh`, `Refreshed` |
| `sleep` | `SleepCoordinator`, 5 triggers and processes | 28 744 | `ArmedWhenAwake`, `AudioFollowsSleep`, `ReleasedWhenDown`, `SuspendProceeds` |
| `mic` | `MicInput`, ring 6, chunk 4, buffers of 2 and 4 bytes, 2 streams | 120 054 | `NotParkedBesideAChunk`, `NobodyHangs`, `ReadEnds`; `ImplementsFifo` |
| `output` | `AudioOutput`, ring 5, buffers 2, 3 and 7, quanta 2 and 3 | 1 471 733 | `ImplementsBuffer`, up to the first overrun |
| `fanout` | `AudioFanout`, one consumer of each kind, 2 slots, ring 3, 8 samples | 475 566 | `RingsOutliveCalls`, `SamplesInOrder` |
| `visualizer` | `Visualizer`, 2 presets, 2 levels, 2 calls or reports under way | 2 044 301 | `FavoritesSurvive`; page, renderer, Favorites and, unless the latest save or load failed, the file agree when nothing is under way (`MirrorsAgree`) |
| `bluetooth` | `BluetoothManager`, 1 device, 2 names, 3 events | 554 735 | the page has read what the manager holds (`PageIsTold`) and settles on what BlueZ says (`MirrorConverges`); BlueZ gets its answer although `Connect()` blocks the agent (`AgentAnswered`) |
| `media` | `MediaPanel`, 2 texts, 3 events | 1 199 652 | `PanelFollowsPlayer`; the volume comes right whatever readings and commands failed (`PanelComesRight`) |

A type invariant is checked in every passing run but `mic` and `output`, where
the refinement fails on any value that is out of place, and `bluetooth`, whose
types are proved (`ManagerTypesHold`). The finding in
`PROJECT.json` quotes the line the violation contradicts.

Why the bounds are enough:

* `MaxEvents` of `AASession` stops a phone from connecting while three events
  wait. A phone's life posts two, so a whole previous life and one more event
  may be in the queue when the next begins; the hazards need one stale event of
  each kind. The proofs hold for every bound.
* Two NAL units: one being decoded, and one queued or being fed. The decoder's
  branches only ask whether the queue is empty.
* Three requests: one whose timer is still running, one on screen, one behind
  it. Two ticks: a timer that has waited for part of its time can meet a
  request that has not. The proofs hold for any number of both.
* Three loggers: one holding the flag, one that finds it up, one late. Two
  entries: the trim happens.
* Five triggers and processes at once: a suspend and its resume, a manual cycle
  and a process left over. A handler that has not started its process counts,
  so no process is ever dropped. The proofs hold for every bound.
* The microphone's ring of 6 bytes with buffers of 2 and 4 wraps and overflows at
  every even and, as one byte stays free, odd offset. The output's ring of 5
  with buffers of 2, 3 and 7 does so too, and 7 bytes go over the whole ring,
  or past its end when the head stands late; a quantum of 3 leaves a rest
  behind. `Wrap` exceeds the ring, so that two bytes in it are never confused.
  Two streams: one dropped, one held.
* `MaxPos` 8 lets a ring of 3 samples go round twice, so a reader can be
  overrun and can fall behind; chunks and reads of up to 2 overlap the end.
  A free slot remains in every state, as in the code, which has four slots and
  two consumers.
* Two presets: next, previous and around the end, and a favorites playlist that
  is smaller than the library. `MaxWaiting` lets a new command be given or a
  preset end while one more thing is under way, so a command crosses a report or
  shares its frame with another command; `MaxEvents` is the four reports two
  commands of one frame can lead to, so no frame is cut short. `Watched` is
  the second preset; the proof is about any.
* Three events of BlueZ, the user and the phones: the hazards are pairs (a
  change in the middle of a refresh and a lost signal, a death and a restart, a
  `Connect()` and a question to the agent) and one more.
* Three events of the media panel: a change while the player is discovered, one
  while it is read, one by the user; a sink of three levels, of which the slider
  reaches two. The texts are interchangeable, so
  the first title is fixed (`FirstTitle`).

`CHECK_DEADLOCK` is off in `media` only, where leaving the loop ends the
program. The other models of things that may stop (`Exited`, `Gone`) say so with
a step that changes nothing.

## 4. Fairness

Weak fairness is given to threads that have something to do and nothing to wait
for: the operating system runs them. The GUI event loop serves its queue, its
timers, its D-Bus socket and its signal pipe in turn, so a handler that is
ready again and again is run; where another handler keeps disabling it
(`StartTimer` and `TimerFires` in `LogCapture`, the two triggers in
`SleepCoordinator`, `OnFrameReady` and `UpdatePaintNode` in `VideoPath`,
`AgentAnswers` in `BluetoothManager`) that is strong fairness. The poll of
`BluetoothManager` is a periodic timer. Joins return when what they wait for is
gone. Never assumed: that the phone, the user or BlueZ does anything, that
anybody logs or suspends, that audio or video arrives, that a signal is
delivered, that a condition variable wakes spuriously, or that logind's delay
runs out. BlueZ reads replies that were sent; a blocking D-Bus call ends by its
own timeout. `ReadEnds` is conditional: if audio keeps arriving. `AASession`
gives no fairness to the end of the decoder thread, because `decoder_close`
shows the interleaving in which it never comes: `TeardownTerminates` has it as
its premise (`DecoderStops`), and `AALifecycle` promises no end of a stop.
`SleepCoordinator`, which has the session only as `AALifecycle`, does presume
that the session is released in the end (`SessionReleases`); where the decoder
thread hangs, logind's delay lets the suspend go on. `MediaPanel` presumes that
`wpctl` does not fail for ever (strong fairness of a poll that reads the sink). `MirrorConverges` is about what happens once
the outside world has stopped changing, which its bound makes it do.

## 5. Theorems

All are proved for every value of the constants, under the named ASSUMEs of the
modules; none is taken on trust.

* `AASession_proofs`. `IInv` joins the three safety properties with who owns
  what: the io_service belongs to the active session or to the `stopUSB` that
  takes it down (`IoOwned`); an entity lives on running io threads, the decoder
  thread runs for an entity, and a thread told to end has a closer waiting for
  it (`DecoderOwned`); the heartbeat is off during a stop. Without these
  `TeardownComplete` is not inductive: nothing would say that an idle
  controller's decoder has no closer on an io thread. Theorems: `TypeCorrect`,
  `Teardown`, `StatusCorrect`, `TransportsApart`, and `RefinesLifecycle`
  (`Spec => ImplementsLifecycle`): the initial state and every step map to
  `AALifecycle`.
* `VideoDecoder_proofs`, for all three closers and without any assumption on
  them. `IInv` says which calls belong to which caller (`CallersInPlace`) and,
  until `crossed` is set, that one caller at a time is inside, and that the
  closer owns the thread from its test of `m_running` to the end of its join
  (`OwnersInTurn`). Theorems: `TypeCorrect`,
  `UseIsSafe`, `ThreadIsOwnedOnce`. Every step of `VideoPath` is one of
  `VideoDecoder`'s or leaves its variables alone (`PathStepIsDecoders`), so the
  same holds there: `PathTypeCorrect`, `PathUseIsSafe`.
* `Bluetooth_proofs`, on `PairingAgent`. `IInv` is about the queue: a queued
  request is unanswered, queued once and not on screen (`QueuedIsFresh`,
  `QueuedOnce`); everything a queued Cancel will find when its turn comes has
  been withdrawn (`CancelFollows`); and while BlueZ has the agent it waits for
  whatever it has not withdrawn (`BluezWaits`), which is what makes the next
  Cancel fit. Nothing less is inductive, because a Cancel names no request.
  Theorems: `TypeCorrect`, `DialogIsOpen`, `CancelIsAimed`, and the action
  property `OneAnswer`.
* `Bluetooth_proofs`, on `MediaPanel`. A field is right now, or will be once
  the queue is empty: a field that no queued signal names is shown as the
  player last told it (`Shown`), and the last queued signal that names it has
  what was last told, which is what the player has now unless it has dropped
  the field (`LastSignalHolds`). The second half is what an answer of `GetAll`
  needs, as it overtakes the signals in the queue: they say the same again.
  `Listening` rules out signals that were never asked for. For the types: the
  queue is no longer than the number of events. Theorems: `PanelIsRight`,
  `PanelTypesHold`.
* `Bluetooth_proofs`, on `BluetoothManager`. `ManagerTypeOK` is inductive as it
  stands: the sweep of the properties stays in its list, a setter's value has
  the type of its property although the empty alias does not reach the adapter,
  and a list of devices stays one through a restart. `PageIsTold` needs, in the
  middle of a sweep, that a reading that has found no change so far has left the
  copy as the page knows it (`NothingHidden`). Theorems: `ManagerTypesHold`,
  `PageIsAlwaysTold`.
* `LogCapture_proofs`, for any set of loggers. `IInv` treats `m_dirty` as one
  token, with the logger that raised it, in the posted event, or in the timer.
  Theorems: `ListIsBounded`, `OneRefresh`, `RefreshIsComing`.
* `SleepCoordinator_proofs`. `IInv` says that a resume is announced after every
  suspend (`WakeIsLast`), that while the application is without the lock a
  `takeInhibitor()` lies ahead (`ArmingAhead`), and who has run at each place of
  a handler (`SubscribersFollow`). For the bound it adds that a suspend leaves
  room for its resume (`Room`). Theorems: `TypeCorrect`, `Armed`,
  `AudioFollows`, `LockOutlivesTeardown`.
* `AudioRings_proofs`, on the promise of `MicInput`, for any number of streams.
  `IInv` says that the open promise is the parked one, and is parked only
  between `start()` and the `reject()` of `stop()`. Theorems:
  `ParkedReadIsShort`, `StopAnswersReads`.
* `AudioRings_proofs`, on the rings. Both refinements map the ring to the
  sequence `Oldest(ring, ringUsed(ring))` of `PipeWireRing`, and rest on two
  lemmas about a ring and a buffer of any size, with positions as the only arithmetic
  (`RestOf`, kept closed after `RestOnce` and `RestRange`). `WriteAppends`:
  after `ringWrite` the ring holds the newest `Cap - 1` bytes of what it held
  followed by what was written, whether or not the write wraps or overruns the
  tail (`WritePositions` and `WrittenCell` say which byte is in which cell).
  `ReadTakes`: a read gives the front of the sequence and leaves the rest. The
  invariants are `RingOK` for `MicInput` (indices, bytes and block sizes are in
  range) and `OutputInv` for `AudioOutput`, where `StreamHeld` is needed
  besides: whoever is about to touch the ring does so for a stream that exists,
  because `m_running` and an active stream imply it and `stop()` waits for the
  callback. Theorems: `RingIsFifo` (`Spec => ImplementsFifo`),
  `RingIsPlaybackBuffer` (`OutputSpec => ImplementsBuffer`).
* `AudioFanout_proofs`. `IInv` says that a slot only ever holds an item whose
  ring exists (`SlotsInScene`) and that items leave after the capture
  (`LastOut`): no lock protects the callback, the order of the teardown does.
  `SInv` says that each ring holds the last `Size` samples, also in the middle
  of a write (`RingHolds`), that a read ends where the writer was when it began
  (`ReaderOK`), and that a write in progress fits (`WriterOK`); it rests on the
  lemma that positions less than `Size` apart have different cells
  (`CellsApart`). Theorems: `TypeCorrect`, `CallsAreSafe`,
  `ReadersGetTheStream`.
* `Visualizer_proofs`. `IInv` adds to `FavoritesSurvive` that the file holds
  the set in memory unless the latest save or load failed, and holds the
  `Watched` mark unless it is `pending` or `lost`, which is what a restart
  needs. Theorem: `NoFavoriteIsLost`.
* `Visualizer_proofs`, on the mirrors. `MirrorsAgree` speaks of states with
  nothing under way; `View` says what is under way in all the others. The page
  shows the renderer's position or the latest report on its way has it, and a
  report without a preset leaves the one before it valid (`Reported`); projectM
  has the level and the lock of the page or a waiting command brings them, the
  last one if several wait (`LevelSent`, `LockSent`); a playlist that is not
  the library while the mode is off has a command on its way (`ModeSent`);
  commands run only with a playlist that holds what is played (`PlaylistOK`).
  Theorems: `MirrorsComeToAgree`, `TypesHold`.

Every invariant, every action property and all three refinements of the runs are
proved. Modules whose theorems share a file have names that do
not clash (`PanelSpec`, `ManagerSpec`, `OutputSpec`), so that the proofs extend
them all; a theorem cites the ASSUME of its own module only.

Only model-checked: the liveness properties (`TeardownTerminates`,
`FedReachesScreen`, `RequestEnds`, `Refreshed`, `SuspendProceeds`, `ReadEnds`,
`MirrorConverges`, `AgentAnswered`, `PanelComesRight`), which the prover cannot
take under fairness.

## 6. Not modelled, and what could follow

* Touch (`fe/aa/QmlInputDevice`): every event is passed on with scaled
  coordinates and nothing is kept but the handler and the display's size; the
  interesting part, a gesture that the phone's departure interrupts, belongs to
  openauto.
* The quit path as a whole: `aboutToQuit`, the session's shutdown and the sleep
  path together, and the two-second watchdog, which is about wall-clock time.
  Their teardowns are modelled one by one.
* A codec that fails to open, a PipeWire daemon that is away, a `projectM` that
  cannot be created: paths that log and leave the feature off.
* Drawing, FFT, pixel conversion, the spectrum's bands and the debug overlay:
  computations without a protocol of their own.
* Status pages (`CanInfo`, `SystemInfo`) and the test tone
  (`AudioTestController`): polled readers of `/proc` and `/sys`, and child
  processes that are started and killed.
* `banks-viz`'s renderer and audio capture: the same as the visualizer's, in an
  older form; its media player and AVRCP bridge in the image poll the same
  player and hand it on.
* libusb's 60 second event timeout and other wall-clock bounds, recipes, boot
  scripts, and the developer tools (`jtx`, `mic-test`).

Worth doing next, in this order: the quit path composed with
`SleepCoordinator`; the touch gesture with the session.
`PROJECT.json` lists, under `hazards`, what is known to be hard in the code, at
its line.
