# A formal model of the AIA porting kit for FreeRTOS

This directory holds TLA+ specifications of the porting layer (`ports/`) and the demo application
(`demos/aia/`) of the AIA Client SDK integration for FreeRTOS, model-checked with TLC and, in part,
proved with the TLA+ proof system. The client SDK itself, FreeRTOS, the MQTT and HTTPS libraries and
PortAudio are not in the repository: they are modelled by what the code here sees of them, and such
definitions are marked external. Every safety property that a passing run checks is also proved.

Paths below are relative to `src/`.

## 1. The system

| Component | State | Operations | Who calls it |
|---|---|---|---|
| Storage port, `ports/Storage` | three blobs in static RAM, each with a capacity and a `used_len` | store, load, size and existence of a blob; store, delete and load of alerts inside the alerts blob | the client, when alerts and secrets change |
| Alert byte format, same file | none: three numbers of an alert as little-endian bytes behind its token | the byte loops of `AiaStoreAlert` and `AiaLoadAlert` | the alert functions |
| Clock port, `ports/Clock` | last retrieved time, when it was retrieved, whether the server ever set it, a spin lock | `AiaClock_GetTimeSinceNTPEpoch`, `AiaClock_SetTimeSinceNTPEpoch` | every task |
| Demo runner, `demos/aia/aia_sample_app.c` | `toRunDemo`, `isAiaClientConnected`, `capState`, the microphone flags, an event group | `AiaSampleApp_Run`, `processDemoCase`, the client's callbacks | the demo's task; the client's task |
| Offline alerts and speaker, same file | the alert in progress (a heap block), a periodic timer, `isSpeakerReady`, `shouldDeleteOfflineAlert` | start and stop callbacks, the timer's callback, the speaker's callback, the client's own frames | the client's task; the timer's task; PortAudio |
| Life of the sample app, same file and `aia_sample_main.c` | what was acquired and not given back | `RunAiaDemo`, `AiaSampleApp_Create`, `AiaSampleApp_Destroy` | the demo's task |
| HTTPS port, `ports/HTTP` | the network information; during a request, the library and a connection | `AiaHttpStoreNetworkInfo`, `AiaSendHttpsRequest` | the registration manager |
| Registration in the demo | the registration manager | `registerAia` and two callbacks | the demo's task; the manager, from inside the request |
| Microphone recorder, `demos/aia/utils/aiaportaudiomicrophone` | a PortAudio stream behind a mutex, a timer and its flag outside it | create, start, stop, destroy, the capture callback | the demo's task; the timer's task |
| Registration and LWA getters, `ports/Registration`, `ports/LWA` | constant strings | called for a length, then for the string | the registration manager |
| IoT port, `ports/IoT`: atomics | the number a caller passes | `AiaAtomic_Load_u32`, `AiaAtomic_Store_u32`, `AiaAtomic_Add_u32` | the client, the clock, the demo |
| IoT port, the rest | none of its own | MQTT publish and subscribe; timers, mutexes and lists as macros | the client, the clock, the demo |
| Crypto port, Memory, Button, Common | mbed TLS contexts | wrappers | the client, the demo |
| Patches, `patch/` | mutexes for mbed TLS | init, lock, unlock, free | mbed TLS |

How they meet: `RunAiaDemo` makes the MQTT connection, creates the sample app, stores the network
information, runs the demo and undoes all that. `AiaSampleApp_Run` registers (through the HTTPS
port), creates the client and walks through a list of demo cases, waiting for the client's callbacks
on an event group. The client calls the storage port for alerts, the clock for the time of day, and
the offline alert callbacks when an alert is due without a connection. The offline alert's timer
calls back into the client to delete an alert that is over.

What is hard in it:

* two or three tasks write the same plain fields (`toRunDemo`, `offlineAlertInProgress`) without a lock;
* decisions are taken from a field read before a wait, or before a callback;
* a timer's callback races the start of the next alert and the destruction of the timer;
* the clock has a hand-written spin lock and reads two clocks at four different moments;
* the alerts blob is scanned for a terminating zero nobody checks for, with unsigned differences;
* a 64-bit time passes through 32-bit shifts, and a product of milliseconds through 32 bits;
* every allocation, timer and library call may fail, with the clean-up written out by hand;
* the registration callbacks destroy the manager while its own call is running;
* a full speaker says once that it is ready again, and a flag that is cleared late misses it;
* tasks of different priorities meet in a spin lock, and in a store that retries until nobody overtakes it.

What makes each component correct:

* **Storage**: it behaves as a table of alerts (one per token, a refused call changes nothing) and as a
  store of blobs (a load returns exactly what was stored last); the scans stay inside their buffers; a
  full blob still serves updates and deletes.
* **Byte format**: what is read back is what was written, exactly for the times that fit an `unsigned`.
* **Clock**: mutual exclusion, no reading that mixes two settings, a bound on the error, every call returns.
* **Demo runner**: no case without accepted capabilities, the client leaves before it is destroyed, the
  microphone is stopped unless the demo ends in the middle of the conversation, a disconnection stops the demo,
  the demo ends.
* **Offline alerts and speaker**: the callback looks at an alert that is there, only blocks that a start
  has overwritten are lost, an alert that was started plays, only expired alerts are deleted, and they end; frames
  the speaker refused are resumed. The first and the third hold as long as no start comes across another
  alert or a callback that runs.
* **Life of the sample app**: everything is given back once, users before what they use, with the exceptions
  that section 6 lists.
* **HTTPS and registration**: library, connection and manager are given back once; what is sent to the
  server is complete.
* **Getters**: a caller that asks for the length and then for the string has all of it, with its zero.
* **Atomics**: each call takes effect at one moment; nobody waits for anybody.
* **Recorder**: no callback after a stop or a destroy, no deadlock between mutex and timer, no blocking read.

## 2. Modules

| Module | Models | Checked by run | Proofs |
|---|---|---|---|
| `AlertTable` | abstract: alerts keyed by token, with calls that succeed or change nothing | (as a property) | |
| `BlobStore` | abstract: bytes under a key | (as a property) | |
| `AiaStorage` | `aia_storage_config.c`, at the granularity of an alert's field | `storage` | `AiaStorage_proofs` |
| `AlertCodec` | the byte loops of the same file | `codec` | `AlertCodec_proofs` |
| `AiaClock` | `aia_clock_config.c`, an access to a shared variable a step, by tasks with priorities | `clock` | `AiaClock_proofs` |
| `AtomicRegister` | abstract: a number on which each call takes effect at one moment | (as a property) | |
| `AiaAtomic` | the atomics of `aia_iot_config.h`, a call of `iot_atomic.h` a step | `atomic` | `AiaAtomic_proofs` |
| `DemoRunner` | `AiaSampleApp_Run` and the client's callbacks | `demo`, `demo_disconnect` | `DemoRunner_proofs` |
| `OfflineAlert` | the offline alert callbacks and the speaker's | `alert`, `alert_race`, `alert_ready` | `OfflineAlert_proofs` |
| `Getters` | the five getters of `aia_registration_config.c` and `aia_lwa_config.c` | through `SampleApp` | `SampleApp_proofs` |
| `HttpsRequest` | `aia_http_config.c`, a library call a step | through `SampleApp` | `SampleApp_proofs` |
| `Registration` | `registerAia` and its callbacks, composed with `Getters` and `HttpsRequest` | through `SampleApp` | `SampleApp_proofs` |
| `SampleApp` | `RunAiaDemo`, `AiaSampleApp_Create`, `AiaSampleApp_Destroy` and what the recorder's create and destroy acquire, composed with `Registration` | `lifecycle` | `SampleApp_proofs` |
| `MicRecorder` | the recorder's start, stop, destroy and capture callback | `microphone`, `microphone_threads` | `MicRecorder_proofs` |

`MCAiaStorage`, `MCAiaClock`, `MCOfflineAlert` and `MCSampleApp` give TLC what a configuration file cannot: a
symmetry set, and functions as values of constants.

Variables and actions keep the names of the code. Variables whose comment says *history* are written
by actions and read by properties only. An operator whose comment begins *A wrong ...* is a seeded
error, the definition after it as a plausible bug would make it: put in the place of that definition
it makes TLC find a property violated, which shows that the property can fail. Nothing else uses them.

### Correspondence

* **AiaStorage.** `blobstorage` is the table of lines 83-97. A blob is an array of *cells*; an alert takes
  four (token, time, duration, type) where the code uses `AIA_SIZE_OF_ALERT_IN_BYTES` bytes. The code
  only ever compares the token and whether its first byte is zero, and moves whole alerts, so a cell a
  field loses nothing but the bytes within a field, which is `AlertCodec`'s subject. `AiaStoreAlert`,
  `AiaDeleteAlert` and `AiaLoadAlerts` are one action each, made of the code's pieces: `StoreBuffer` (calloc and
  load), `StartingOffset` and `Updating` (the scan), `Written`, `StoreSize`, and `Overwritten` for `AiaStoreBlob`.
  The heap may refuse, and a request for no bytes is refused. A restart empties everything, for the
  port keeps its blobs in RAM.
* **AlertCodec.** A number is the set of its one bits. Each iteration of a loop is a step. A left shift by
  the width of `unsigned` or more is undefined: it yields nothing, or the shift by the count modulo the width.
* **AiaClock.** `pc[t]` is the statement a task is at. `Tick` may happen between any two steps, so the
  readings of `time()` and of the monotonic clock are of different moments. A step of a task needs the processor:
  `Scheduled(t)` says that no task of a higher priority spins for the lock.
* **AiaAtomic.** A call is begun, takes one step (load, addition) or two (the store reads the number, plainly, and
  swaps it; a swap that fails goes back), and ends. `ImplementsRegister` maps a call between the two steps of a
  store to one that has not taken effect yet.
* **DemoRunner.** `pc` and `i` are the place in `AiaSampleApp_Run`; `value` is what an expression such as
  `toRunDemo = isAiaClientConnected` has read and not written yet. `AIA_DEMO_EG_WAIT` clears the bits it
  waited for, and ends without them by time (`expired`). A callback of the client is two or three steps:
  the fields, then the bit. Both builds (`AIA_DEMO_AUDIO_ENABLE`) are initial states.
* **OfflineAlert.** `slot` is the heap: a block holds an alert or is free. `tick` and `offlineAlert` are
  the timer callback's place and its local pointer. Dereferencing is only possible through `Readable`;
  where it is not, the callback is stuck, and `LooksAtAlert` says when it may come to that. The block of an alert is
  filled in the step that allocates it. The client may start a stored alert that is due at any time (`MayStart`). A start that cannot arm
  the timer is two steps: it frees the alert (`ArmFails`), and destroys the timer once the callback does not run
  (`UndoStart`). Two history variables: `overlap`, whether a start since the last stop came across an alert that
  played or a callback that ran, and `overwritten`, the blocks whose pointer a start has overwritten.
  The flag is read in a step of its own, and `AiaSampleApp_Destroy` clears the flags one step before the timer.
  `speaker` is what PortAudio takes. A frame that is refused and the clearing of `isSpeakerReady` are two steps,
  and so are the speaker's setting of that flag and its word to the client (`notifying`). `frames` says whether the
  client pushes its own frames, and if not, whether the speaker or the decoder refused the last one.
* **SampleApp.** `CreateSteps` is the order of acquisition of `AiaSampleApp_Create`, `CleanupAfter(step)` what the
  failure path of a step calls (each of the eleven paths was compared with it), `RecorderCleanupAfter(step)` the same for
  `AiaPortAudioMicrophoneRecorder_Create`, `DestroySteps` what `AiaSampleApp_Destroy` calls, the recorder's own
  resources in place of the recorder. `AiaSampleApp_Run` is the registration, and after it the client's life, in which
  the callbacks and the recorder may destroy the alert timer or close the stream before `AiaSampleApp_Destroy` does
  (`GiveBackInRun`) and a stop makes the timer again (`MakeTimerInRun`). `Needs` is what a resource calls or is called
  back with. `credentials` says whether `RunAiaDemo` was given an interface and credentials:
  `AiaHttpStoreNetworkInfo` stores nothing otherwise, and `RunAiaDemo` goes on.
* **Getters, Registration, HttpsRequest.** A string is a sequence of characters, a buffer one with zeros in it. The
  manager (external) asks for each string either twice, for the length and then for the string, or once with a
  buffer of its own size. One step a call of the HTTPS client library; the callbacks run inside the request, and the
  request inside `AiaRegistrationManager_Register`.
* **MicRecorder.** A section under the mutex is the step that takes the mutex and the one that does the
  work and releases it; the timer and its flag are changed outside, as in the code.

## 3. Runs

| Run | Shows | Bounds, and why they are enough |
|---|---|---|
| `storage` | in every order of calls and refusals the alerts blob stays a run of whole alerts with distinct tokens and one final zero (`AlertsBlobWellFormed`), the scans stay inside their buffers (`ScansStayInBuffer`), a full blob serves updates and deletes (`UpdatesAndDeletesServed`), and storage refines `AlertTable` and `BlobStore` | 9 cells = 2 alerts of 4 and the zero, for the code's 64 bytes = 3 alerts of 21 and one; 3 tokens, one more than fit; two types, so that an update shows; blobs up to one above their capacity. The proofs cover every capacity. Tokens are symmetric. |
| `codec` | an alert read back equals the one written exactly if its time fits an `unsigned` (`RoundTrip`) | one bit a byte, a time of 4 bytes and an `unsigned` of 2 for the code's 8 and 4: the ratio decides where the shift is undefined. The proofs cover every width. |
| `clock` | `MutualExclusion`, `SynchronizedReading`, `UnsynchronizedReading`, and every call returns unless a task spins for a lock that one of lower priority holds (`CallsReturn`) | 3 tasks, so that two may wait for one: two of one priority and one of a higher, so that both a fair contest and an inversion happen; 2 ticks a second out of phase with the system's clock, 4 ticks, one server time that may be set again and again, so that a second may begin between any two readings. The proofs cover every number of tasks, times and resolutions; they do not cover `CallsReturn`. |
| `atomic` | `ImplementsRegister`, and a store that does not end is overtaken without end (`StarvesOnlyIfOvertaken`) | 3 tasks, so that one may be overtaken by two; a number of 2 bits, two values and two addends, so that an addition wraps and a swap can find its value restored. The proof covers every number and width. |
| `demo` | `CasesNeedCapabilities`, `LeavesOffline`, `LateDisconnectStops`, the microphone is stopped unless a disconnection stops the demo between its start and its stop (`StopsStreaming`), and the demo ends (`Terminates`) | none: the demo is finite |
| `demo_disconnect` | violation of `DisconnectStopsDemo` | as `demo` |
| `alert` | `LooksAtAlert`, `LosesOverwrittenOnly`, `StartedAlertPlays`, `DeletesExpiredOnly`, `ExpiredAlertEnds`, `RefusedFramesResume` | two alerts that overlap and one of an unknown type, two blocks, so that one may be lost and a start then finds no memory; 4 seconds: long enough for both to expire and the second to start after, before or while the first does; `Range32 = 4000` for 2^32, so that the milliseconds wrap within the run. The proofs cover every number of alerts, blocks and seconds. |
| `alert_race` | violation of `TickHasAlert`: see section 6 | as `alert` |
| `alert_ready` | violation of `FlagFollowsSpeaker` | as `alert` |
| `lifecycle` | `UsersGoFirst`, `ReleasesWhatIsHeld`, `NoLeak`, `GivesBack`, `DestroyFindsManager`, `RequestIsComplete` | a fixed buffer of 3 characters (`FixedBuffer`), with strings that are empty, shorter, as long without and with their zero, and longer; `MaxManagers = 1`: a registration that leaves its manager behind is the last one. The proofs cover any number. |
| `microphone` | `CaptureHasRecorder`, `OneTimer`, `CallsReturn` | `MaxFrames = 3`: more frames may arrive between count and read. The proofs cover any number. |
| `microphone_threads` | violation of `ArmsItsTimer` with two tasks | two tasks; `StartCreate` lets one timer be lost at most |

Each module's type invariant is checked by its run too. Deadlock is checked in `storage`, `codec` and `atomic`; in
`clock` time ends at `MaxTicks` and an inversion stops everything, and the others describe programs that end.

One assumption about a caller whose code is not all here: the recorder of `microphone` has one caller that starts and stops
it in turn (`Alternating`), as the demo does. Nothing is assumed of when the client starts and stops an alert. What it
cannot see, it cannot wait for: it may start an alert while the timer's callback runs, and, as
`aia_application_config.h:175` allows, while another one plays. What the code does not keep for such a client is an
exception that the properties state, by `overlap`. A client whose every start comes right after a stop that succeeded meets none
of them: a stop destroys the timer, which waits for the callback.

## 4. Fairness

Safety runs need none. The liveness properties assume:

* `AiaClock`: strong fairness of a task's steps and of its compare-and-swap, each only while the task is `Scheduled`.
  Tasks of equal priority share the processor; one of a higher priority blocks between its calls long
  enough for the others; a task that spins finds the lock free sooner or later if it keeps being freed. A task that spins
  at a higher priority than the lock's holder on one processor keeps it from ever running: the code does nothing about
  it, the model stops there, and `CallsReturn` names it as its exception (`Inversion`).
* `AiaAtomic`: weak fairness of the steps of a call, for tasks of equal priority. Nothing is assumed of the
  compare-and-swap: that a store ends is not promised.
* `DemoRunner`: weak fairness of the demo's task (a wait of the event group ends by time, because the code
  gives each a time) and of the client's task inside a callback. Nothing is assumed of the server.
* `OfflineAlert`: weak fairness of the timer's task, as the timer is periodic, and of the speaker's, as PortAudio plays
  what it has and then calls back. Nothing is assumed of the client.
* `MicRecorder`: weak fairness of the capture callback once it began and of a task inside a call.

## 5. Proofs

All theorems are about `Spec` (`AppSpec` for the demo), for every value of the constants that the modules' named
assumptions allow. Each module's `TypeCorrect` (`AppTypeCorrect`, `TypeOKHolds`) says that its type invariant holds, and
each safety property of a passing run has a theorem that states it.

**AiaStorage_proofs.** `IInv == TypeOK /\ AlertsBlobWellFormed /\ TokensUnique` is inductive. Types alone are
not: that the scan of `AiaStoreAlert` ends where an alert may be written depends on the final zero, and that a
delete leaves no copy depends on tokens being distinct, which in turn a store preserves only because its scan
stops at the token if it is there. The lemmas go in that order: arithmetic of sections (`Sections*`), where the
scans end (`StoreScanFinds`, `StoreScanAppends` and their counterparts for deletes), what the buffer then holds
(`AfterStoreIs` and others), and what set of alerts that is (`UpdateResult` and others). From the last ones
follow the invariant (`TypeCorrect`, `AlertsBlobInvariant`), the bounds of the scans (`ScansBounded`), `UpdatesServed`, and step
simulation for both abstract specifications (`StorageImplementsAlertTable`, `StorageImplementsBlobStore`).

**AlertCodec_proofs.** The inductive invariant says, for the loop that runs, which bytes of the buffer hold the
bytes of the alert and which bits of the fields are put together already (`LoadedInv`), and
that no bit of the time gets beyond an `unsigned` (`UnsignedInv`, by `ShiftBounded`), so that a time that does not fit cannot come
back. `RoundTripHolds`, in both directions, and
`OthersSurviveHolds` hold for all widths with a duration no wider than an `unsigned`.

**AiaClock_proofs.** `IInv` adds to types and the two reading properties that the lock is held by exactly the task
in the critical section (`LockInv`), what the pair of globals is at each statement of a setter (`PairInv`), and
what a reader has already read (`ReadingInv`). The arithmetic is in `ClocksDrift`: over any interval two clocks of
the same rate count seconds that differ by at most one. `LockHasHolder` is the safety part of `CallsReturn`: a lock that is
taken has a task inside, which waits for nothing but the processor.

**AiaAtomic_proofs.** The invariant is small (`CallsInv`): only a store is ever between two steps. The proof is the step
simulation of `AtomicRegister`: the swap that succeeds is the moment of a store, the read before it is a stutter
(`AtomicsImplementRegister`).

**DemoRunner_proofs.** `IInv` relates places, flags, the state of the client and the bits set. Its core is `RunInv`:
after CAPABILITY, `toRunDemo` true implies accepted capabilities, because only statements of the first two cases
set it. From it follow `CasesNeedCapabilitiesHolds`, `LateDisconnectStopsHolds` (an action property),
`LeavesOfflineHolds`, `StopsStreamingHolds` (with `StreamingInv`, which says where the demo was stopped if the microphone still streams when it
ends), and with `RangeInv` (the demo leaves its list of cases only at its end) the types.
`DemoAdvances` is the safety part of `Terminates`: a step of the demo's task ends a case or moves on within one (`Number`).

**OfflineAlert_proofs.** No hypothesis on the client: what fails for some clients is in the properties. None of the
four is inductive. That the callback has an alert (`LooksAtAlertHolds`) rests on nobody else touching the slot while it runs (`TickInv`),
that an alert started plays (`StartedAlertPlaysHolds`) rests on the slot in progress holding what the client
means to play (`PlayInv`) and on a start finding neither an armed timer nor a callback (`StartInv`). These three hold as long as `overlap`
is empty (`ApartInv`). `LosesOverwrittenOnlyHolds` rests on the pointer never being one of the blocks that were
lost (`SlotInv`).
`DeletesExpiredOnlyHolds`: the flag is set and cleared within one callback, and a start that overwrites the pointer under
the callback takes another block, so that the one it works on stays as it is (`DeleteInv`). The arithmetic is in
`ExceedsIsOver`: seconds and milliseconds wrap to smaller ones only, so that an alert may be deleted late and never early.

**SampleApp_proofs.** Three layers.

* The getters, for all strings and buffers: `GetterReturnsWholeString`, on `CopiedString`, what a buffer holds after the copy.
* The registration. `RegistrationInv` says what a request holds at each of its calls (`RequestInv`) and, for each place of
  `registerAia`, whether there is a manager (`ManagerInv`). The properties alone are not inductive: that `Undo` finds a
  manager rests on a request that returns false never having made a callback. `GivesBackHolds`, `DestroyFindsManagerHolds`,
  `LeavesManagerIfUnansweredHolds`. `DemoImplementsRegistration` is the step simulation that carries them to the demo: each of
  its steps is one of the registration, or leaves the registration's variables alone.
* The resources. `Frees(p, H)` says that a sequence of calls gives back all of H, once, the users of a resource before it.
  `CleanupFrees` and `DestroyFrees` show it of every failure path and of `AiaSampleApp_Destroy`, against what is there then:
  `CreateOrder` shows by the order of the steps, in every build, that this is what `Before` lists. `FreesTail` shows that
  what is left after one call again gives back what is left. So `HeldInv`, what is held at each stage and what the rest of a
  path does to it, is inductive, where `UsersGoFirst` and `ReleasesWhatIsHeld` alone are not: they look at the next call only.
  What a run gives back itself is in `Left(h, H)`: h is H but for some of `GivenBackInRun`, and `AiaSampleApp_Destroy` gives
  back all of such an H. `RunInv` carries the credentials from `StoreBeforeRun` to the request.
  `UsersGoFirstHolds`, `ReleasesWhatIsHeldHolds`, `NoLeakHolds` (with `ManagerInv`), and, with `StringsInv` on the strings already
  read and `GetterReturnsWholeString`, `RequestIsCompleteHolds`.

  The tables of failure paths are written with CASE. Their values are computed one by one by Zenon, from the definition
  and from the fact that the steps' names differ; no arithmetic leaf sees a CASE.

**MicRecorder_proofs.** For any number of tasks, whatever they call and whatever fails: `MutexInv`, the mutex is held by exactly
who is in a section that waits for nothing (`MutexHeldInSections`), so that a count of frames is still right when they are
read (`ReadsWhatIsThereHolds`), and no call waits for the callback with the mutex the callback wants. This is the safety part
of `CallsReturn`. For one caller that starts and stops in turn (the hypothesis `OneCaller`): `TimerInv` says that there is a
timer only from the middle of a start to the beginning of a stop, and that the flag a destroy relies on says so, after a
start that failed as well;
`CaptureInv` where the caller may be while the callback runs. `CaptureHasRecorderHolds`, `OneTimerHolds`, and
`ArmsItsTimerHolds`, which fails with two callers (`microphone_threads`).

Only model-checked: liveness (`CallsReturn` of the clock and of the recorder, `StarvesOnlyIfOvertaken`, `Terminates`,
`ExpiredAlertEnds`, `RefusedFramesResume`). Their proofs need fairness and ENABLED, which the prover does not reach; of
three of them the safety part is proved (`LockHasHolder`, `MutexHeldInSections`, `DemoAdvances`).

## 6. Where the code and its documentation part

Shown by a run:

* `demo_disconnect`: `processDemoCase` assigns `toRunDemo` from a condition it read before the callback set it to
  false, and the demo goes on after "Stop demo because client is disconnected now".
* `alert_race`: the timer's callback tells the client that an alert is over before it frees the block, through the shared
  pointer (`aia_sample_app.c:1053`, `:1066`). The client may start the next one in between: the callback frees the new
  block, the start arms the timer, and the next callback, which has no "offline alert that should be played"
  (`:1033`), reads the scheduled time through NULL. A start that is done before the callback destroys the timer
  (`:1059`) is reported as a success and never plays. `LooksAtAlert` and `StartedAlertPlays` state the exception.
* `alert_ready`: the timer's callback clears `isSpeakerReady` after the speaker has refused a frame. A speaker that calls
  back in between is not heard: the flag stays false, the alert falls silent, and its expiry is not looked at any
  more. `ExpiredAlertEnds` states this exception (`Stuck`).
* `microphone_threads`: the recorder's header says its methods are thread-safe, but timer and flag are outside the mutex.

Met while modelling; the models follow the code, and no run is spent on them:

* The alerts blob starts with `used_len` 1, so its size is never a number of sections, as
  `aia_storage_config.h:188` has it. `AlertsBlobWellFormed` states what it is.
* `AiaBlobExists` is true of any key in the table, stored or not (`aia_storage_config.h:65`).
* The device declares 20 alerts (`aia_capabilities_config.h:70`), and the blob has room for three.
* The event group is tested after a wait that cleared it: "Client disconnect timeout." is logged after a disconnection
  in time (`aia_sample_app.c:593`), and the response is waited for after one (`:745`).
* `AiaLoadAlert` casts each byte of the eight-byte scheduled time to `unsigned` before it shifts it, by up to 56 bits
  (`aia_storage_config.c:436`); a time after February 2036 does not come back, although the format alerts are loaded in
  "needs to match with the format the alerts are stored in" (`aia_storage_config.h:185`). `RoundTrip` states both
  directions: whatever the undefined shift does, such a time does not come back.
* A demo that a disconnection stops between the case that starts the microphone and the one that stops it leaves it
  streaming: the client, which reads what it records, is destroyed meanwhile (`aia_sample_app.c:724`, `:598`), and
  only `AiaSampleApp_Destroy` ends it. `StopsStreaming` states that this is the only case.
* `AiaSampleApp_Run` destroys the client at `:598`, before the alert timer, whose callback asks it to delete an alert (`:1053`), and
  the speaker, whose callback passes it on (`:878`). `UsersGoFirst` states this exception (`MayBeMissing`).
* The alert timer is destroyed by a start that cannot arm it, and by a stop or a callback that cannot create it again;
  `AiaSampleApp_Destroy` then destroys it once more (`:511`), and so does a stop (`:942`). A recorder that could not arm its timer has closed
  its stream, and its destroy closes it once more (`aia_portaudio_microphone.c:270`, `:164`). `ReleasesWhatIsHeld` states
  both exceptions (`GivenBackInRun`).
* A stop of a recorder whose start failed destroys a timer that is not there (`aia_portaudio_microphone.c:290`).
* `AiaHttpStoreNetworkInfo` returns false without credentials, which `RunAiaDemo` ignores (`aia_sample_main.c:314`);
  `AiaSendHttpsRequest` then reads them through NULL (`aia_http_config.c:145`). `RequestIsComplete` states that a request
  without credentials goes out then, and only then.
* An alert of an unknown type is dropped with the timer armed (`:1098`); the next tick would read through NULL.
  `LooksAtAlert` states this exception.
* A frame of the client's that cannot be decoded is answered like one the speaker refused (`aia_sample_app.c:902`), and
  `aia_application_config.h:145` has the client wait for the speaker's word, which never comes if the speaker was not
  full. `RefusedFramesResume` is about frames the speaker refused.
* The clock's spin lock does not know priorities (`aia_clock_config.c:61`), see section 4.
* A start while an alert plays replaces it, and the header asks for a no-op (`aia_application_config.h:175`); the block of
  the alert that played is lost. `LosesOverwrittenOnly` states that no others are.
* Seconds times 1000 wrap in 32 bits after some 50 days (`:1042`).
* `RunAiaDemo` returns with the connection when the sample app cannot be created (`aia_sample_main.c:311`); `NoLeak`
  states this exception. The event group's creation is not checked (`aia_sample_app.c:488`).
* `AiaSendHttpsRequest` returns true after a network error, does not follow redirects and never reads the headers of the
  request (`aia_http_config.h:48, 108, 121`); `LeavesManagerIfUnansweredHolds` states what the first costs: a manager that is left
  behind.

## 7. Not modelled

* `onSpeakerVolumeChanged` and `AiaLoadVolume`: they pass a number on.
* The MQTT wrappers of `aia_iot_config.h`: they fill in a structure and make one call of the library, keep no state, and
  nothing in the repository calls them. The macros that name its timers, mutexes and lists: other names for what the
  models already take as external.
* The crypto wrappers: one call of mbed TLS each. Their initialisation and seeding are resources of `SampleApp`.
* The patches: they change the client SDK and FreeRTOS, and the files they change are not here.
* Build files and the configuration headers: macros and types. What a missing macro changes appears as a build variable of
  `DemoRunner` and `SampleApp`.
* What the client does when the alert timer or the speaker calls it after its destruction (`aia_sample_app.c:598`): its
  code is not here. That they may is in `OfflineAlert` and `SampleApp`.
* Message formats, logging, audio data.

## 8. Plan

What is left: `OfflineAlert` composed with storage. The client's `stored` is the alerts blob, so that a deletion that
fails, or a restart, meets an alert in progress.
