# TLA+ models of the display HAL

This directory holds TLA+ specifications of the Qualcomm SDM display HAL (`composer/`, `sdm/`,
`sde-drm/`, `gralloc/`, ...), the TLC configurations that check them, and TLAPS proofs about
them. `PROJECT.json` maps every definition to the source lines it stands for, and lists the
hazards of the code with the properties that are about them.

## 1. The system

The composer process is a HAL service. Several kinds of threads run in it:

- the **composer client thread** (AIDL commands; one at a time, `command_seq_mutex_`),
- **binder threads** of the configuration services (`hwc_session_services.cpp`,
  `DisplayConfigAIDL.cpp`), any number at once,
- one **commit thread** per display (`DisplayBase::CommitThread`),
- two **uevent threads** (hotplug), one **callback thread**, **event threads** of the DRM layer,
- one thread per **SyncTask** (tone mapper, layer stitching), one of the **histogram** collector,
- `std::async` and detached tasks: TUI sessions, writeback notification, pending hotplugs.

They meet in three layers, each with its own lock: `HWCSession` (`locker_[display]`, a mutex
with a frame sequence flag; `pluggable_handler_lock_` for hotplug), `DisplayBase` (`ClientLock`,
a pair of recursive mutexes shared with the commit thread), and the DRM layer, whose managers
lock their own pools. Gralloc lives in every process that touches graphics buffers, under one lock.

| component | state | hard behaviour | what makes it correct | module |
|---|---|---|---|---|
| Commit thread, client lock (`display_base.{h,cpp}`) | two mutexes, two condition variables, `worker_busy`, `worker_exit`, layer stack pointer, idle timer | hand-over of a frame after the caller returns; `notify_one` with two kinds of waiters; timeout | callers never overlap a hardware commit; no frame and no wake-up is lost; no dangling stack | `CommitWorker` |
| Frame sequence (`hwc_session.cpp`, `locker.h`) | `sequence_wait_`, fence, error, waiters' bits | validate and present are two calls; error path outside the lock; timeouts | no transitional state seen, no waiter forgotten | `SessionCommit` |
| Writeback service (`hwc_session_services.cpp`, `hwc_display.cpp`) | queue of nodes, async task, captured buffers | reports in any order, before the posting call completed; task exit against a new request | each accepted buffer is called back once, in order | `CwbSession` |
| Power and TUI (`display_base.cpp`, `display_builtin.cpp`, `hw_device_drm.cpp`, `hw_peripheral_drm.cpp`, `hwc_display.cpp`) | requested, current and pending power mode in three layers, pause flags, secure event | a call may be deferred in one layer and cancelled in another; a session pauses the display | deferred calls happen; the panel follows the state; the trusted VM's panel is left alone | `DisplayPower` |
| Hotplug (`hwc_session.cpp`) | display maps, pending hotplug, uevent counter | four threads share one handler; deferral during sessions, failed creations | the client's view comes to agree with the connectors; one slot per display | `Hotplug` |
| Callback queue (`hwc_callbacks.cpp`, `AidlComposerClient.cpp`) | callback functions and data, queue, its thread, waiting hotplug | the client goes and another comes with events in flight | no call into a client that left; the queue is worked off | `Callbacks` |
| Secure sessions (`hwc_session.cpp`, `hwc_display.cpp`) | `secure_session_active_`, `pending_power_mode_` | the state of one display is changed by frames of another | displays powered off for a session come back as their client wants them | `SecureSession` |
| Layers and frames (`hwc_display.cpp`, `hwc_display_builtin.cpp`, `hwc_layers.cpp`) | notes of what changed, validation state, `pending_refresh_` | a frame that repeats the last one is skipped | no buffer and no refresh request is lost with it | `LayerFrames` |
| Configurations and refresh rates (`hwc_display.cpp`, `hwc_display_builtin.cpp`, `display_builtin.cpp`) | active, pending and deferred configuration, votes | a change is deferred over frames while others ask | the client is told what the panel runs; each request is taken up | `ActiveConfig` |
| SyncTask (`sync_task.h`) | two mutexes, task code | the caller's waits have no predicate | each task runs once, its caller returns after it | `SyncTask` |
| Tone mapper (`hwc_tonemapper.cpp`) | pool of sessions, two buffers each | sessions are released and move in the pool while indices are kept | one layer per session; no buffer is overwritten while it is displayed | `ToneMapper` |
| Histogram (`libhistogram/`) | thread, one-place work slot, ring buffer | stop releases its lock before it joins; totals of a ring that forgets | no thread left over; queries agree with what was inserted | `Histogram` |
| DRM planes (`drm_plane.cpp`, `drm_atomic_req.cpp`) | owners, property caches and FP16 note of each plane, colour tables | only changes are sent; a validation changes what a commit sends; failed and null commits; planes move between displays | the cache is what the hardware has; a frame is shown whole | `DrmPlanes` |
| DRM pipes (`drm_manager.cpp`, connector, encoder, CRTC managers) | pools and who has reserved what | partial failure; connectors come and go | one display per pipe; nothing stays reserved | `DrmResources` |
| Gralloc (`gr_buf_mgr.cpp`, `gr_utils.cpp`) | map of buffers with counts; layouts | one process, many users; size and offsets computed apart | there while held; caches in step; planes inside the buffer | `BufferManager`, `BufferLayout` |
| Composition manager, DRM events, fences, colour manager, configuration service, virtual displays, utilities | | | | not modelled (section 6) |


## 2. Modules

Every module with state has a type invariant (`TypeOK`, `...TypeOK`); the proofs use it, the runs
do not list it. Definitions whose comment begins with *A slip* or *Broken variant* belong to no
specification: they are plausible mistakes, kept to see that a property can fail.

`MC...` modules instantiate the specifications for TLC. `MCServices` and `MCResources` put components
that share no state side by side, as `MCHwcSession` does with `SessionCommit` and `SecureSession`:
`part` is the one that moves in a behavior, so the states add up and are not multiplied, and a property
of such a run is the conjunction of those of its parts. `ServicesProofs` and `ResourcesProofs` prove of
those compositions what they prove of the parts. `MCDisplayPower` gives three kinds of displays, by
hardware and client, to one run.

### The core of a display

**CommitWorker** (`FramePipeline`, `MCCommitWorker`, `CommitWorkerProofs`). One thread of control
per client, the owner of the display and the commit thread; `pc` says where each is. `LockClient`
and `EnterOrWait` are the constructor of `ClientLock`, statement by statement; what a call does
under the lock is one step, because both mutexes are held (`Prepare` keeps the lock until
`CommitOrPrepare` ends). `SubmitAsync` is `SetUpCommit`, `PrepareForAsyncTransition` and
`NotifyWorker`. `CommitThread` is split where it releases or waits for `worker_mutex`. A condition
variable is the set of threads that sleep on it; `notify_one` picks any of them; a woken thread
competes for the mutex. Calls outside the class of frames (`OtherCall`) change only what the
properties see: the stack pointer and the idle timer. `FramePipeline` is the abstract
specification: frames go in one at a time, come out in order, and none is lost at the close.

**SessionCommit** (`MCHwcSession`, `HwcSessionProofs`). The critical sections of
`locker_[display]` are single steps. The error path of `PresentDisplay` runs after the section
ended, one statement per step (`ErrorCheck` ... `CancelSequence`). A bit of
`clients_waiting_for_commit_` is set by a read and a write, so the unlocked reset may be lost
(`ResetLost`). A waiter sleeps first for the sequence, then for the commit; timeouts and spurious
wake-ups may come at any time.

**LayerFrames** (`ResourcesProofs`). The layers of a display, where a setter notes its change (`buffer_flipped_`,
`geometry_changes_`, `update_mask`, `layer_stack_invalid_`), which later call clears each note, and
which frames `CanSkipCommit` lets go uncommitted. A setter, a validation, a present are one step
each (they hold the lock of the display); the callback thread, which asks for refreshes, interleaves.
The client draws after a change or when asked, sets a layer's buffer once a frame, and changes
nothing between the validation of a frame and its present.

**ActiveConfig** (`ServicesProofs`). Three layers keep their own idea of a display's configuration: `req` is what
`HWCDisplay` has stored of the client's requests (three places), `sdm` the rates of
`DisplayBuiltIn`, its deferred rate (`left`, `fps`, `dirty`, `apply` are `DeferFpsConfig`), the
mode and rate `HWCDeviceDRM` will send, and the vote of the composition manager; `screen` is the
mode last sent. `ReconfigureDisplay`, `ChangeFps`, `Prepare`, `HwCommit` and `PostCommit` map one
record to the next, so that a frame is the composition its code is. A frame is one step when the
draw is unified, two (`Validate`, `Present`) when not; the failure of one of four calls is a
parameter. Times are reduced to whether a request is `due`. Assumed: every group has a mode for
every rate, the flush after a failed commit succeeds, the first frame is not a unified draw.

**DisplayPower** (`MCDisplayPower`, `DisplayPowerProofs`). `kind` says what the display is: command
or video mode, with writeback or not, the power modes its client asks for, the failures explored; it is
chosen in `Init` from the constant `Kinds` and never changes. `dpy` is the record of the state in `DisplayBase`,
`DisplayBuiltIn`, `HWDeviceDRM` and `HWPeripheralDRM`; `hwc` that of `HWCDisplay`; `tui` is the
session thread. The operators of the lower layers map a record to the set of `[d, err]` a call may
end with, so that a call of an upper layer is the composition its code is. Each top-level call holds
its lock throughout and is one step; what interleaves are the client's calls, the frames, the
writeback teardown and the steps of the session.

### The session and its clients

**CwbSession** (`MCCwbSession`, `CwbSessionProofs`). Each call of `PostBuffer` has three sections
(session lock, display lock, session lock); `NotifyCwbDone` is atomic because `cwb_mutex_` is held
across it; the async task does one iteration per step. The manager that reports buffers is an
extension library outside the repository: it may report any captured buffer, with either status, at
any time.

**Hotplug** (`MCHotplug`, `HotplugProofs`). `HandlePluggableDisplays` runs on any of four threads under one lock;
`run` is the state of its holder, step by step: query, removal, slot selection, creation,
announcement. `hpd` is the pair of uevent threads with their counter, `reg` the registration of the
hotplug callback, `deferred` the detached threads. A creation may fail; a virtual display or a trusted
UI session may stand in the way; the driver's connections change at any time.

**Callbacks** (`ServicesProofs`). Register and deregister of six descriptors, the queue and its thread,
the hotplug that waits for a client with and without a timeout. A callback is one step, as the lock of its descriptor
is held; a client that was destroyed is `Nobody`, and a call with its data is what must not happen.

**SecureSession** (`MCHwcSession`, `MCSecureSession`, `HwcSessionProofs`). The command thread finds out at
each present whether the secure layers of the active display call for a session or end it, turns the
others off or on, and carries out the power calls put off meanwhile; power calls and hotplugs come on two
other threads. A step is what one thread does under the lock of one display, or one read without a lock:
a power call reads its display (`CallSetPowerMode`), `secure_session_active_` (`LookAtSession`), the
active display (`LookForActive`), `pending_power_mode_` (`LookAtPending`) and the last mode
(`LookAtMode`) one after the other, and sets the mode only then (`SetMode`), so a session may begin or end
in between. Turning a display off for a session, setting its mode and restoring it may fail: a mode that
could not be restored stays pending while `secure_session_active_` is cleared (`failed` notes it).

### Services

**SyncTask** (`ServicesProofs`). The statements of `PerformTask` and of the worker between two
lock, unlock, wait or notify operations. Every wait may end without a notification. The worker's has a
predicate; the two of the caller (`sync_task.h:61`, `:90`) have none, and after one of them ended so
(`early`) the call is over although its task is not. What then follows: the worker uses a context that
was on the stack of a call that returned; the next call returns with the notification of the last task;
and caller and worker may wait for each other's mutex for ever (`TwoLocks`), because `PerformTask` takes
`caller_mutex_` first and the worker, at `:107` and `:124`, takes it last. So `ContextIsAlive` and
`DoneOnReturn` say what holds while `early` is false, and `LocksInOrder` that the circle needs such a
wake-up; `CallReturns` is for every behavior but excepts the circle. What the comment at `:89` says,
`PerformTaskWaits`, is a finding.

**Histogram** (`ServicesProofs`). start, stop, the monitoring thread, blob events, and the ring buffer with its totals
and its query by time; the properties compare both with what was inserted.

**ToneMapper** (`ResourcesProofs`). `HandleToneMap` gives the layers of a frame sessions, `PostCommit`
stores the release fences and closes the unused ones; a commit may be skipped or fail. The loops over
layers and over sessions take one step a turn, so that an erased session moves those behind it between
two turns, as in the code. A fence is the number of the frame it belongs to.

### Resources

**DrmPlanes** (`ResourcesProofs`). Two displays build requests property by property under the lock of
the plane manager and have the kernel test or apply them. A plane has the two property caches of the code,
its requested and assigned owner, the note of its FP16 conversion and the state of its colour table; `hw`
is what the kernel has. The note (`fp16_csc_type_`, `fp16_gc_config_`; the two are handled alike and are
one setting) is a third cache: a validation changes it, `PostValidate` (`drm_plane.cpp:1185-1193`) does
not restore it, a session of the trusted VM does not clear it, and the commit that follows sends nothing
that agrees with it. `unsent` is the set of planes where this has happened since the conversion was last
sent. The other properties of a layer are one value, `conf`; a frame may leave it as it is
(`update_config` false). Left out are the framebuffer, which every frame sets, the DGM colour
conversion, which is reset like a colour table, and the blend type and scaler that the branch for colour
tables sends.

**DrmResources** (`DrmResourcesProofs`). `RegisterDisplay` and `UnregisterDisplay` take and give back a connector, an encoder
and a CRTC, one call per step; the encoder's look-and-set is two. Connectors come and go.

**BufferManager** (`ResourcesProofs`). One step per operation, all under `buffer_lock_`; users keep
the mapper's contract. `cpuCache` is what the CPU's cached lines are in comparison with memory.

**BufferLayout** (`ResourcesProofs`). Pure operators: the size of an allocation and the planes of a buffer, translated
from the two groups of functions in `gr_utils.cpp` that compute them, for linear YUV and raw formats
and for RGB with and without UBWC. A behavior asks one question.

## 3. Runs

All runs finish within three minutes on two cores.

| run | bounds | states | checks |
|---|---|---|---|
| `CommitWorker` | 2 clients, 3 frames, 3 calls each, 2 spurious wake-ups | 33 thousand | lock, stack, single waiter; `EveryCallReturns`; refinement of `FramePipeline` (`PipelineSpec`) |
| `HwcSession` | `SessionCommit`: 2 waiters, 3 frames, 2 calls each, 1 spurious wake-up; `SecureSession`: 1 built-in, 1 pluggable, 2 kinds of session, 3 switches, 3 power calls, 2 plugs, 1 failure | 509 thousand | no forgotten waiter, no transitional snapshot, every wait returns; displays come back after a session, pending calls are restored |
| `CwbSession` | 3 requests, 2 buffers, 2 tasks, 1 spurious wake-up | 203 thousand | order, one task in step with the queue, reports, delivery |
| `DisplayPower` | 5 calls, 2 sessions, 1 failure, three kinds of displays | 354 thousand | deferred calls are known, drawn for and carried out; off is not drawn; the VM keeps the panel |
| `Hotplug` | 2 displays (1 at boot), 2 slots, 2 changes, 2 registrations, 1 other event | 401 thousand | the client's view, slots, nothing pluggable in a session, everything put off is taken up, convergence |
| `Services` | see below | 181 thousand | `Callbacks`, `SyncTask`, `Histogram`, `ActiveConfig` |
| `Resources` | see below | 2.5 million | `ToneMapper`, `DrmResources`, `BufferManager`, `BufferLayout`, `LayerFrames`, `DrmPlanes` |
| `CwbSessionReject`, `SecureSessionBuiltin`, `ActiveConfigLatest`, `LayerFramesSkip`, `SyncTaskReturns` | small | small | one finding each (section 4) |

What the properties that are conjunctions stand for:

| property | parts |
|---|---|
| `CallbacksInOrder` (`CwbSession`) | `DeliveredInQueueOrder`, `DeliversOnlyDoneRequests` |
| `TaskIsInStep` (`CwbSession`) | `WaitedForIsFront`, `SleepsOnlyUnnotified`, `OneTaskWhilePending` |
| `PendingIsKept` (`DisplayPower`) | `PendingReachesHw`, `PendingHasFrame` |
| `PutOffIsTakenUp` (`Hotplug`) | `UnannouncedIsPending`, `DeferredIsRetried`, `ProcessingHasThread` |
| `CacheIsTrue` (`DrmPlanes`) | `PropertyMapsAreTrue`, `Fp16NoteIsTrue` |
| `ShowsItsFrame` (`DrmPlanes`) | `FrameIsShown`, `NoStaleLut`, `ShownIsAssigned` |
| `CommitDoesItsPart` (`DrmPlanes`) | `LutIsSet`, `OthersLeftAlone` |
| `NoLateUse` (`MCServices`) | `GoneLeavesNothing`, `ThreadHasItsData` of `Callbacks`; `ContextIsAlive` of `SyncTask` |
| `CallsAreComplete` (`MCServices`) | `DoneOnReturn`, `LocksInOrder` of `SyncTask`; `NoThreadAtStart` of `Histogram` |
| `ViewsAgree` (`MCServices`) | `TotalsAgree`, `AfterHasTheFrames` of `Histogram`; `ScreenIsAsTold`, `VoteCoversScreen` of `ActiveConfig` |
| `EveryCallReturns` (`MCServices`) | `HotplugReturns`, `CallReturns`, `StopReturns` of the three |
| `QueuesAreWorkedOff` (`MCServices`) | `QueueDrains` of `Callbacks`; `EventIsConsumed` of `Histogram`; `RequestsAreTakenUp` of `ActiveConfig` |
| `WithinBounds` (`MCResources`) | `FbIndexInRange` of `ToneMapper`; `PlanesFit`, `PlanesDisjoint` of `BufferLayout` |
| `OneUserEach` (`MCResources`) | `OneLayerPerBlit` of `ToneMapper`; `OneDisplayPerPipe` of `DrmResources` |
| `NothingLeaks` (`MCResources`) | `NothingLeaks`, `ReservedIsInPool` of `DrmResources` |
| `UsersKeepApart` (`MCResources`) | `CacheIsCoherent` of `BufferManager`; `BlitWaitsForDisplay` of `ToneMapper` |
| `SkipLosesNothing` (`MCResources`) | `SkipLosesNoBuffer`, `RefreshIsNotSpent` of `LayerFrames` |

*Bounds of the parts.* `Services`: two displays of which one is announced through the queue, 2
clients one after the other and 3 reports (`Callbacks`); 3 tasks (`SyncTask`); a ring of 2 frames, 4
events, 2 starts, times to 4 halves of a millisecond (`Histogram`); 2 groups, 2 rates, deferral over 2
frames, 2 requests of the client, 1 other call, 1 failure (`ActiveConfig`). `Resources`: 2 tone map
configurations, 2 layers, 3 frames, 3 sessions (`ToneMapper`); a pluggable display, a virtual display
and the writeback of a third, on 3 connectors, 3 encoders and 2 CRTCs (`DrmResources`); 2 clients and
2 handles (`BufferManager`); widths 1 to 2050 and heights 1 to 82 that lie on both sides of each
alignment, with every smaller crop rectangle (`BufferLayout`); 2 layers, 2 buffers, 4 edits, 1
refresh, 1 failure (`LayerFrames`); 2 planes of which one has a colour table and the other an FP16 block, 2 displays, 2 settings, 1 conversion
(`DrmPlanes`). The planes are two parts of the run (`PartOfPlanes`), because their product is out of
reach: in `planes` the rounds of the displays interleave, colour tables come and go and every frame
updates its settings, without FP16 buffers; in `fp16` one round follows another, no colour table is set,
and conversions come and go with settings updated or not. The theorems are about the specification
without this split.

*Why the bounds are enough.* In `CommitWorker` a third frame is needed to submit while another is
performed and one was performed before; two clients make the client lock contended while the
thread waits too. In `CwbSession` three requests on two buffers give a repeated buffer, a request
that fails in the middle of the queue, and a task that leaves while a request arrives; the second
task exists to show that it is never needed. In `SessionCommit` two waiters share one fence and
one error. In `DisplayPower` two sessions show what one leaves behind for the next; every deferral
takes at most two calls to set up. In `Hotplug` one display more than are connected at boot gives an
arrival and a departure in one batch, two changes an event that comes while the last is handled, and
two registrations a client that comes back. `SecureSession` needs three switches to begin, end and begin
again, with a display that is unplugged and comes back between them; of three power calls one puts a
display into the state that another, overtaken by the session, finds. A second client in `Callbacks`
finds what the first left behind; a third task in `SyncTask` meets a state two handshakes old. A ring
of two frames is full, and forgets, at the third. Two requests in `ActiveConfig` are what it takes to
have two of the three stores filled. A second setting and a second display in `DrmPlanes` tell a stale
cache from a true one, and a plane that moves from one that stays.

*Deadlock.* `CommitWorker` checks it: the only state without a step is after the destructor, which
`Stopped` marks. In the other modules the calls, sessions, events or requests of the outside world are
bounded, so a state where all are used up has no successor, and the check is off; that nobody
waits forever is what the liveness properties say.

*Symmetry* is used in `CwbSessionReject` and in `Resources` (displays and settings of `DrmPlanes`, which
no other part uses), never with liveness.

*Fairness.* Threads that are able to run do run: the commit thread, the constructor, calls in
progress, the session thread (`CommitWorker`, `SessionCommit`, `CwbSession`, `DisplayPower`); the
callback thread, a hotplug that waits and a registration in progress (`Callbacks`); caller and worker
(`SyncTask`); the monitoring thread and a stop that joins (`Histogram`); a command, a power call and a
hotplug in progress (`SecureSession`); each step of a thread in `Hotplug`. A new call is never forced.
Weak fairness is enough for the mutexes where calls are bounded; strong fairness is assumed where a
lock is taken over and over: entering the handler's lock in `Hotplug`, where a present also waits for
a virtual display to leave, and a present of the primary in `SecureSession`. Assumed of the outside: the composer
client presents a frame it validated (`SessionCommit`, `ActiveConfig`), draws a frame it was asked
for while it has the display on (`DisplayPower`, `ActiveConfig`, `Hotplug`), and goes on presenting
the primary (`SecureSession`); the writeback manager reports each captured buffer (`CwbSession`);
the TUI client ends the session it started (`DisplayPower`, `Hotplug`); the time a client desires
for a configuration comes (`ActiveConfig`). Timeouts are finite, so they happen.

*Faults.* `DisplayPower`: a failed null commit, flush, frame or reconfiguration is explored; the
properties but the type are stated for runs without one, because after a failed commit the code's
layers disagree and no document says which one is right. `Hotplug`: a creation fails, and its
retry is what `PutOffIsTakenUp` is about. `SecureSession`: a frame is not committed, a power call
or a restore fails, or the driver gives no list of displays; a display whose restore failed is excepted. `LayerFrames`: a
validation or a present fails. `ActiveConfig`: the vote, the split, the validation or the commit
fails; requests are still taken up. `DrmPlanes`: the kernel refuses a test or a commit. `DrmResources`:
any of the three reservations fails. Nothing here is persistent, so there is no recovery from a crash
of the process to model; the composer client's death and return is in `Callbacks`.

## 4. Findings

Each is a run that violates a property quoted from the repository; `PROJECT.json` has the lines.

1. `CwbSessionReject`: a rejected writeback request behind which another was queued is never removed;
   the task spins (`hwc_session_services.cpp:629`).
2. `SecureSessionBuiltin`: the pending power mode of a second built-in display is carried out through
   a null map entry (`hwc_session.cpp:3658`).
3. `ActiveConfigLatest`: a configuration asked for before the first commit is applied over a later
   request (`hwc_display.cpp:2907`, "Honour latest request"). `SetActiveConfig` before the first frame
   is deferred; the present of that frame makes it pending; `SetActiveConfigWithConstraints` then asks
   for another; the next frame submits the second request and then applies the first.
4. `LayerFramesSkip`: a frame whose layers changed is taken for a repeated draw cycle
   (`hwc_display_builtin.cpp:311`).
5. `SyncTaskReturns`: `PerformTask` returns before its task was done, after a wake-up of
   `caller_cv_.wait` without a notification (`sync_task.h:90`, "Wait for worker thread to finish and
   signal."). A dead context and a deadlock at `:124` follow (section 2).

### Stated in a module, violated by the code, not a run

These are definitions of the modules that TLC finds violated; each says what a comment or the code's
own structure suggests.

- `CtorWaitsForWorker` (`CommitWorker`): the wait of the constructor has no predicate
  (`display_base.cpp:107`). After a spurious wake-up (`EarlyWakeSpec`) there are two traces: a caller
  holds `client_mutex` and waits for `worker_mutex` while the starting thread holds `worker_mutex` and
  wants `client_mutex` to greet; or a frame is handed over before the thread runs and is lost, because
  its loop begins by clearing `worker_busy`. `Spec`, which the run and the theorems use, is without
  that wake-up.
- `CommitDoneMeansCommitted` (`SessionCommit`): `WaitForCommitDone` may return 0 without a commit, by
  the unlocked error path, by a bit an earlier timeout left, or by a bit lost between two writers.
- `OffIsNotDrawn` (`DisplayPower`, command mode): a power off deferred by a TUI start leaves `active_`
  set; the display is off and draws. `VsyncKept`: a vsync request deferred twice is forgotten.
  `DeferredIsKept`: a deferred power on is lost when a session begins on another display.
- `NoGhostDisplay` (`Hotplug`): `RegisterCallback` announces displays from a copy of the map
  (`hwc_session.cpp:960-974`, comment at 965); one removed meanwhile is announced after its removal.
- `NoLockCycle` (`SecureSession`): `HandlePendingPowerMode` waits for `pluggable_handler_lock_` with the
  lock of the active display held, against the order of the hotplug handler (comment at
  `hwc_session.cpp:3699`).
- `NotTurnedOnInSession` (`SecureSession`): `SetPowerMode` refuses calls while `pending_power_mode_` is
  set ("Set power mode is not allowed during secure display session", `hwc_session.cpp:1217`), but that is
  set only when the session ends, so a call in a session turns a pluggable display on. That power calls
  are put off in a session is said of the second built-in display alone (`:1195-1197`).
- `Fp16IsShown` (`DrmPlanes`): a frame is validated before it is committed; the validation changes the note
  of its FP16 conversion, so the commit does not send it. The comment at `drm_plane.cpp:1018-1021` says of
  the optimization that it "leads to AddProperty being called in Validate and ignored during Commit call".
- `PendingHasSession` (`SecureSession`, two built-in displays): a call that turns the primary display
  off is put off while the session is on the second built-in. At the end of the session the call makes
  the primary's mode pending, but `HandlePendingPowerMode` looks for pending modes from the display
  after the primary on (`hwc_session.cpp:3615`), so the primary refuses power calls and frames for
  ever. With one built-in display the property is proved (`PendingTheorem`).
- `DeregisterReturns` (`Callbacks`): the deregistration joins a thread that may wait for what only
  the client can do (`hwc_callbacks.cpp:181`).
- `NeverThrows`, `TargetGetsFramebuffer` (`ToneMapper`): an index that moved is used with `at()`
  (`hwc_tonemapper.cpp:250`); a layer's session may be taken for that of the framebuffer target (`:190`).

### Seen while modelling

- *Frame sequence.* Nothing reads the `error_` that a cancelled sequence leaves in its waiters
  (`locker.h:103`), so they go on to wait for the next commit.
- *Power.* A doze deferred before the first frame is replaced by the power on of the first commit
  (`hw_device_drm.cpp:1824`), which is why `PanelFollowsOnOff` is for clients without doze.
- *Hotplug.* The notification of `HpdDeinit` (`hwc_session.cpp:327-333`) is lost if the thread is not
  waiting yet. The client is assumed to register after the first wait of the event thread.
- *Secure sessions.* The primary is left out of the loop of `HandlePendingPowerMode`. A pluggable
  that its client powers off in a session is turned on at its end. Going from one kind of session to
  the other overwrites the saved mode, and so does a session that begins before the last one's modes were
  restored: it saves that the display is off, and the display stays off (`PendingIsRestored` excepts it).
  A mode that could not be restored stays pending with no session, and its display refuses power calls
  and frames until a session begins and ends again. A power call that found no mode pending before the
  end of a session may turn its display on before the driver knows of that end (`ComesBackAfterSession`
  excepts it). A display unplugged and plugged in while its mode is pending
  stays stuck (`lost`). Powering the primary off and on during a present races with a virtual display.
- *Callbacks.* The hotplug that waits for ever may call the new function with the old data
  (`hwc_callbacks.cpp:74` against `:172`). `client_connected_` never becomes false again. The bits of
  `pending_refresh_` are written by two threads.
- *Histogram.* `work_available` survives a stop. The cumulative count saturates while the sum it is
  divided by wraps.
- *Layers and frames.* `update_mask` is cleared by the validation, `layer_stack_invalid_` at
  `hwc_display.cpp:1638`. The frame drawn for a refresh is itself skipped if the bit is set after the
  present (`hwc_session.cpp:871`). `CanSkipCommit` takes a layer's flip back even if the commit that
  follows fails; setting the same buffer again takes a flip back too (`hwc_layers.cpp:443`). The
  present after a failed commit drops its frame and flushes (`hwc_display.cpp:1899-1902`). A unified
  draw whose `CommitOrPrepare` failed is reported as presented (`AidlComposerClient.cpp:1043-1047`).
- *Configurations.* A validation or commit that fails clears `vrefresh_` while
  `current_refresh_rate_` has the new rate, so the change is lost until the rate changes again.
  `SetActiveConfig` and `SetActiveDisplayConfig` compare with the driver's mode, which the idle
  fallback may have lowered: a request for that rate is dropped. A rate that is forced, or that of the
  idle fallback, is not sent if `current_refresh_rate_` still has it from before a `SetActiveConfig`. A
  seamless request that is refused has forgotten the deferred one already. A request that comes due
  between a frame's validation and its present is submitted to a display validated without it, and the
  old `vrefresh_` overrides its rate for that frame; with a lower rate deferred, the vote is then below
  the panel's rate until the deferral is over, which is why `VoteCoversScreen` is for `left = 0`.
  `UpdateActiveConfig` drops a request whose reconfiguration failed though the driver's mode changed.
  Unified draws alone never end HWCDisplay's first cycle. `DisplayBuiltIn::SetActiveConfig` marks the
  deferral dirty before it takes the lock. A vote that fails after a commit stays low until the next
  frame.
- *DRM planes.* The state of a colour table diverges when a reset was only tested or was refused
  (`drm_plane.cpp:1752-1754`, the model's `doubt`). `reset_planes_luts_` is shared by all displays.
- *DRM pipes.* A registration that names its connector leaves it reserved when the encoder or CRTC
  cannot be had (`drm_manager.cpp:293-298`). The encoder's status is looked at and set without a lock
  (`drm_encoder.cpp:149-174`); only the locks of the callers keep two displays apart.
- *Gralloc.* The statistic of allocated memory drifts. `AllocateBuffer` leaks the data memory when the
  metadata cannot be had; a failed import leaves its ion handles. The plane of an RGB buffer is as
  large as the whole buffer; `YCrCb_420_SP_ADRENO` has zero chroma scan lines; odd heights lose the last
  chroma row.

## 5. Proofs

Eight modules hold theorems; `PROJECT.json` lists those a reader should know of. All are for every
value of the constants under the named assumptions of the modules: threads are distinct
(`ThreadsAssumption`), bounds are naturals (`BoundsAssumption`, `SsBoundsAssumption`,
`MaxSpuriousAssumption`), displays, connectors and slots are numbers (`IdsAssumption`, in
`SecureSession` finitely many), the kinds of displays and of sessions are of their types
(`KindsAssumption`), names that stand for nothing are none of the others (`NoTaskAssumption`,
`NamesAreDistinct`, `AbsentIsNoLutState`), refresh rates are positive and have a least and a greatest
(`RatesAssumption`), the number of frames a lower rate is deferred is a natural (`DeferAssumption`), as
are the frames and times of the histogram, whose ring holds one frame at least
(`HistogramAssumption`).

Some theorems have hypotheses of their own. Those about buffers (`HeldTheorem`, `CoherenceTheorem`,
`ApartTheorem` and their types) are for finitely many users, without which a count of references could
not be their number. `PageAssumption` is that a page divides 4 KiB: with larger pages the plane of a
protected raw buffer, whose size is computed without its usage, would be reported larger than the
buffer. Those of `DrmResourcesProofs` are for resources that are `Wired`: what a connector or an encoder
can use are encoders and CRTCs of the driver, and the name for none of them is not one.
`PendingTheorem` is for devices with one built-in display (`OneBuiltin`). The type theorems of the two
compositions are for bounds that are naturals (`ServicesBounds`, `PoolBounds`, `FramesBounds`). TLC
checked every inductive invariant on the run's instance before it was proved.

### The core of a display

`CommitWorkerProofs` proves each safety property the run checks. `LockImpliesNoFrameInFlight` is
not inductive: it says nothing of a thread that is about to enter. The invariant used is the
conjunction of parts that say who holds each mutex at each `pc` (the holder of `worker_mutex` is the
one thread inside), who is in `worker_cv`, and that a frame is in flight exactly when
`worker_busy` is set for a frame and the worker is not past its commit. From it follow the lock
property, the detached stack, the single waiter of `worker_cv`, and that an exit loses no frame.
`PipelineTheorem` maps every step to a step of `FramePipeline` or a stutter, with
`inFlight <- submitted - performed`.

`HwcSessionProofs` proves of `SessionCommit` `NoForgottenWaiter`, which is inductive, with one lemma
for the composer's steps and one for the waiters', and `NoTransitionalSnapshot` from it: a call that
falls asleep for the commit came through the wait lock, so the sequence was not open, so no frame was
between its two calls. `SequenceTypes` adds the bounds: no more calls and frames than were begun.

`DisplayPowerProofs` proves every safety property of the run, the action property included. The lower
layers' calls return sets of outcomes, so each has a lemma that says what it may return
(`HwPowerDoes`, `SetDisplayStateDoes`, `HwSecureDoes`, `StartDoes`, `ResumeDoes`, `PrepareDoes`,
`CommitDoes`, `SecureEventDoes`): a power call is put off, carried out or cancels the one put off
(`PutOff`, `Entered`, `Cancelled`), and the rest of the record is left alone. The invariant `DpInv` is
the type and, for behaviors without a failed call so far, four parts: which steps of a session find the
client paused (`InSession`); that a put-off request is known to the hardware layer and has a frame or
the end of a session to come (`RequestKept`); that the panel is in the state of the client (`PanelKept`,
for clients without doze); and, for a video mode panel without writeback, when the hardware layer
believes in a session (`VideoKept`). None is inductive alone: what a session leaves depends on what
was put off when it began. `VideoKept` needs *without writeback* because a session that begins while a
teardown is pending leaves `tui_state_` behind, so a power call of the next session reaches the panel;
and a call that *fails* at the end of a session may change the panel, so `VmKeepsVideoPanel` is for
steps that do not fail.

### The session and its clients

`CwbSessionProofs` proves all safety of the writeback service and its type. `CwbInv` says that the queue holds
each request at most once and holds exactly those that were accepted and not yet popped (`Nodes`), that
captured buffers belong to queued requests, one each (`Captures`), that one task runs at most and runs
whenever a request waits (`OneTask`), and what a task that sleeps or delivers has in hand (`Waiting`,
`Delivering`). `OrderInv` adds the history: what was delivered, what is being delivered and what is queued
are, one after the other, the order of posting. The lemmas `AppendFacts`, `TailFacts` and `FrontFacts`
say what the three operations on the queue do to its indices.

`HotplugProofs` proves all safety of hotplug, for any displays, slots and displays at boot. `HpInv` has
`Shape` (who can hold the lock of the handler at which step, and what the uevent threads owe it),
`NobodyYet` (nothing pluggable exists before a client registers), `FirstClient` (what a client that
registered once has been told, with the one display it was told is gone and that still exists),
`PutOff` (what an announcement, an event or a thread that waits has to take it up) and `Alone` (a
session of trusted UI). `PutOff` is the strengthening of `PutOffIsTakenUp`: the property speaks of
moments without a handler, the invariant of a handler that is the session's own as well, which looks
at no display. `OneSlotPerDisplay` follows from the type and from `Candidates`, which leaves out what
has a slot. That the least element of a set of numbers exists (`MinIsSmallest`) is by well-founded
induction on a set, as the sets of displays and slots need not be finite.

`HwcSessionProofs` proves of `SecureSession` that a display comes back only when the driver knows that
the session is over, or by a power call that was overtaken by its end (`ComesBackTheorem`). `SsInv` is the type and `DriverKnows`: from the draw of its
frame until a present has restored the last mode, what the driver was told is what the layers of the
active display show, though power calls and hotplugs come in between. That a pending mode belongs to a
session (`PendingTheorem`) needs more than that: that the loops begin where they should (`LoopStarts`),
that the slots agree with the connectors (`SlotsAgree`), and that while modes are restored no hotplug
changes the displays and nothing pending is behind the loop but what refused its mode (`RestoresAll`). It holds with one
built-in display, because no call is ever put off for the primary then (`PrimaryHasNoPending`); with two
it is false (section 4).

### Services

`ServicesProofs` proves its theorems of each component's own specification, and then of the
composition, every behavior of which is one of each component.

`Callbacks`: `Alive` says at which points of Register and deregister there is a callback thread,
`Mine` which functions the client has taken back by then and when `callback_data_` is its own, and
`Drained` that a thread that returned when nothing more can be pushed left an empty queue. A client
that is gone has taken all functions back, so its last join emptied the queue for good.

`SyncTask`: `StInv` says who holds each mutex at each pair of positions (`Mutexes`), what is known of the
task numbers whatever woke the caller (`Tasks`), and that the start (`Starting`) and `Handshake`, the
table of the positions caller and worker may be at together, with `pending` and the task numbers, are
kept while no wait of the caller ended early. From it the context of a call is used only while its caller waits, a call
returns after its task was done, and the two mutexes are never waited for in a circle.

`Histogram`: a thread that was asked to return is joined before `stop` returns, so the next start finds
none (`HgInv`). `RingInv` is about the ring: its frames are in the order of their times, each ends when the
next began (`Ordered`), and until one has left, the running totals are those of all but the newest
(`Counted`). The total of a ring is a recursive function; the one fact the proofs need of it, what one
more frame adds, is that the function the definition chooses exists. That is shown without the
induction theorems of the library: of the lengths up to which no such function exists there would be a
least one (`SumExists`, over a set of numbers). `RingTheorem` then compares the totals and a sample after
any time with what was inserted.

`ActiveConfig`: `AcInv` says between calls what the three layers may believe. `Rest` is the state of SDM
when no call is in progress; while no vote has failed, `Covered` says that what was voted for is the
display's attributes, which are the driver's mode when no rate is deferred; and while no call has
failed, `Noted` says that a rate that differs from the driver's is in `vrefresh_`, to be sent, and
`Agree` that resolution and active rate are those of the configuration HWCDisplay tells its client. A
lemma says what each function does to the records (`ReconfigureDoes`, `ChangeFpsDoes`, `PrepareDoes`,
`HwCommitDoes`, ...), because a call is their composition. `ToldTheorem` and `VoteTheorem` follow.

`ServicesTypes` is the type of all four. Most of it is in the invariants above; what their guards bound
is in `CbBounds`, `StBounds`, `AcBounds` and `HgBounds` (at most one item in the hands of the callback thread,
as many events as were noted, no more frames than the ring holds).

### Resources

`ResourcesProofs` is laid out as `ServicesProofs`. The theorems about DRM pipes are those of
`DrmResourcesProofs`, instantiated for the wiring that `MCResources` checks.

`BufferManager`: a count equals the number of users that hold the buffer (`Counted`), a locked buffer is
mapped, a writer is alone, and the cache is as the locks say. `HeldTheorem` and `CoherenceTheorem` follow.

`DrmPlanes`: every property of the planes the run checks. The invariant speaks of one
plane at a time, as two displays meet only in the planes. `DpInv` says which of the two caches agrees
with the kernel: that of the commits, or, between the call of the kernel and `PostCommit` of the one
display that has the plane or asks for it, that of what was tried (`Known`); what the round will make of
the plane (`Tried`); that the caches of a plane that is given up are empty (`GivenUp`); and that a
request sends nothing for planes of others (`Sent`). It is needed because `CacheIsTrue` alone does not
say that a value held back by a cache was one the kernel has *for this display*. `LutInv` relates the
state of a LUT, what is queued for it and the hardware, outside a round (`LutAtRest`) and in one
(`LutInRound`); until the first reset nothing is known of the LUTs and nothing is shown (`Fresh`). `NoteInv`, beside `DpInv`,
is about the notes of the FP16 conversions: where no test, refusal or session was (`unsent`), the note is
what the kernel has, or what the one display with a round in progress is about to send.

`ToneMapper`: `TmInv` says that every buffer but the one being written has the fence of the last frame
that showed it (`AllFenced`), that what a frame has blitted stays acquired until its commit
(`BlitsHeld`), and that the index of the framebuffer's session is in the pool (`FbInPool`). Sessions move
when one is erased, so the loop that closes them must keep all three for indices that shift; `PutAtDoes`
and `RemoveAtDoes` say what the operations on the pool do to them.

`LayerFrames`: unless the panel may show anything (`unsure`), a change it does not show is remembered in
a note that the next frame reads, and that no setter takes back before (`Remembered`). `SkipStep` and
`RefreshStep` derive both action properties from it.

`BufferLayout`: `PlanesTheorem` is for any width, height and rectangle inside. Each family of formats has
a lemma (`HalfInside`, `MmmInside`, `RgbInside`, ...) that the planes are `Inside` the size; they rest
on what alignment does (`AlignDoes`, `AlignGrows`): it yields the least multiple, so a smaller rectangle
has smaller planes, and aligning what is aligned already changes nothing, even from luma rows to chroma
rows and from pixels to blocks of metadata (`MmmAgain`, `SameBlocks`), which is why two functions that
start from different sizes agree.

`DrmResourcesProofs`: what is reserved at each step of a registration (`Has`), and that a BUSY connector
is lost or has one owner, a BUSY CRTC has one owner, and a BUSY encoder at least one (`Owned`). That an
encoder has one owner is false: two users can find the same one free.

`ResourcesTypes` is the type of all six components. Beyond the invariants it needs that a doubt is about a
plane that has a colour table, as only such a plane has one to send (`DoubtsLuts`); that no more
refreshes are queued than threads asked for and validations failed (`LfSizes`); and how large the pool
of the tone mapper grows (`TmSizes`): `Len(sessions) + 2 <= MaxSessions + tmNext` in the loop over the
layers, so that a frame that is given a new session for every layer exceeds the bound by those layers and
no more.

### Only model-checked

- Liveness, everywhere (`EveryCallReturns`, `EveryWaitReturns`, `AcceptedIsDelivered`, `PendingIsDone`,
  `Converges`, `PendingIsRestored`, `QueuesAreWorkedOff`): it depends on fairness, which the prover does
  not support, nor `ENABLED`.
- That the steps of `CommitWorker` satisfy the fairness of `FramePipeline` (`PipelineSpec`); its initial
  states and steps are proved.
- `NeverThrows`, `NoLockCycle` and the other definitions of section 4 are false and stay as they are.
- `MCHwcSession` has no theorems of its own; those of `HwcSessionProofs` are about its two specifications.

## 6. Not modelled

The map covers about a fourteenth of the implementation's lines. Most of the others have no control
a specification could say anything of: setting some hundreds of DRM properties from attributes of
layers, parsing capability blobs and property files, marshalling calls between AIDL, HIDL and binder,
dumping state, GL rendering, tables of formats and metadata, and pass-through calls of three layers
with the same name. A module about them would repeat them line by line.

- *Composition manager and resource manager.* The production strategy and resource manager are in an
  extension library. With it absent the default one cannot be reached: `Strategy::Start` leaves no
  attempt to make, and the indices of `resource_default.cpp:444-461` do not match those of `:331-357`.
- *DRM events* are a poll loop, one read and one call per event. *Fences* are wrappers of file
  descriptors held by `shared_ptr`. The *colour manager* calls closed libraries. The *configuration
  service* marshals parameters. *CoreImpl* is a table of displays. *CEC, lights, IQService, qdMetaData*
  are I/O and property tables.
- *Virtual and pluggable displays.* Their life is in `Hotplug`; their frames take the path of
  `SessionCommit` and `LayerFrames` with fewer cases.
- Within modelled components: the switch of a panel between command and video mode, demura,
  brightness (a deferred brightness is noted as lost in the source's own TODO), qsync and transfer times,
  the timeline of a configuration change, the trusted VM's own build, `Ringbuffer::resize`, what the
  GPU draws; in `BufferLayout` UBWC YUV, ASTC, depth and stencil, camera, tiled and blob formats, and
  overflow of dimensions; the refusal of a frame by `mmrm_restricted_` and the shutdown
  of `HWCSession` (`shutdown_pending_`); the restart of the composer process; a display destroyed while a call of
  another thread is between two sections or two reads (noted at the hazards).

Extension libraries, the kernel driver and the Android clients are external; only what the code here
assumes of them is used, and `PROJECT.json` marks those definitions.

## 7. Plan

1. The destruction of a display against calls in progress: `Hotplug` composed with `SessionCommit`.
2. The switch between command and video mode in `DisplayPower`, with `ActiveConfig`.
3. The pending power modes of a device with two built-in displays, when `HandlePendingPowerMode` treats
   them: `PendingHasSession` without `OneBuiltin`, and a run in place of `SecureSessionBuiltin`.
