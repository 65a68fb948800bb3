# Verification of the location and camera stacks of the msm8996-common device tree

This directory holds TLA+ modules that model the stateful, concurrent parts of
this device tree, the GNSS stack and the core of the camera stack, TLC configurations that check them on small instances, and
TLAPS proofs that hold for every value of their constants. It is written
against the sources of the repository: `PROJECT.json` maps every definition to
the lines it models.

- [Inventory](#inventory)
- [What is modelled](#what-is-modelled)
- [The runs](#the-runs)
- [Where the code disagrees with its comments](#where-the-code-disagrees-with-its-comments)
- [Fairness](#fairness)
- [The proofs](#the-proofs)
- [What is not modelled, and the plan](#what-is-not-modelled-and-the-plan)

## Inventory

The repository is an Android device tree. Its own logic is in two large parts,
the GNSS stack under `gps/` and the camera HAL under `camera/`, and a few small
services. The rest is configuration data.

### The GNSS stack

Everything above the modem meets in one object, `GnssAdapter`. Its public
operations only post a message; the handlers run one at a time on the adapter's
`MsgTask` thread. What makes it hard is what does *not* run there: threads that
are spawned for one request, the thread of the timers, the thread the modem's
answers come from.

| component | state | operations | what makes it hard | correct when |
|---|---|---|---|---|
| AGPS connection manager (`gnss/Agps.*`) | three state machines with lists of subscribers, the retry count, the DS client | `requestATL`, `releaseATL`, reports of the framework and of the DS client, `retryCallback` | answers that come after the request was withdrawn; a retry timer nobody cancels; fallback from one machine to another | no request is forgotten, no machine waits for an answer nobody owes |
| Network-initiated requests (`gnss/GnssAdapter.cpp`) | two sessions, each with its lock, a counter | `requestNiNotify`, `gnssNiResponseCommand`, `niThreadProc` | one thread per request that waits or times out; fields touched without the lock | a thread answers for its own request, the session is freed, the user's answer counts |
| Tracking sessions (`gnss/GnssAdapter.cpp`) | sessions by client and id, the registered clients | start, update, stop, removal of a client, engine restart | many sessions on one fix; calls that fail; an engine that restarts | the engine runs at the smallest live interval |
| On-demand position injection (`gnss/GnssAdapter.cpp`) | request, active flag, timer flag | start and stop by the modem, timer expiry, engine restart | the timer expires on its own thread while it is being restarted | the timer flag is never set without a timer to come |
| Power vote and configuration (`gnss/GnssAdapter.cpp`) | power vote id, configuration | `enable`, `disable`, `gnssUpdateConfig` | as for tracking | the modem's settings follow after a restart |
| Reports, NMEA (`gnss/GnssAdapter.cpp`, `utils/loc_nmea.*`) | last time stamp | conversions and callbacks | – | – |
| Timer service (`utils/LocTimer.*`) | heap of delegates, one timerfd, the poll set | `start`, `stop`, expiry | three kinds of threads; the fd is armed and disarmed from two of them with no lock | no wake-up is lost, no deleted delegate is reached |
| Heap (`utils/LocHeap.*`) | a tree balanced by subtree sizes | push, pop, remove | recursive swaps | top ranks highest, sizes right |
| Message queue and threads (`utils/msg_q.c`, `MsgTask`, `LocThread`) | a linked list, a lock, a condition | send, receive, flush, unblock, destroy | unblocking and destroying while a receiver waits | no message lost, the thread ends |
| Location API (`location/*`) | clients, pending requests, session maps | the client API and its responses | requests answered on another thread, several maps that must agree | every request is answered once |
| Contexts and adapters (`core/LocApiBase`, `ContextBase`, `LocAdapterBase`) | registered adapters and event masks | registration, fan-out of the modem's reports | registration during fan-out | – |
| System status observer (`core/SystemStatusOsObserver.*`) | subscriptions, cache of data items | subscribe, unsubscribe, notify | cached items given to new subscribers | each gets what it asked for |
| System status store (`core/SystemStatus.*`) | bounded histories | set, get | one lock | – |
| HIDL services (`android/*`), sockets, configuration files, logging | – | conversions, parsing | – | – |

### The camera HAL

A camera is a stack of queues. The framework calls the HAL one call at a time;
the HAL's state machine turns calls and the camera daemon's events into
operations on channels; a channel bundles streams; a stream passes buffers
between the driver and their users; pictures go to the JPEG encoders. Every
layer has threads of its own and waits for those below it.

| component | state | operations | what makes it hard | correct when |
|---|---|---|---|---|
| State machine (`QCamera2/HAL/QCameraStateMachine.*`, the calls of `QCamera2HWI.cpp`) | eight states, two queues, the list of results | all API calls and events, as a table | calls that wait for a result, some until an event of the daemon; operations that fail half-way; events that belong to an earlier picture | every call returns, the state tells which channels run |
| Streams (`stack/mm-camera-interface/src/mm_camera_stream.c`, `mm_camera_thread.c`) | state, reference count and place of each buffer, the poll entry | the calls of the channel, frames, returned buffers | a buffer shared by several users on several threads; the poll entry follows a counter | a buffer is with the driver or with users, never both; none gets lost |
| Channels (`stack/mm-camera-interface/src/mm_camera_channel.c`) | queue of super buffers, requests, modes | frames, requests, flush, bracketing, stop | frames of several streams out of step, missing, or late; a flush somebody waits for | requests are served in order, no buffer stays behind |
| JPEG interface (`stack/mm-jpeg-interface/src/mm_jpeg.c`) | sessions, encoders, queues of jobs | create, start, abort, destroy, the encoders' callbacks | aborts while a job is being started or has just ended; one encoder taken down for another | every job ends, no client hears of it afterwards |
| Hardware interfaces, parameters, post-processing (`HAL`, `HAL3`) | parameters, streams, jobs | the camera API | worker threads with queues of their own, flush and abort | – |
| Queue and command thread (`util`) | a queue under a lock, a semaphore | enqueue, flush, exit | ownership of nodes during a flush | – |

### The small services

Doze and pocket mode register sensor listeners on screen broadcasts, the lights
HAL ranks three states, the key disabler and the configuration panel write
files of the kernel, `init` sets properties once.

## What is modelled

In every module a variable has the name of the field it stands for and an
action that of the handler; one action is one handler, cut only where another
thread can come in between. An operator whose name ends in `_something` is a
faulty variant of the definition after it: it is not part of the model and
exists to show that a property notices that fault.

### `Agps` – the AGPS connection manager

The state machines of `AGNSS`, `INTERNET` and `DS` are functions of their name:
`state`, and `list`, which keeps the set of subscribers, their order, and which
are inactive or wait for the close. The events of `AgpsStateMachine` are
`Subscribe`, `Unsubscribe`, `Granted`, `Released` and `Denied`, each guarded by
the state as in the `switch` of the code; `requestOrReleaseDataConn` is
`RequestDataConn` and `ReleaseDataConn`, with the overrides of `DSStateMachine`
(call started, busy, unsupported, failed; retry; fallback to SUPL).

The environment is the modem (`ModemRequest`, `ModemRelease`, whose view of a
handle is `atl`) and, for each machine, the provider of its connection. It
serves the commands it got in order and as late as it likes (`cmds`), and
may report a loss at any time. The modem uses a handle for one request at a
time, and does not release it again while its first release waits to be handled;
the manager relies on that, since the answer to a release names only the
handle. `retryCallback` runs on the timer's thread and
is two steps: read a subscriber, post the message.

Left out: the name and the bearer of a connection, which are only passed on;
`handleModemSSR`, which nothing in the repository calls. `deleteSubscriber`
compares with a subscriber it has just freed when it deletes the current one;
the model takes its value to be unchanged until the loop ends.

### `GnssNi` – network-initiated requests

`ni` holds the two sessions; a request is named by its `reqIDCounter`. The
steps of the MsgTask thread are `SaveRequest` and `SpawnThread`
(`requestNiNotify`), `Respond`, `IgnoreOther` and `Deliver`
(`gnssNiResponseCommand`, which chooses the session before it takes its lock)
and `InformModem`. The steps of the thread of request `r` are `StartWait`,
`WakeUp`, `TimeOut` and `ResetId`, the last one after the unlock, as in the
code. The timeout may win against an answer that has come. Durations are left
out: a thread may time out whenever it waits.

### `GnssTracking` – tracking sessions

`sessions` is `mTrackingSessions`; `engine` is the fix the modem runs, or
`Off`. Each of the three `...TrackingMultiplex` operators is the function of
that name; every call into the engine may fail. `RemoveClient` begins the loop
of `stopClientSessions` whose turns are `StopNextSession`, so that the engine
can go down between two of its calls. `EngineUp` posts the message that
`RestartSessions` handles.

The adapter is modelled without a ULP library, as it runs when the proxy
`UlpProxyBase` of the repository is in place. Options are an interval and a mode that stands for
all the rest. `failed` is a history variable: it says whether a call has failed
since the engine came up.

### `LocTimer` – the timer service

A delegate is a number, in the order of their creation. `mTimer` gives a timer
its delegate; a delegate's `mClient` is the timer that has it. The heap is a
set with a `top`, since only the top is looked at and a new delegate never
displaces an equal one; which of several equals gets to the top after a pop is
left open. `queue` is the queue of the MsgTask.

The poll thread's steps are its system calls: `WakeUp` (`epoll_wait`),
`Disarm` (`timerfd_settime`), `RemovePoll` (`epoll_ctl`) and `SendExpire`.
MsgTask's steps are `HandlePush`, `HandleRemove`, `HandleExpire` and the loop of
the latter: `pop` reads the client without a lock, `StopAndCallBack` stops it
and calls back, `PopNext` and `EndExpire` go on. `updateSoonestTime` adds the
poll first and arms the fd in the step `SetTime`.

One container is modelled; the other one shares the two threads only.
`LocTimer` objects are not destroyed in the model.

### `GnssOdcpi` – on-demand position injection

The handlers are actions under their names. The timer is seen as
`LocTimer` behaves towards one client: it runs or not (`running`), and its
expiry is the three steps of `LocTimerDelegate::expire` and the callback
(`expiry`): the client has been read, the timer has been stopped, the message
has been sent. `asked` and `parity` record what the framework was asked.

### `QCameraStateMachine` – the state machine of the first camera HAL

`m_state`, `api_queue` and `evt_queue` are the fields of that name, `results`
is `m_apiResultList` of the hardware interface, `fw` the framework's call that
waits for its result. `HandleAPI` and `HandleEvt` are the thread that takes the
API queue first; each takes an event and handles it in the table of the current
state, one operator per state (`procEvtPreviewingState`, ...) and one per row
that does much (`PreviewingTakePicture`, ...). A row runs to its end: it prepares, starts and
stops `channels`, any of which may fail, and answers. `Call` and
`waitAPIResult` are the two halves of a call; the four calls that
`set_parameters` is made of follow each other. The daemon answers
(`PrepareDone`, `ReadyForSnapshot`) or dies (`Die`), once; the notifier counts
pictures and ends one with an event it waits for, holding `m_evtLock`
(`SnapshotsCounted`, `SnapshotDone`); the post-processor stops the capture
channel and may restart the preview.

`overtaken` marks a picture that was ended by the `SNAPSHOT_DONE` of another:
such an event was counted before a cancel, or sent for `LONGSHOT_OFF`. A
`TAKE_PICTURE` or `PREPARE_SNAPSHOT` that waits for the daemon in retroactive
mode then hangs: the model keeps the step, and the properties are about the
other pictures.

Left out: pairs of cameras (muxer, related sensors), manual capture with three
stages or more, RAW pictures, the snapshot channel of live pictures, message
types, thermal, JPEG and internal metadata events, the thread that takes
backend pictures (its calls are part of the row that starts it), and the end
of the machine's thread.

### `MmStream` and `BufferLoan` – a stream and its buffers

A stream goes through `INITED` ... `ACTIVE` by the calls of its channel
(`Acquire`, `SetFmt`, `GetBuf`, `RegBuf`, `Start`, `Stop`, `UnregBuf`,
`PutBuf`, `Release`), the steps of which are cut where they wait: for the
mapping, for the poll thread, for the callback thread. `refcnt`, `in_kernel`,
`queued_buffer_count` and `map_status` are the fields; `entry` says whether the
stream is in the poll thread's `poll_entries`, `polled` whether that thread
polls for it, and `pipe` holds what it has not noticed. The poll thread takes
a frame in steps, `ReadFrame`, `CountUsers`, `NotifyChannel`, `NotifyLinked`,
`EnqueueAppData`; the callback thread in `TakeAppData`, `DispatchAppData`,
`EndAppData`; a user gives a buffer back with `BufDone`, which queues it
(`QueueBuffer`, `MarkInKernel`) if it was the last.

`BufferLoan` is what this is for: a buffer is with the driver or on loan to
users, users pass it on, and the buffer all have returned gets to the driver in
the end as long as the stream is on, or is reported lost. `ImplementsLoan` says that
`MmStream` implements it, liveness included, with `driver` and `users` read off
the places a buffer is in and not off the counts.

Left out: batches of user buffers, callbacks registered later or for a number
of frames, parameters, the start of the poll thread. That the channel frees
buffers only after every user has returned them is taken from
`mm_camera.c:525`.

### `MmChannel` – the matching of frames

`cmds` is the queue of the command thread, `supers` that of the callback
thread, `ch` everything the command thread alone touches: the queue of super
buffers (`nodes`, with the matched ones first and the rest in order),
`match_cnt`, `pending`, the modes. One command of the command thread is one
action, `HandleCommand`, with everything it makes the thread do: match a frame
(`CompAndEnqueue`), serve requests, drop surplus nodes, apply metadata, and switch
the daemon's snapshot mode. `Ask` is the client, `StreamFrame` a poll thread, `DispatchSuperBuf` the callback thread, `QBuf`
the return of a buffer, `Stop` and the actions after it a stop: the streams first, then
a flush that is waited for, then the end of both threads.

Left out: the low priority of the matching, captures configured frame by frame,
zoom and flash bracketing, a second camera (frame synchronisation), the first
frame of the instant capture.

### `MmJpeg` – the JPEG interface

`session` and `omx` hold what a session and its encoder are in; `job_queue`,
`ongoing_job_q`, `job_sem` and `p_session_inprogress` are the fields. There are
three kinds of actors. The manager's thread (`TakePost`, `ReadOngoing`,
`TakeJob`, then the state changes of the two encoders one by one, `JobParams`,
`Feed`); the clients, whose calls `g_intf_lock` lets in one at a time, so that
`task["api"]` is the call that runs; and the encoders, which complete the state
they are told to take, finish a frame, or fail. `mm_jpegenc_job_done` is two
steps, since it lets the manager go before it returns the session's handle.
Jobs are numbered in the order in which they are started, so the FIFO queues are
sets: the head is the lowest job (`First`), also after a busy one was put back at
the head, and the order of the ongoing queue is never read.

The encoder is external and modelled by the OMX standard: it hands its buffers
back before it reaches Idle, fails only while it encodes, and accepts a
command. The clients are the HAL's (`QCameraPostProc.cpp:2884`): who stops
aborts its jobs, destroys its session, and closes last.

Left out: bursts that share one session among several encoders, the rotation by
the 2D library, output buffers the interface allocates, callbacks of memory
events, a close with sessions left, the decoder.

### MC modules

Each `MC` module extends the module after its name for TLC. `MCAgps` adds the
symmetry of the handles, used in runs without liveness only; `MCMmStream` and
`MCMmChannel` name the uses of a stream and the commands of a client.

## The runs

The runs of the camera take up to three minutes with two workers, the others
less than one or two.

| run | cfg | states | what it shows |
|---|---|---|---|
| `agps_framework` | `MCAgps_framework` | 68 thousand | without the emergency PDN: a granted handle has a live connection (`GrantIsServed`), a request without an answer waits as a message or as an active subscriber of a machine that will be answered (`AskedIsTracked`), and every request is answered or withdrawn (`RequestIsAnswered`) |
| `agps_emergency` | `MCAgps_emergency` | 3 million | with the DS machine, its retries and its fallback: no machine closes and no framework machine is pending without a command to be answered (`WaitsForAnAnswer`), states agree with lists (`ListMatchesState`), and a subscriber leaves the DS machine only with a notice or a new request (`LeavesWithANotice`) |
| `tracking` | `MCGnssTracking` | 91 thousand | the engine runs at the smallest live interval, whatever fails (`EngineRunsFastest`); live sessions have a fix or a restart on its way (`EngineServes`); no command takes the fix from the sessions that remain (`OthersKeepTheFix`); sessions resume after a restart (`SessionsResume`) |
| `ni` | `MCGnssNi` | 457 thousand | a waiting thread has its own request (`OwnRequest`); of two pending requests the emergency one is the later (`EsExcludesNew`); each thread frees its session and the modem is told (`SessionEnds`) |
| `timer` | `MCLocTimer` | 192 thousand | a deleted delegate cannot be reached (`DeletedIsUnreachable`), a running timer is not lost (`RunningIsTracked`), no wake-up is lost (`WakeUpIsComing`), each delegate is deleted in the end (`DelegateEnds`) |
| `odcpi` | `MCGnssOdcpi` | 207 | the active flag of the timer has a timer behind it (`ActiveTimerExpires`), an emergency is never merged into another session (`EmergencyIsAsked`), the framework is asked again while a session is active (`ActiveIsAskedAgain`) |
| `camera_api` | `MCQCameraStateMachine` | 981 thousand | a stopped machine holds no preview, a recording one a running video channel, whatever failed (`ChannelsFollowState`); PREVIEWING means that frames flow (`PreviewIsRunning`); a call that waits is in a queue, answered, or owed an event (`WaiterIsOwed`); every call returns (`CallsReturn`) and the notifier is let go (`SyncEventReturns`), also when the daemon dies |
| `camera_stream` | `MCMmStream` | 803 thousand | the reference count is the number of those who will return the buffer (`RefcntIsUsers`); a stream with queued buffers is polled (`PollFollowsCount`); a stop finds the poll thread out of the stream (`PollerIsOut`); the stream implements `BufferLoan` (`ImplementsLoan`) |
| `camera_channel` | `MCMmChannel` | 2.5 million | no matched super buffer waits while some are asked for (`RequestIsServed`); the queue keeps its bounds and its count (`QueueIsBounded`); each buffer is in one place until it is back (`BuffersAccounted`); the snapshot mode ends with the pictures (`ZslEnds`); super buffers go out in order and once (`SentInOrder`) |
| `camera_jpeg` | `MCMmJpeg` | 624 thousand | a running job belongs to the session in progress, the only one that encodes (`RunningIsKnown`); a session's handle is in one place (`HandleAccounted`); one callback for a job and none after its abort (`QuietAfterEnd`); every job ends (`JobEnds`); the last close returns (`ManagerLeaves`) |

The bounds, and why they are enough:

- *Agps*: two handles are enough for one that leaves and one that stays or
  comes late, which is what the lists and the shared connection are about. Three commands per provider allow a request, a release and a
  new request in flight together, where late answers are confused; two queued
  messages and one timer allow a retry to meet a new request. Without the
  emergency PDN three messages are queued, so that a handle can have a release,
  a new request and a wish to release that too.
- *GnssTracking*: two clients and three ids allow a client with two sessions
  beside another; three intervals allow smaller, equal and larger neighbours;
  two restarts can be queued.
- *GnssNi*: three requests on two sessions let a session be taken again while the
  thread of its last request still runs; one answer per notification, since a
  second one finds the session changed or not just as the first.
- *LocTimer*: two timers and three delegates let a timer be started again while
  its old delegate is popped, queued for removal or expired; the clock runs to
  3, with delays of 1 and 2.
- *GnssOdcpi*: everything is finite but the number of expiry messages that
  wait, of which two are allowed.
- *QCameraStateMachine*: five calls, the four steps of `set_parameters` counted
  each, are enough to start a preview, take a picture or a video with it,
  cancel it and begin another, which is how far back a late event or a result
  nobody fetched can reach; one operation fails, or the daemon dies and all that
  follow fail.
- *MmStream*: two buffers let one be in use while the other is queued, and the
  count of queued buffers go to zero and back; three configurations have each
  kind of user; one failure can hit every call.
- *MmChannel*: two streams and four frames, any of which may be missing or
  late, with a water mark of 2, a look-back of 1 and one unmatched node
  allowed: both surplus loops drop nodes. Two commands meet in each order, among
  them the stop of the channel; it is started once, and one command waits
  besides the streams' frames. Three buffers of each stream let a stream run
  out of them.
  `MM_CAMERA_MAX_FUTURE_FRAME_WAIT`, how many frames the matching skips while it
  waits for the good frame of a bracketing or a flash, is 2 here, not 100, so
  that the wait can both be met and run out.
- *MmJpeg*: two sessions with one encoder running at a time, as on this device
  (`MM_JPEG_CONCURRENT_SESSIONS_COUNT`), two jobs in one or two sessions, a
  third session in a slot used before, one failure and one encoder error.

Deadlock is not checked in `agps_emergency` (the bound on commands can stop
the environment), `ni` and `ni_stale` (the modem and the user may stop after
their last request and answer), `timer` (clients may stop for good),
`camera_api` (the framework stops after its last call; an overtaken picture
hangs), `camera_channel` (frames, commands and starts end) and `camera_jpeg`
(the last client closes). Where a component must go on there, a liveness
property says so, or in `MmChannel` the invariants `RequestIsServed` and
`BuffersAccounted`.

## Where the code disagrees with its comments

These runs check one property each, which a comment of the source states and
the code does not keep; TLC shows the steps.

| run | property | what happens |
|---|---|---|
| `agps_idle_connection` | `NoIdleConnection` | Request, release, request: the first answer is taken for the second, and the connection stays up without a subscriber. |
| `ni_stale` | `UserDecides` | An answer is signalled to a session whose thread has just timed out; the next request takes the answer for its own. |

Some more were met and are not in a run. They are in the notes of the hazards
in `PROJECT.json`.

In the GNSS stack:

- A subscriber that arrives while the DS machine closes makes it PENDING when
  the close completes, and the result of the new call request is ignored: if
  the call could not be started the machine is PENDING with nothing
  outstanding, against the comment at `Agps.cpp:83`.
- A denial drops the inactive subscribers, too; they were waiting for a close
  and are told of a failed open.
- The DS machine is RELEASED with subscribers in its list while it waits for
  its retry timer, against the comment at `Agps.cpp:208`; that timer is not
  cancelled and can find no active subscriber, against `Agps.cpp:563`.
- `niThreadProc` resets `reqID` after it has unlocked, and may reset that of
  the request that came next, whose answer is then refused. An answer to a session that was
  set to IGNORE overwrites the IGNORE.
- An expiry message that waits behind the removal of the expired delegate makes
  MsgTask pop the next one, whose time has not come: the handler pops first and
  looks at the time later. A timer restarted between the read of the client and
  its stop is called back at once.
- With two sessions at the same interval the engine can run with the other
  options of a session that is gone.

In the camera stack:

- `SNAPSHOT_DONE` is not tied to a picture; see `overtaken` above.
- `preStartRecording`, `preTakePicture`, a failed commit of parameters and
  `LONGSHOT_ON` leave PREVIEWING without a preview when a step of them fails,
  which is why `PreviewIsRunning` is about runs without failures.
- A stop of a stream with no buffer queued does not wait for the poll thread,
  and a buffer returned during it adds the poll entry again. `PollerIsOut` is
  therefore about stops while buffers are queued.
- The wait for the mapping ends with a failed mapping, too, and the stream is
  switched on with a buffer the daemon does not know (`mm_camera_stream.c:1162`).
- The reference of a linked channel is counted after the other users have the
  buffer; only the callback's reference, counted before, makes that safe.
- The stop of a channel keeps `pending_cnt`, the snapshot mode and the
  bracketing for the next start.
- A flash burst is ended by the first metadata that says the LED is off, which
  may come before its frames.
- An aborted JPEG session never gets its handle back, and the abort does not
  post `job_sem`: the jobs of others wait until the session is destroyed, which
  the HAL does next.
- A failed `OMX_Init` is reported as success (`mm_jpeg.c:2373`); a session whose
  creation fails keeps its slot.

## Fairness

Weak fairness stands for a thread that goes on running, and is asked of
threads of this code and of providers that answer, never of clients, the modem
or the user.

- *Agps*: the MsgTask thread handles its messages, a posted retry is sent, and
  each provider serves its commands in the end: that it answers is a
  precondition of `RequestIsAnswered`, since the manager has no timeout of its
  own.
- *GnssTracking*: MsgTask goes on with a removal. Strong fairness of
  `RestartSessions`: the messages are a FIFO queue, so a restart message that
  is enabled between other commands is handled in the end.
- *GnssNi*: the MsgTask thread and each spawned thread go on; a thread that
  waits times out in the end, so nothing is asked of the user.
- *LocTimer*: the clock, the poll thread and MsgTask go on.
- *GnssOdcpi*: a running timer expires and its message is handled; that it does
  is what `DelegateEnds` and `RunningIsTracked` of `LocTimer` say.
- *QCameraStateMachine*: the machine's thread handles its events, a caller that
  was woken looks for its result, the notifier goes on, and a daemon that lives
  answers: the HAL has no timeout, and a daemon that dies is reported.
- *MmStream*: each thread of the stack goes on, and so does the call that
  queues a buffer. Neither the driver nor the users owe anything: that a buffer
  goes back is promised for those that all users have returned.
- *MmChannel*: none; what a command must have done is an invariant between
  commands.
- *MmJpeg*: the manager, the call that runs and the encoders go on, and a
  client that stops destroys its session, as the HAL's clients do.

## The proofs

Each proof module extends its component, or the two of `GnssAdapter`, and holds only lemmas, theorems and the
operators their statements need. Every invariant proved follows from an inductive
one, `IInv`: it holds initially, each step keeps it, and `THEOREM Invariance ==
Spec => []IInv` combines both. The step lemma has one part per action. The
assumptions are the named `ASSUME`s on the constants, and TLC evaluates those in
every run. The larger ones, `IInv` of `QCameraStateMachine`, `MmStream`, `MmJpeg` and `MmChannel`, were checked
with TLC on instances of the size of their runs (`QCameraStateMachine`: four calls) before they were proved.

- **`AgpsProofs`**: `TypeCorrect`, `AlwaysWaitsForAnAnswer`,
  `ListAlwaysMatchesState` and the action property `AlwaysLeavesWithANotice`,
  for any set of handles and all limits; and, without the emergency PDN,
  `GrantIsAlwaysServed` and `AskedIsAlwaysTracked`. `IInv` adds
  that each list is well formed (an inactive handle is a subscriber that waits for the close):
  without it a deletion could leave an inactive handle that is no subscriber,
  and the state after an event could not be told from the list. The
  argument: each event of a machine is *handled*, that is it changes only its
  own machine, gives a list that matches its new state, and gets to RELEASING
  or PENDING only with a command appended to the provider's
  (`SubscribeFacts`, `UnsubscribeFacts`, ... one lemma per event); a report
  takes the first command off and leaves the state that waited for it.
  The two about the modem need `HInv`, which relates the queue, the lists and
  the modem's view of each handle: at most one request and one release of it
  wait; if a request waits, no machine has the handle, and it is closing just
  if a release stands behind (`Mail`); a subscriber is one of a single machine,
  is not idle for the modem, and is closing if its release waits or if it is
  inactive (`Member`); what the modem was granted or waits for is held
  (`Promised`). A machine that handles an event only moves its own subscribers
  (`Turns`), and one lemma says what follows for the others (`TurnKeeps`). With the
  emergency PDN both are false, as TLC shows: a request can wait for the retry
  timer alone, with the DS machine RELEASED, and a subscriber handed to the
  SUPL machine can stay in the list of the DS machine as well, which may later
  grant its handle a request that was meant for the SUPL machine.
  `AlwaysLeavesWithANotice` needs that the list is finite and no subscriber
  stands before itself: then the traversal of the list reaches every subscriber
  (`TraversalReachesAll`), so that the denial of an emergency call posts a
  request for each.
- **`GnssTrackingProofs`**: `TypeCorrect`, `AlwaysRunsFastest`,
  `AlwaysEngineServes` and the action property `OthersAlwaysKeepTheFix`, for any
  clients, intervals and bounds. `IInv` adds that an engine that is down runs
  no fix; otherwise a session could start or stop while it is down and leave a
  stale fix behind. The lemmas follow the three multiplexing functions and
  rest on `FastestBound`: what the search over the map returns bounds the rest.
  `Serves` says of a step what the other two need, of a state and of a step: a
  call that asks for a fix gets one or is excused, and a step that makes no call
  leaves no session without.
- **`GnssAdapterProofs`**, about `GnssNi` and `GnssOdcpi`, two parts of the same
  object. `AlwaysOwnRequest` and `AlwaysEsExcludesNew`, for any
  number of requests. `IInv` adds `Counted` (only requests that have been
  counted have a session or a thread, or are in a session) and `SpawnsOwn` (between saving a request and
  spawning its thread the session is that request's). Two waiting threads then
  have two sessions, so the one that finishes disturbs nobody.
  `AlwaysActiveTimerExpires` and
  `AlwaysEmergencyIsAsked`, for any number of waiting messages. The two are
  inductive with the types: whatever removes the last trace of an expiry
  (`odcpiTimerExpire`) starts the timer again or resets its flag.
- **`LocTimerProofs`**: `TypeCorrect`, `AlwaysWakeUpIsComing`,
  `DeletedIsAlwaysUnreachable` and `RunningIsAlwaysTracked`, for any
  timers, delays and bounds. `IInv` adds `NamesCreated` (messages and running
  timers name delegates that exist, so the top of the heap has a due time) and
  `ArmedWhenSet`: between adding the poll and arming the timerfd the poll is in
  place, or the poll thread has removed it and its message is still to come.
  That is what makes the race between the two threads harmless: the poll thread
  sends its message after it has disarmed and removed the poll, and the handler
  of that message does both again. `Life` is the invariant of the other two, kept
  together with `RunningIsTracked`: of the messages that name a delegate the push comes
  before the removal (`Ordered`), a delegate belongs to one timer and its removal is
  asked for only when it has lost it (`OneOwner`), and what is in the heap will not be pushed
  again (`PushedOnce`). So the removal is the last message that names a
  delegate, and nobody is left who could reach it.
- **`QCameraStateMachineProofs`**: `TypeCorrect`,
  `AlwaysChannelsFollowState`, `AlwaysPreviewIsRunning` and
  `AlwaysWaiterIsOwed`, for any number of calls and failures, and whether or not
  the preview is restarted early. The tables come first: `Row` says what a row
  of any of the eight states may do to the channels, the settings, the list of
  results and the state, given what holds before it (`RowPre`); one lemma per
  state, on one per row that does much, ends in `StateMachineRow`. `EventRow` is
  the same for the event queue. The rest of the proof knows the machine
  by these only. `IInv` has a part for each thing that must agree:
  - `Mail`: the event of the call is in the queue or its answer in the list,
    once, and only events of threads that do not wait are there besides. `CANCEL_PICTURE` is
    excepted, which is posted too, and so are `PREPARE_SNAPSHOT` and `TAKE_PICTURE`
    once the daemon's death was handled, since it answers both even if nobody
    asked (`Known`).
  - `ChannelsInv`: how the channels follow the state, with the phase between
    the stop and the restart of `set_parameters` (`Between`) read off the
    call, its answer and the queue. A failed stop or commit must not be taken for a
    phase in which the preview may be down; that is why it counts the failures.
  - `DaemonInv`: the daemon owes and sends an answer only to the call
    that waits for it, and the machine is in PREPARE_SNAPSHOT only for that
    call.
  - `TakeInv`, `FlashInv`, `FreshInv`, `PictureInv`: a picture in whose state a call
    waits lasts until the daemon's answer. For a picture with frames from the past
    no `SNAPSHOT_DONE` and no cancel can come before `READY_FOR_SNAPSHOT`, nor
    before `PREP_SNAPSHOT_DONE` (`Ahead`), unless the picture was overtaken.
  - `WaiterInv`: what `WaiterIsOwed` says, with a call that waits for the daemon
    named as such.
- **`MmStreamProofs`**: `AlwaysRefcntIsUsers`, `AlwaysPollFollowsCount`,
  `AlwaysPollerIsOut` and `StreamRefinesLoan`, for any number of buffers and
  failures and any set of configurations in which a linked stream has a callback
  (`LinkedAssumption`; the HAL links no others, `QCamera2HWI.cpp:5516`). `IInv` adds
  where things are: what is settled in each state of the stream (`Phases`: a
  stream that is not active has no callback thread and no frame at the driver,
  a fresh one has nothing anywhere), that a buffer the driver has, one to be
  queued again and one that was lost are nobody's (`Places`), and that the hand-over is in
  order (`HandOver`: the poll thread gives a frame to the channel, the linked
  stream and the client's queue in this order, so nobody has what is still to
  be handed to him). With these a step moves one reference, and `Counted`
  compares the counts with the places one reference at a time. `Polling` ties
  the count of queued buffers to the set of those queued or about to be, except while a failed call has lost one, and
  says when the poll thread may not have noticed a change of its entries.
  `StreamRefinesLoan` is the safety part of `ImplementsLoan`: the initial state
  maps to one of `BufferLoan`, and each step to one of its actions or to a
  stutter (`Loan...` lemmas, one per kind of move).
- **`MmJpegProofs`**: `AlwaysRunningIsKnown`, `AlwaysHandleAccounted` and
  `AlwaysQuietAfterEnd`, for any number of sessions, jobs, failures and encoder
  errors. None of the three is inductive alone, since a session is seen by the
  manager's thread, a client's call and its encoder at once. `IInv` says for each of
  them where it is and what it may rely on: `Calls` who has the lock of the jobs
  and with which session and job; `Progress` that the session in progress is the
  configured one; `Encoders` that every other encoder is Loaded and idle, except
  the one that is being set or unset, and that an error is an error of the
  session in progress; `Changes` how far a change of an encoder's state has
  come between the command, the wait and the completion, also when an error
  ends the wait; `Running` that a job at an encoder is current, owned and in the
  ongoing queue until an abort has taken it out. `Handles` then says that the handle is
  with the session, the manager, the encoder or the thread that finishes a
  job, or that an abort has taken it, `Aborts` what an abort in its three steps
  may find, and `Answers` which jobs may still be answered: those that wait,
  the one the manager holds, and the one at an encoder that is not aborted. The
  proof has, for each step, a lemma on what it assigns field by field
  (`Sets...`), and then one lemma per conjunct it can disturb.
- **`MmChannelProofs`**: `AlwaysQueueIsBounded`, `AlwaysRequestIsServed`,
  `AlwaysZslEnds`, `AlwaysBuffersAccounted` and the action property
  `AlwaysSentInOrder`, for any number of streams, buffers and frames, any
  attributes of the queue and any metadata. `CommandsAssumption` gives the
  commands of the client their shape. `IInv` says what the queue is
  between two commands (`Channel`): its frames ascend, the matched nodes come
  first and are as many as `match_cnt` says, none is empty, and the unmatched
  ones keep their limit. Without this the oldest node need not be the one that is
  sent, and the loop over the surplus would not find it at the head.
  `InOrder` follows a frame along its way: a buffer in the command queue is
  newer than any of its stream in a node, which is newer than any super buffer
  that waits for the callback thread. So a match cannot concern a frame whose
  older nodes are still to come, and what it discards is older. `Accounted`
  says that what is out is somewhere; that it is in one place only follows from
  the order. `Stopped` says what is over with each step of a stop, so that
  the end of both threads finds nothing left to lose. The lemmas go through one
  command in the order of the code: each part of the handler keeps the order of the queue and tells
  which buffers it gives back (`...Does`); a discard in the middle of the
  queue is a cut (`CutOut`) and a new node a splice. The steps of the threads
  then need only these.

Only model-checked: all liveness properties, since fairness and ENABLED are out
of the prover's reach, and with them the liveness half of `ImplementsLoan`. Every
invariant and every action property of a passing run is a theorem.

## What is not modelled, and the plan

`PROJECT.json` lists every component with its reason. Conversions, parsing and
forwarding are left aside, as are the closed libraries behind them. By lines
that is most of the repository: parameters, formats, metadata tables and the
dispatch of the camera HALs, and the converters of the HIDL services, have
little state that two steps could disagree about. The camera modules model the
layers below them, where the threads meet.

The modules to come, most important first:

1. An abstract timer (running, expiring, called back) that
   `LocTimer` implements and `GnssOdcpi` and `Agps` use.
2. **`MsgQ`**: `msg_q.c` with a sender, a receiver, flush and unblock, and
   `LocThread` with its shared ownership; **`CmdThread`** for
   `QCameraCmdThread` and `QCameraQueue`; an abstract FIFO they implement.
3. **`LocationClient`**: `LocationAPI` and `LocationAPIClientBase` on top of
   `GnssTracking`: requests answered once, ids mapped both ways.
4. **`PostProc`**: the queues of the post-processor between `MmChannel` and
   `MmJpeg`, with its stop; then the list of pending requests of HAL 3.
5. **`PowerVote`**: enable and disable with the power vote, over the engine of
   `GnssTracking`.
6. **`MmFrameLayout`**: the plane offsets of `mm_stream_calc_offset_*` as
   functions of format and size, with their alignment and width.
7. **`LocHeap`** as a recursive function on trees, compared with a set of
   ranked elements; **`Doze`**, **`PocketMode`** and **`Light`** as small
   modules.

Theorems worth proving there: that the queues implement the FIFO, and that a
client's ids map to one session each.
