------------------------------ MODULE MmStream ------------------------------
(***************************************************************************)
(* A stream of the camera stack interface                                  *)
(* (stack/mm-camera-interface/src/mm_camera_stream.c) with the thread that *)
(* polls its device (mm_camera_thread.c).                                  *)
(*                                                                         *)
(* The channel takes the stream through its states.  While it is ACTIVE    *)
(* the driver fills buffers; the poll thread takes each one, counts its    *)
(* users in buf_refcnt and hands it to them: to the channel's queue of     *)
(* super buffers, to a second channel the stream is linked to, and to a    *)
(* thread of the stream that calls the client back.  Each of them returns  *)
(* it with mm_stream_buf_done, and the one that takes the count to zero    *)
(* queues the buffer at the driver again.  The device is polled only while *)
(* queued_buffer_count is not zero: entries of the poll thread are added   *)
(* and removed from any thread, with or without waiting until the poll     *)
(* thread has taken notice.                                                *)
(***************************************************************************)
EXTENDS Integers, Sequences, FiniteSets

CONSTANTS
  NumBufs,      \* buf_num
  Configs,      \* uses of a stream: [bundled, linked, cb |-> BOOLEAN]
  MaxFailures   \* bound: operations of the driver or the daemon that fail

ASSUME ConstantsAssumption ==
  /\ NumBufs \in Nat \ {0} /\ MaxFailures \in Nat
  /\ Configs \subseteq [bundled : BOOLEAN, linked : BOOLEAN, cb : BOOLEAN]

\* The HAL links metadata and preview streams (QCamera2HWI.cpp:5516), which have
\* a callback
ASSUME LinkedAssumption == \A c \in Configs : c.linked => c.cb

Buffers == 0 .. NumBufs - 1
States == {"INITED", "ACQUIRED", "CFG", "BUFFED", "REG", "ACTIVE"}

VARIABLES
  config,       \* is_bundled, is_linked, has_cb
  state,
  call,         \* what the channel's call into the stream waits for: "none",
                \* "mapping", "abort" (poll entry of a failed START),
                \* "off" (poll entry of STOP), "join" (the callback thread)
  stopped,      \* STOP or a failure: only UNREG_BUF and PUT_BUF follow
  map_status,   \* of each buffer: 0, 1 or -1
  signalled,    \* buf_cond has been signalled
  refcnt,       \* buf_refcnt
  in_kernel,
  queued_buffer_count,
  driver,       \* where the driver has each buffer: "out", "queued", "filled"
  streaming,    \* is the device on?
  entry,        \* is the stream in poll_entries?
  polled,       \* is it in poll_fds?
  pipe,         \* messages in the pipe of the poll thread: "async", "sync"
  poller,       \* what the poll thread does with which buffer
  queue,        \* cmd_queue of the callback thread
  app,          \* what the callback thread does with which buffer
  holds,        \* the users of each buffer among "channel", "linked", "client"
  requeue,      \* buffers counted as queued whose QBUF is still to come
  marking,      \* buffers queued whose in_kernel is still to be set
  lost,         \* history: buffers the driver refused or the cache lost
  starved,      \* history: the stream was stopped while no buffer was queued
  failures

caller  == <<config, state, call, stopped, starved>>
mapping == <<map_status, signalled>>
polling == <<entry, polled, pipe>>
threads == <<poller, queue, app>>
counts  == <<refcnt, in_kernel, queued_buffer_count>>
kernel  == <<driver, streaming>>
returns == <<requeue, marking>>
vars == <<caller, mapping, counts, kernel, polling, threads, holds, returns, lost, failures>>

Away == [pc |-> "idle", buf |-> 0]
AllOut == [b \in Buffers |-> "out"]
NoHolds == [b \in Buffers |-> {}]

\* An operation of the driver or the daemon fails
Fails == failures < MaxFailures /\ failures' = failures + 1

-----------------------------------------------------------------------------
(* The entry of the stream in the poll thread.                             *)

DelPollAsync == entry' = FALSE /\ pipe' = pipe \cup {"async"} /\ UNCHANGED polled

AddPollAsync == entry' = TRUE /\ pipe' = pipe \cup {"async"} /\ UNCHANGED polled

\* One buffer less: with the last one the device is no longer polled
CountOut ==
  /\ queued_buffer_count' = queued_buffer_count - 1
  /\ IF queued_buffer_count = 1 THEN DelPollAsync ELSE UNCHANGED polling

CountIn_late ==
  /\ queued_buffer_count' = queued_buffer_count + 1
  /\ IF queued_buffer_count = 1 THEN AddPollAsync ELSE UNCHANGED polling

CountIn ==
  /\ queued_buffer_count' = queued_buffer_count + 1
  /\ IF queued_buffer_count = 0 THEN AddPollAsync ELSE UNCHANGED polling

\* The caller of an entry that is there waits; one that is gone it finds done
DelPollSync_forgets ==
  /\ entry' = FALSE /\ UNCHANGED <<polled, pipe>>

DelPollSync ==
  /\ entry' = FALSE /\ UNCHANGED polled
  /\ pipe' = IF entry THEN pipe \cup {"sync"} ELSE pipe

\* mm_camera_poll_proc_pipe; the waiting caller sees that "sync" is gone
ProcPipe ==
  /\ poller.pc = "idle" /\ pipe # {}
  /\ \E m \in pipe : pipe' = pipe \ {m}
  /\ polled' = entry
  /\ UNCHANGED <<caller, mapping, counts, kernel, entry, threads, holds, returns, lost, failures>>

-----------------------------------------------------------------------------
(* A frame arrives: mm_stream_data_notify on the poll thread.              *)

\* The driver fills a buffer
FillBuffer(b) ==
  /\ streaming /\ driver[b] = "queued"
  /\ driver' = [driver EXCEPT ![b] = "filled"]
  /\ UNCHANGED <<caller, mapping, counts, streaming, polling, threads, holds, returns, lost, failures>>

\* The buffer is dequeued; its cache may fail to be cleaned, and it is dropped
ReadFrame(b) ==
  /\ poller.pc = "idle" /\ pipe = {} /\ polled /\ entry
  /\ state = "ACTIVE" /\ driver[b] = "filled"
  /\ driver' = [driver EXCEPT ![b] = "out"]
  /\ CountOut
  /\ \/ poller' = [pc |-> "read", buf |-> b] /\ UNCHANGED <<lost, failures>>
     \/ Fails /\ lost' = lost \cup {b} /\ UNCHANGED poller
  /\ UNCHANGED <<caller, mapping, refcnt, in_kernel, streaming, queue, app, holds, returns>>

\* The users the poll thread counts before it hands the buffer out
Sharers(c) == (IF c.bundled THEN 1 ELSE 0) + (IF c.cb THEN 1 ELSE 0)

CountUsers ==
  /\ poller.pc = "read"
  /\ in_kernel' = [in_kernel EXCEPT ![poller.buf] = FALSE]
  /\ refcnt' = [refcnt EXCEPT ![poller.buf] = @ + Sharers(config)]
  /\ poller' = [poller EXCEPT !.pc = "counted"]
  /\ UNCHANGED <<caller, mapping, queued_buffer_count, kernel, polling, queue, app, holds, returns,
                 lost, failures>>

\* What is left to do with the buffer after the step to "to"
Onward(to) ==
  IF ~config.cb /\ (to = "shared" \/ ~config.linked)
  THEN Away ELSE [poller EXCEPT !.pc = to]

NotifyChannel ==
  /\ poller.pc = "counted"
  /\ holds' = IF config.bundled THEN [holds EXCEPT ![poller.buf] = @ \cup {"channel"}] ELSE holds
  /\ poller' = Onward("notified")
  /\ UNCHANGED <<caller, mapping, counts, kernel, polling, queue, app, returns, lost, failures>>

\* The user of the linked channel is counted only now
NotifyLinked ==
  /\ poller.pc = "notified"
  /\ IF config.linked
       THEN /\ refcnt' = [refcnt EXCEPT ![poller.buf] = @ + 1]
            /\ holds' = [holds EXCEPT ![poller.buf] = @ \cup {"linked"}]
       ELSE UNCHANGED <<refcnt, holds>>
  /\ poller' = Onward("shared")
  /\ UNCHANGED <<caller, mapping, in_kernel, queued_buffer_count, kernel, polling, queue, app, returns,
                 lost, failures>>

\* A node for the callback thread, if that is still there
EnqueueAppData ==
  /\ poller.pc = "shared"
  /\ queue' = IF app.pc # "gone" THEN Append(queue, poller.buf) ELSE queue
  /\ poller' = Away
  /\ UNCHANGED <<caller, mapping, counts, kernel, polling, app, holds, returns, lost, failures>>

-----------------------------------------------------------------------------
(* The buffer comes back.                                                  *)

BufDone_dropped(b) ==
  /\ refcnt[b] > 0
  /\ refcnt' = [refcnt EXCEPT ![b] = @ - 1]
  /\ UNCHANGED <<queued_buffer_count, polling, requeue>>

\* mm_stream_buf_done: the last user counts the buffer as queued and goes on
\* to queue it, without the lock
BufDone(b) ==
  /\ refcnt[b] > 0
  /\ refcnt' = [refcnt EXCEPT ![b] = @ - 1]
  /\ IF refcnt[b] = 1
       THEN CountIn /\ requeue' = requeue \cup {b}
       ELSE UNCHANGED <<queued_buffer_count, polling, requeue>>

\* The ioctl; without the registration, and when the driver refuses, it fails
QueueBuffer(b) ==
  /\ b \in requeue /\ requeue' = requeue \ {b}
  /\ \/ /\ state \in {"REG", "ACTIVE"}
        /\ driver' = [driver EXCEPT ![b] = "queued"] /\ marking' = marking \cup {b}
        /\ UNCHANGED <<queued_buffer_count, polling, lost, failures>>
     \/ /\ state \in {"REG", "ACTIVE"} => Fails
        /\ state \notin {"REG", "ACTIVE"} => UNCHANGED failures
        /\ CountOut /\ lost' = lost \cup {b}
        /\ UNCHANGED <<driver, marking>>
  /\ UNCHANGED <<caller, mapping, refcnt, in_kernel, streaming, threads, holds>>

\* in_kernel is set with no lock: the buffer may have been filled and read by now
MarkInKernel(b) ==
  /\ b \in marking /\ marking' = marking \ {b}
  /\ in_kernel' = [in_kernel EXCEPT ![b] = TRUE]
  /\ UNCHANGED <<caller, mapping, refcnt, queued_buffer_count, kernel, polling, threads, holds, requeue,
                 lost, failures>>

\* A user returns it through the state machine, which refuses in other states
QBuf(b, user) ==
  /\ state = "ACTIVE" /\ user \in holds[b]
  /\ holds' = [holds EXCEPT ![b] = @ \ {user}]
  /\ BufDone(b)
  /\ UNCHANGED <<caller, mapping, in_kernel, kernel, threads, marking, lost, failures>>

-----------------------------------------------------------------------------
(* The callback thread: mm_stream_dispatch_app_data.                       *)

TakeAppData ==
  /\ app.pc = "idle" /\ queue # <<>>
  /\ app' = [pc |-> "taken", buf |-> Head(queue)] /\ queue' = Tail(queue)
  /\ UNCHANGED <<caller, mapping, counts, kernel, polling, poller, holds, returns, lost, failures>>

DispatchAppData_uncounted ==
  /\ app.pc = "taken"
  /\ holds' = [holds EXCEPT ![app.buf] = @ \cup {"client"}]
  /\ app' = [app EXCEPT !.pc = "called"]
  /\ UNCHANGED <<caller, mapping, counts, kernel, polling, poller, queue, returns, lost, failures>>

\* The client is called back with a reference of its own
DispatchAppData ==
  /\ app.pc = "taken"
  /\ refcnt' = [refcnt EXCEPT ![app.buf] = @ + 1]
  /\ holds' = [holds EXCEPT ![app.buf] = @ \cup {"client"}]
  /\ app' = [app EXCEPT !.pc = "called"]
  /\ UNCHANGED <<caller, mapping, in_kernel, queued_buffer_count, kernel, polling, poller, queue, returns,
                 lost, failures>>

EndAppData ==
  /\ app.pc = "called" /\ app' = Away
  /\ BufDone(app.buf)
  /\ UNCHANGED <<caller, mapping, in_kernel, kernel, poller, queue, holds, marking, lost, failures>>

-----------------------------------------------------------------------------
(* The calls of the channel: mm_stream_fsm_fn.                             *)

Idle == call = "none"

Acquire ==
  /\ Idle /\ state = "INITED" /\ state' = "ACQUIRED"
  /\ UNCHANGED <<config, call, stopped, starved, mapping, counts, kernel, polling, threads, holds,
                 returns, lost, failures>>

\* The state changes although the offsets or the format may have been refused
SetFmt ==
  /\ Idle /\ state \in {"ACQUIRED", "CFG"} /\ state' = "CFG"
  /\ UNCHANGED <<config, call, stopped, starved, mapping, counts, kernel, polling, threads, holds,
                 returns, lost, failures>>

Release ==
  /\ Idle /\ state \in {"ACQUIRED", "CFG"} /\ state' = "INITED"
  /\ refcnt' = [b \in Buffers |-> 0] /\ in_kernel' = [b \in Buffers |-> FALSE]
  /\ map_status' = [b \in Buffers |-> 0] /\ queued_buffer_count' = 0
  /\ UNCHANGED <<config, call, stopped, starved, signalled, kernel, polling, threads, holds, returns,
                 lost, failures>>

GetBuf ==
  /\ Idle /\ state = "CFG" /\ state' = "BUFFED"
  /\ UNCHANGED <<config, call, stopped, starved, mapping, counts, kernel, polling, threads, holds,
                 returns, lost, failures>>

\* The daemon is told of a buffer, by a thread of the client that goes on
\* while the stream is started
NeedWaitForMapping(m) ==
  LET missing(b) == m[b] = 0 /\ in_kernel[b]
  IN  (\E b \in Buffers : missing(b)) /\ \A b \in Buffers : m[b] >= 0

MapBuf(b) ==
  /\ state \in {"BUFFED", "REG", "ACTIVE"} /\ ~stopped /\ map_status[b] = 0
  /\ \/ map_status' = [map_status EXCEPT ![b] = 1] /\ UNCHANGED failures
     \/ Fails /\ map_status' = [map_status EXCEPT ![b] = -1]
  /\ signalled' = (signalled \/ (call = "mapping" /\ ~NeedWaitForMapping(map_status')))
  /\ UNCHANGED <<caller, counts, kernel, polling, threads, holds, returns, lost>>

\* The buffers before n, up to the first that fails, are queued or stay with the
\* client, as initial_reg_flag says; the driver may refuse one
RegBufs(kept, n) ==
  LET done == 0 .. n - 1
      queued == done \ kept
  IN  /\ \/ n = NumBufs /\ state' = "REG" /\ UNCHANGED <<failures, stopped>>
         \/ n < NumBufs /\ n \notin kept /\ Fails /\ stopped' = TRUE /\ UNCHANGED state
      /\ refcnt' = [b \in Buffers |-> IF b \in done \cap kept THEN 1 ELSE IF b \in queued THEN 0
                                      ELSE refcnt[b]]
      /\ in_kernel' = [b \in Buffers |-> b \in queued]
      /\ driver' = [b \in Buffers |-> IF b \in queued THEN "queued" ELSE "out"]
      /\ holds' = [b \in Buffers |-> IF b \in done \cap kept THEN {"client"} ELSE {}]
      /\ queued_buffer_count' = Cardinality(queued)
      /\ lost' = {b \in Buffers : b >= n}
      /\ IF queued # {} THEN AddPollAsync
         ELSE IF n < NumBufs THEN DelPollAsync ELSE UNCHANGED polling

RegBuf ==
  /\ Idle /\ state = "BUFFED" /\ ~stopped /\ requeue = {} /\ marking = {} /\ poller.pc = "idle"
  /\ \E kept \in SUBSET Buffers, n \in 0 .. NumBufs : RegBufs(kept, n)
  /\ UNCHANGED <<config, call, starved, mapping, streaming, threads, returns>>

\* What mm_stream_streamon does about the first buffer that is not mapped
FirstUnmapped(b) ==
  /\ map_status[b] < 0 \/ (map_status[b] = 0 /\ in_kernel[b])
  /\ \A c \in 0 .. b - 1 : map_status[c] > 0 \/ (map_status[c] = 0 /\ ~in_kernel[c])

\* A start that failed removes the entry and waits for the poll thread
Abort ==
  /\ DelPollSync /\ call' = "abort"
  /\ UNCHANGED streaming

StreamOn ==
  \/ streaming' = TRUE /\ call' = "none" /\ UNCHANGED <<polling, failures>>
  \/ Fails /\ Abort

Start ==
  /\ Idle /\ state = "REG" /\ ~stopped /\ state' = "ACTIVE"
  /\ app' = IF config.cb THEN Away ELSE app
  /\ \/ /\ \A b \in Buffers : ~FirstUnmapped(b)
        /\ StreamOn
     \/ \E b \in Buffers :
          /\ FirstUnmapped(b) /\ UNCHANGED failures
          /\ \/ map_status[b] < 0 /\ Abort
             \/ map_status[b] = 0 /\ call' = "mapping" /\ UNCHANGED <<polling, streaming>>
  /\ signalled' = FALSE
  /\ UNCHANGED <<config, stopped, starved, map_status, counts, driver, poller, queue, holds, returns, lost>>

\* The wait is not repeated: whatever it was signalled for, the stream goes on
EndMapping ==
  /\ call = "mapping"
  /\ \/ signalled /\ StreamOn
     \/ ~signalled /\ Abort /\ UNCHANGED failures
  /\ signalled' = FALSE
  /\ UNCHANGED <<config, state, stopped, starved, map_status, counts, driver, threads, holds, returns, lost>>

\* The poll thread has taken notice, and the callback thread has ended
EndAbort ==
  /\ call = "abort" /\ "sync" \notin pipe
  /\ queue = <<>> /\ app.pc \in {"idle", "gone"}
  /\ app' = [Away EXCEPT !.pc = "gone"]
  /\ state' = "REG" /\ call' = "none" /\ stopped' = TRUE
  /\ UNCHANGED <<config, starved, mapping, counts, kernel, polling, poller, queue, holds, returns,
                 lost, failures>>

Stop ==
  /\ Idle /\ state = "ACTIVE"
  /\ DelPollSync /\ call' = "off"
  /\ starved' = (queued_buffer_count = 0)
  /\ UNCHANGED <<config, state, stopped, mapping, counts, kernel, threads, holds, returns, lost, failures>>

StreamOff ==
  /\ call = "off" /\ "sync" \notin pipe
  /\ streaming' = FALSE /\ driver' = AllOut
  /\ call' = "join"
  /\ UNCHANGED <<config, state, stopped, starved, mapping, counts, polling, threads, holds, returns,
                 lost, failures>>

\* The callback thread ends when its queue is empty
JoinAppThread ==
  /\ call = "join"
  /\ queue = <<>> /\ app.pc \in {"idle", "gone"}
  /\ app' = [Away EXCEPT !.pc = "gone"]
  /\ state' = "REG" /\ call' = "none" /\ stopped' = TRUE
  /\ UNCHANGED <<config, starved, mapping, counts, kernel, polling, poller, queue, holds, returns,
                 lost, failures>>

\* All references are dropped; what users still have they give to nobody
UnregBuf ==
  /\ Idle /\ state = "REG" /\ stopped /\ state' = "BUFFED"
  /\ refcnt' = [b \in Buffers |-> 0] /\ in_kernel' = [b \in Buffers |-> FALSE]
  /\ driver' = AllOut /\ holds' = NoHolds
  /\ UNCHANGED <<config, call, stopped, starved, mapping, queued_buffer_count, streaming, polling, threads,
                 returns, lost, failures>>

\* The buffers are unmapped and freed.  The client has returned what it had
\* ("we always assume qbuf will be done before channel/stream is fully
\* stopped", mm_camera.c:525) and the threads of the channel have ended; the
\* poll thread may still be using a buffer, which the model does not follow.
PutBuf ==
  /\ Idle /\ state = "BUFFED" /\ stopped /\ requeue = {} /\ marking = {} /\ poller.pc = "idle"
  /\ state' = "CFG" /\ stopped' = FALSE /\ starved' = FALSE
  /\ map_status' = [b \in Buffers |-> 0]
  /\ driver' = AllOut /\ holds' = NoHolds /\ lost' = {}
  /\ UNCHANGED <<config, call, signalled, counts, streaming, polling, threads, returns, failures>>

-----------------------------------------------------------------------------
Init ==
  /\ config \in Configs
  /\ state = "INITED" /\ call = "none" /\ stopped = FALSE /\ starved = FALSE
  /\ map_status = [b \in Buffers |-> 0] /\ signalled = FALSE
  /\ refcnt = [b \in Buffers |-> 0] /\ in_kernel = [b \in Buffers |-> FALSE]
  /\ queued_buffer_count = 0
  /\ driver = AllOut /\ streaming = FALSE
  /\ entry = FALSE /\ polled = FALSE /\ pipe = {}
  /\ poller = Away /\ queue = <<>> /\ app = [Away EXCEPT !.pc = "gone"]
  /\ holds = NoHolds /\ requeue = {} /\ marking = {} /\ lost = {} /\ failures = 0

ThreadStep ==
  \/ ProcPipe \/ CountUsers \/ NotifyChannel \/ NotifyLinked \/ EnqueueAppData
  \/ \E b \in Buffers : ReadFrame(b)
AppStep == TakeAppData \/ DispatchAppData \/ EndAppData
CallStep == EndMapping \/ EndAbort \/ StreamOff \/ JoinAppThread

Next ==
  \/ Acquire \/ SetFmt \/ Release \/ GetBuf \/ RegBuf \/ Start \/ Stop \/ UnregBuf \/ PutBuf
  \/ ThreadStep \/ AppStep \/ CallStep
  \/ \E b \in Buffers :
       \/ FillBuffer(b) \/ MapBuf(b) \/ QueueBuffer(b) \/ MarkInKernel(b)
       \/ \E user \in {"channel", "linked", "client"} : QBuf(b, user)

Spec == Init /\ [][Next]_vars

\* Each thread of the stack goes on; the driver, the client and the channel
\* need not
FairSpec ==
  /\ Spec /\ WF_vars(ThreadStep) /\ WF_vars(AppStep) /\ WF_vars(CallStep)
  /\ \A b \in Buffers : WF_vars(QueueBuffer(b)) /\ WF_vars(MarkInKernel(b))

-----------------------------------------------------------------------------
(* Properties.                                                             *)

TypeOK ==
  /\ config \in Configs /\ state \in States
  /\ call \in {"none", "mapping", "abort", "off", "join"} /\ stopped \in BOOLEAN /\ starved \in BOOLEAN
  /\ map_status \in [Buffers -> {0, 1, -1}] /\ signalled \in BOOLEAN
  /\ refcnt \in [Buffers -> 0 .. 4] /\ in_kernel \in [Buffers -> BOOLEAN]
  /\ queued_buffer_count \in 0 .. NumBufs
  /\ driver \in [Buffers -> {"out", "queued", "filled"}] /\ streaming \in BOOLEAN
  /\ entry \in BOOLEAN /\ polled \in BOOLEAN /\ pipe \subseteq {"async", "sync"}
  /\ poller \in [pc : {"idle", "read", "counted", "notified", "shared"}, buf : Buffers]
  /\ app \in [pc : {"gone", "idle", "taken", "called"}, buf : Buffers]
  /\ queue \in Seq(Buffers) /\ Len(queue) <= NumBufs
  /\ holds \in [Buffers -> SUBSET {"channel", "linked", "client"}]
  /\ requeue \subseteq Buffers /\ marking \subseteq Buffers /\ lost \subseteq Buffers
  /\ failures \in 0 .. MaxFailures

\* The references a buffer should have: its users, its node in the queue of
\* the callback thread or that thread itself, and those the poll thread has
\* counted but not handed out yet
References(b) ==
  Cardinality(holds[b])
  + (IF app.pc \in {"taken", "called"} /\ app.buf = b THEN 1 ELSE 0)
  + Cardinality({i \in 1 .. Len(queue) : queue[i] = b})
  + (IF poller.buf # b THEN 0
     ELSE IF poller.pc = "counted" THEN Sharers(config)
     ELSE IF poller.pc \in {"notified", "shared"} /\ config.cb THEN 1 ELSE 0)

\* While the stream is on buf_refcnt is the number of those who will return the
\* buffer, whatever order the poll thread, the callback thread and the users
\* come in: no buffer is queued under a user or kept when all have returned it.
RefcntIsUsers ==
  streaming => \A b \in Buffers : refcnt[b] = References(b)

\* Between two calls an active stream with queued buffers is in poll_entries,
\* whatever threads count buffers in and out at the same time, the poll thread
\* polls for it or has a message to look again, and the count is right.  (An
\* entry without queued buffers can be left over from a failed registration.)
PollFollowsCount ==
  state = "ACTIVE" /\ call = "none" =>
    /\ queued_buffer_count = Cardinality({b \in Buffers : driver[b] # "out"} \cup requeue)
    /\ queued_buffer_count > 0 => entry
    /\ polled # entry => pipe # {}

\* When a stream is stopped while buffers are queued, and none was refused, the
\* poll thread does not work on a frame any more once the device is off: its
\* buffers can be freed.
PollerIsOut ==
  (call = "join" \/ state \in {"REG", "BUFFED"}) /\ ~starved /\ lost = {} => poller.pc = "idle"

\* The users of the abstract specification
UsersOf(b) ==
  holds[b] \cup (IF (app.pc \in {"taken", "called"} /\ app.buf = b)
                   \/ \E i \in 1 .. Len(queue) : queue[i] = b THEN {"app"} ELSE {})
           \cup (IF poller.pc # "idle" /\ poller.buf = b THEN {"poll"} ELSE {})

Loan == INSTANCE BufferLoan WITH
  on <- streaming, Users <- {"poll", "app", "channel", "linked", "client"},
  driver <- {b \in Buffers : driver[b] # "out"},
  users <- [b \in Buffers |-> UsersOf(b)]

\* The stream implements the loan of buffers: none is with the driver and a
\* user at once, and one that all users have returned gets to the driver.
ImplementsLoan == Loan!Spec
=============================================================================
