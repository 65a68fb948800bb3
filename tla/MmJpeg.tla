------------------------------- MODULE MmJpeg -------------------------------
(***************************************************************************)
(* The JPEG interface (stack/mm-jpeg-interface/src/mm_jpeg.c): sessions,   *)
(* their jobs, the job manager's thread and the OMX encoders.              *)
(*                                                                         *)
(* A client puts a job in job_queue and posts job_sem.  The manager takes  *)
(* a post; with a job ongoing it forgets it, otherwise it takes the first  *)
(* job, brings the encoder of its session to Executing (the encoder that   *)
(* was in progress goes back to Loaded first) and feeds it.  The encoder   *)
(* answers on a thread of its own with mm_jpeg_fbd or an error, and        *)
(* mm_jpegenc_job_done posts job_sem again.  A client that stops aborts    *)
(* its jobs and destroys its session; the last one that closes ends the    *)
(* manager.  The calls of the clients come one at a time (g_intf_lock).    *)
(***************************************************************************)
EXTENDS Integers, FiniteSets

CONSTANTS
  NumSessions,  \* slots of clnt_mgr[].session: MM_JPEG_MAX_SESSION
  MaxOngoing,   \* MM_JPEG_CONCURRENT_SESSIONS_COUNT
  MaxJobs, MaxCreates, MaxFailures, MaxErrors   \* bounds

ASSUME ConstantsAssumption ==
  /\ {NumSessions, MaxOngoing} \subseteq Nat \ {0}
  /\ {MaxJobs, MaxCreates, MaxFailures, MaxErrors} \subseteq Nat

Sessions == 1 .. NumSessions
None == 0
Jobs == 1 .. MaxJobs   \* in the order in which they are started
Exit == MaxJobs + 1    \* MM_JPEG_CMD_TYPE_EXIT, which comes after all jobs
Threads == {"mgr", "api"}

VARIABLES
  session,      \* of each session: active, config, error (error_flag),
                \* abort (abort_state), pending (state_change_pending),
                \* encoding, current (jobId), handles (session_handle_q)
  omx,          \* its encoder: state, cmd (state it is told to take), job
                \* (the one it encodes), bufs (it has the buffers)
  finishing,    \* its encoder's callback is inside mm_jpegenc_job_done
  job_queue,    \* what waits in it: its head is the one that came first
  ongoing_job_q, job_sem, job_lock,
  p_session_inprogress,
  task,         \* of the manager and of the client's call: pc, the session,
                \* the state change's phase, the job
  owner,        \* of each job: the session it was started in, or None
  stopping,     \* sessions whose client stops
  answers,      \* history: callbacks of each job
  stopped,      \* history: jobs whose abort or destruction has returned
  created, failures, errors

queues == <<job_queue, ongoing_job_q, job_sem>>
clients == <<owner, stopping, created>>
history == <<answers, stopped>>
bounds == <<failures, errors>>
vars == <<session, omx, finishing, queues, job_lock, p_session_inprogress, task, clients, history, bounds>>

NoSession == [active |-> FALSE, config |-> FALSE, error |-> FALSE, abort |-> "NONE",
              pending |-> FALSE, encoding |-> FALSE, current |-> 0, handles |-> 0]
NoOmx == [state |-> "none", cmd |-> "none", job |-> 0, bufs |-> FALSE]
Task(pc, s, j) == [pc |-> pc, session |-> s, phase |-> "start", job |-> j]
Idle == Task("idle", None, 0)

First(i, q) == i \in q /\ \A j \in q : i <= j
WithoutSession(q, s) == {i \in q : i = Exit \/ owner[i] # s}

Goto(th, pc) == task' = [task EXCEPT ![th].pc = pc, ![th].phase = "start"]
Fails == failures < MaxFailures /\ failures' = failures + 1

-----------------------------------------------------------------------------
(* mm_jpeg_session_change_state, on the manager's thread or the client's.  *)

Target == [idleOther |-> "Idle", loadOther |-> "Loaded", toIdle |-> "Idle",
           toExec |-> "Executing", idleSelf |-> "Idle", loadSelf |-> "Loaded"]
After == [idleOther |-> "loadOther", loadOther |-> "forget", toIdle |-> "toExec",
          toExec |-> "configured", idleSelf |-> "loadSelf", loadSelf |-> "free"]

\* A session that is destroyed goes on whether its encoder changes or not
AfterError(pc) == IF pc \in {"idleSelf", "loadSelf"} THEN After[pc] ELSE "failed"

Changed(th) == IF task[th].pc \in {"idleOther", "loadOther"} THEN p_session_inprogress
               ELSE task[th].session

\* Is the change asked for, in this state of the encoder?
Asked(pc, state) ==
  CASE pc \in {"idleOther", "idleSelf"} -> state = "Executing"
    [] pc \in {"loadOther", "loadSelf"} -> state = "Idle"
    [] OTHER -> state # Target[pc]

SendCommand(th) ==
  LET s == Changed(th)
      pc == task[th].pc
  IN  /\ pc \in DOMAIN Target /\ task[th].phase = "start" /\ ~finishing[s]
      /\ IF Asked(pc, omx[s].state)
           THEN /\ session' = [session EXCEPT ![s].pending = TRUE]
                /\ omx' = [omx EXCEPT ![s].cmd = Target[pc]]
                /\ task' = [task EXCEPT ![th].phase = "sent"]
           ELSE Goto(th, After[pc]) /\ UNCHANGED <<session, omx>>
      /\ UNCHANGED <<finishing, queues, job_lock, p_session_inprogress, clients, history, bounds>>

\* An error of the encoder that was reported once makes every change fail;
\* otherwise the buffers are handed over or freed before the wait
CheckCommand(th) ==
  LET s == Changed(th)
      pc == task[th].pc
  IN  /\ task[th].phase = "sent" /\ ~finishing[s]
      /\ IF session[s].error
           THEN Goto(th, AfterError(pc)) /\ UNCHANGED omx
           ELSE /\ omx' = [omx EXCEPT ![s].bufs = IF pc \in {"loadOther", "loadSelf"} THEN FALSE
                                                  ELSE @ \/ pc = "toIdle"]
                /\ task' = [task EXCEPT ![th].phase = "waiting"]
      /\ UNCHANGED <<session, finishing, queues, job_lock, p_session_inprogress, clients, history, bounds>>

EndCommand(th) ==
  /\ task[th].phase = "waiting" /\ ~session[Changed(th)].pending
  /\ Goto(th, After[task[th].pc])
  /\ UNCHANGED <<session, omx, finishing, queues, job_lock, p_session_inprogress, clients, history, bounds>>

-----------------------------------------------------------------------------
(* mm_jpeg_session_configure: for the manager or for a new session.        *)

ConfigMain(th) ==
  /\ task[th].pc = "config"
  /\ \/ Goto(th, "toIdle") /\ UNCHANGED failures
     \/ Fails /\ Goto(th, "failed")
  /\ UNCHANGED <<session, omx, finishing, queues, job_lock, p_session_inprogress, clients, history, errors>>

Configured(th) ==
  LET s == task[th].session
  IN  /\ task[th].pc = "configured"
      /\ session' = [session EXCEPT ![s].config = TRUE]
      /\ p_session_inprogress' = s
      /\ IF th = "mgr" THEN Goto(th, "params") /\ UNCHANGED job_lock
         ELSE task' = [task EXCEPT ![th] = Idle] /\ job_lock' = "free"
      /\ UNCHANGED <<omx, finishing, queues, clients, history, bounds>>

-----------------------------------------------------------------------------
(* The job manager: mm_jpeg_jobmgr_thread.                                 *)

TakePost ==
  /\ task["mgr"].pc = "idle" /\ job_sem > 0
  /\ job_sem' = job_sem - 1 /\ Goto("mgr", "woken")
  /\ UNCHANGED <<session, omx, finishing, job_queue, ongoing_job_q, job_lock, p_session_inprogress,
                 clients, history, bounds>>

\* With enough jobs ongoing the post is forgotten
ReadOngoing ==
  /\ task["mgr"].pc = "woken"
  /\ Goto("mgr", IF Cardinality(ongoing_job_q) >= MaxOngoing THEN "idle" ELSE "ready")
  /\ UNCHANGED <<session, omx, finishing, queues, job_lock, p_session_inprogress, clients, history, bounds>>

BeginJob_peeks(j) ==
  LET s == owner[j]
  IN  /\ ongoing_job_q' = ongoing_job_q \cup {j}
      /\ session' = [session EXCEPT ![s].current = j, ![s].abort = "NONE", ![s].encoding = FALSE]
      /\ task' = [task EXCEPT !["mgr"] =
                    Task(IF session[s].config THEN "params"
                         ELSE IF p_session_inprogress # None THEN "idleOther" ELSE "config", s, j)]
      /\ job_lock' = "mgr"

BeginJob_crowds(j) ==
  LET s == owner[j]
  IN  /\ ongoing_job_q' = ongoing_job_q \cup {j}
      /\ session' = [session EXCEPT ![s].handles = @ - 1, ![s].current = j, ![s].abort = "NONE",
                                    ![s].encoding = FALSE]
      /\ task' = [task EXCEPT !["mgr"] = Task(IF session[s].config THEN "params" ELSE "config", s, j)]
      /\ job_lock' = "mgr"

\* mm_jpeg_process_encoding_job as far as the first change of a state
BeginJob(j) ==
  LET s == owner[j]
  IN  /\ ongoing_job_q' = ongoing_job_q \cup {j}
      /\ session' = [session EXCEPT ![s].handles = @ - 1, ![s].current = j, ![s].abort = "NONE",
                                    ![s].encoding = FALSE]
      /\ task' = [task EXCEPT !["mgr"] =
                    Task(IF session[s].config THEN "params"
                         ELSE IF p_session_inprogress # None THEN "idleOther" ELSE "config", s, j)]
      /\ job_lock' = "mgr"

TakeJob ==
  /\ task["mgr"].pc = "ready" /\ job_lock = "free"
  /\ \/ \E j \in Jobs :
          /\ First(j, job_queue) /\ session[owner[j]].handles > 0
          /\ job_queue' = job_queue \ {j} /\ BeginJob(j)
     \/ \* no job, or one whose session is busy: it stays the first
        /\ \A i \in job_queue : First(i, job_queue) => i # Exit /\ session[owner[i]].handles = 0
        /\ Goto("mgr", "idle") /\ UNCHANGED <<session, job_queue, ongoing_job_q, job_lock>>
     \/ /\ job_queue = {Exit}
        /\ job_queue' = {} /\ Goto("mgr", "gone")
        /\ UNCHANGED <<session, ongoing_job_q, job_lock>>
  /\ UNCHANGED <<omx, finishing, job_sem, p_session_inprogress, clients, history, bounds>>

\* The encoder that was in progress has given its buffers back
ForgetOther ==
  /\ task["mgr"].pc = "forget"
  /\ session' = [session EXCEPT ![p_session_inprogress].config = FALSE]
  /\ p_session_inprogress' = None /\ Goto("mgr", "config")
  /\ UNCHANGED <<omx, finishing, queues, job_lock, clients, history, bounds>>

JobParams ==
  /\ task["mgr"].pc = "params"
  /\ \/ /\ session' = [session EXCEPT ![task["mgr"].session].encoding = TRUE]
        /\ Goto("mgr", "feed") /\ UNCHANGED failures
     \/ Fails /\ Goto("mgr", "failed") /\ UNCHANGED session
  /\ UNCHANGED <<omx, finishing, queues, job_lock, p_session_inprogress, clients, history, errors>>

\* The encoder gets the buffers; outside Executing it refuses them
Feed ==
  LET s == task["mgr"].session
  IN  /\ task["mgr"].pc = "feed"
      /\ \/ /\ omx[s].state = "Executing" /\ UNCHANGED failures
            /\ omx' = [omx EXCEPT ![s].job = task["mgr"].job]
            /\ task' = [task EXCEPT !["mgr"] = Idle] /\ job_lock' = "free"
         \/ /\ IF omx[s].state = "Executing" THEN Fails ELSE UNCHANGED failures
            /\ Goto("mgr", "failed") /\ UNCHANGED <<omx, job_lock>>
      /\ UNCHANGED <<session, finishing, queues, p_session_inprogress, clients, history, errors>>

-----------------------------------------------------------------------------
(* mm_jpegenc_job_done, in two parts.                                      *)

CallBack(s) ==
  /\ answers' = [answers EXCEPT ![session[s].current] = @ + 1]
  /\ ongoing_job_q' = ongoing_job_q \ {session[s].current}

ReturnHandle_unposted(s) ==
  /\ session' = [session EXCEPT ![s].encoding = FALSE, ![s].handles = @ + 1]
  /\ UNCHANGED job_sem

ReturnHandle(s) ==
  /\ session' = [session EXCEPT ![s].encoding = FALSE, ![s].handles = @ + 1]
  /\ job_sem' = job_sem + 1

\* The client learns of the error from the manager's thread
JobFailed ==
  /\ task["mgr"].pc = "failed"
  /\ CallBack(task["mgr"].session) /\ ReturnHandle(task["mgr"].session)
  /\ task' = [task EXCEPT !["mgr"] = Idle] /\ job_lock' = "free"
  /\ UNCHANGED <<omx, finishing, job_queue, p_session_inprogress, clients, stopped, bounds>>

FinishJob(s) ==
  /\ finishing[s] /\ finishing' = [finishing EXCEPT ![s] = FALSE]
  /\ ReturnHandle(s)
  /\ UNCHANGED <<omx, job_queue, ongoing_job_q, job_lock, p_session_inprogress, task, clients, history, bounds>>

-----------------------------------------------------------------------------
(* The encoders and their callbacks, which hold the session's lock.        *)

\* mm_jpeg_fbd: nothing is said of a job whose session is being aborted
Fbd(s) ==
  IF session[s].abort # "NONE" THEN UNCHANGED <<finishing, ongoing_job_q, answers>>
  ELSE CallBack(s) /\ finishing' = [finishing EXCEPT ![s] = TRUE]

\* The encoder hands the output back: encoded, or because it goes to Idle
EncoderDone(s) ==
  /\ omx[s].job # 0 /\ ~finishing[s]
  /\ omx' = [omx EXCEPT ![s].job = 0]
  /\ Fbd(s)
  /\ UNCHANGED <<session, job_queue, job_sem, job_lock, p_session_inprogress, task, clients, stopped, bounds>>

\* mm_jpeg_event_handler for EventError, of an encoder at work
EncoderError(s) ==
  /\ omx[s].job # 0 /\ ~finishing[s] /\ errors < MaxErrors
  /\ errors' = errors + 1
  /\ omx' = [omx EXCEPT ![s].job = 0]
  /\ IF session[s].abort = "INIT"
       THEN /\ session' = [session EXCEPT ![s].abort = "DONE"]
            /\ UNCHANGED <<finishing, ongoing_job_q, answers>>
       ELSE /\ session' = [session EXCEPT ![s].error = TRUE]
            /\ IF session[s].encoding
                 THEN CallBack(s) /\ finishing' = [finishing EXCEPT ![s] = TRUE]
                 ELSE UNCHANGED <<finishing, ongoing_job_q, answers>>
  /\ UNCHANGED <<job_queue, job_sem, job_lock, p_session_inprogress, task, clients, stopped, failures>>

\* mm_jpeg_event_handler for EventCmdComplete
CmdComplete(s) ==
  session' = IF session[s].abort = "INIT" THEN [session EXCEPT ![s].abort = "DONE"]
             ELSE [session EXCEPT ![s].pending = FALSE]

\* The encoder is Idle with all its buffers and Loaded with none
EncoderChanges(s) ==
  /\ omx[s].cmd # "none" /\ omx[s].job = 0 /\ ~finishing[s]
  /\ omx[s].cmd = "Loaded" => ~omx[s].bufs
  /\ omx[s].cmd = "Idle" /\ omx[s].state = "Loaded" => omx[s].bufs
  /\ omx' = [omx EXCEPT ![s].state = omx[s].cmd, ![s].cmd = "none"]
  /\ CmdComplete(s)
  /\ UNCHANGED <<finishing, queues, job_lock, p_session_inprogress, task, clients, history, bounds>>

-----------------------------------------------------------------------------
(* The clients' calls.                                                     *)

Call(pc, s, j) ==
  /\ task["api"] = Idle
  /\ task' = [task EXCEPT !["api"] = Task(pc, s, j)]

Return == task' = [task EXCEPT !["api"] = Idle]

\* The first free slot, mm_jpeg_session_create and a handle in session_handle_q
CreateSession(s) ==
  /\ ~session[s].active /\ \A r \in 1 .. s - 1 : session[r].active
  /\ created < MaxCreates /\ created' = created + 1
  /\ Call("create", s, 0)
  /\ session' = [session EXCEPT ![s] = [NoSession EXCEPT !.active = TRUE, !.handles = 1]]
  /\ omx' = [omx EXCEPT ![s] = [NoOmx EXCEPT !.state = "Loaded"]]
  /\ UNCHANGED <<finishing, queues, job_lock, p_session_inprogress, owner, stopping, history, bounds>>

\* Only with no encoder in progress is the new one configured at once
ConfigureNew ==
  /\ task["api"].pc = "create" /\ job_lock = "free"
  /\ IF p_session_inprogress = None THEN Goto("api", "config") /\ job_lock' = "api"
     ELSE Return /\ UNCHANGED job_lock
  /\ UNCHANGED <<session, omx, finishing, queues, p_session_inprogress, clients, history, bounds>>

\* The client of a session that could not be configured stops it
CreateFailed ==
  /\ task["api"].pc = "failed"
  /\ Return /\ job_lock' = "free"
  /\ stopping' = stopping \cup {task["api"].session}
  /\ UNCHANGED <<session, omx, finishing, queues, p_session_inprogress, owner, created, history, bounds>>

StartJob(s, j) ==
  /\ task["api"] = Idle /\ session[s].active /\ s \notin stopping
  /\ \A i \in Jobs : (owner[i] = None) = (i >= j)
  /\ owner' = [owner EXCEPT ![j] = s]
  /\ job_queue' = job_queue \cup {j} /\ job_sem' = job_sem + 1
  /\ UNCHANGED <<session, omx, finishing, ongoing_job_q, job_lock, p_session_inprogress, task,
                 stopping, created, history, bounds>>

\* The client stops: it aborts the jobs it still knows and destroys the session
StopSession(s) ==
  /\ task["api"] = Idle /\ session[s].active /\ s \notin stopping
  /\ stopping' = stopping \cup {s}
  /\ UNCHANGED <<session, omx, finishing, queues, job_lock, p_session_inprogress, task, owner, created,
                 history, bounds>>

AbortJob(j) ==
  /\ owner[j] \in stopping /\ j \notin stopped /\ answers[j] = 0
  /\ Call("abortJob", owner[j], j)
  /\ UNCHANGED <<session, omx, finishing, queues, job_lock, p_session_inprogress, clients, history, bounds>>

\* The job leaves the queue it is in; an ongoing one is aborted
FindJob ==
  LET j == task["api"].job
  IN  /\ task["api"].pc = "abortJob" /\ job_lock = "free"
      /\ job_queue' = job_queue \ {j}
      /\ ongoing_job_q' = IF j \in job_queue THEN ongoing_job_q ELSE ongoing_job_q \ {j}
      /\ IF ongoing_job_q' # ongoing_job_q
           THEN Goto("api", "abort") /\ job_lock' = "api" /\ UNCHANGED stopped
           ELSE Return /\ stopped' = stopped \cup {j} /\ UNCHANGED job_lock
      /\ UNCHANGED <<session, omx, finishing, job_sem, p_session_inprogress, clients, answers, bounds>>

DestroySession(s) ==
  /\ s \in stopping
  /\ Call("destroy", s, 0)
  /\ UNCHANGED <<session, omx, finishing, queues, job_lock, p_session_inprogress, clients, history, bounds>>

DropJobs_queued ==
  LET s == task["api"].session
  IN  /\ task["api"].pc = "destroy" /\ job_lock = "free"
      /\ job_queue' = WithoutSession(job_queue, s)
      /\ job_lock' = "api" /\ Goto("api", "abort")
      /\ UNCHANGED <<session, omx, finishing, ongoing_job_q, job_sem, p_session_inprogress, clients,
                     history, bounds>>

DropJobs ==
  LET s == task["api"].session
  IN  /\ task["api"].pc = "destroy" /\ job_lock = "free"
      /\ job_queue' = WithoutSession(job_queue, s)
      /\ ongoing_job_q' = WithoutSession(ongoing_job_q, s)
      /\ job_lock' = "api" /\ Goto("api", "abort")
      /\ UNCHANGED <<session, omx, finishing, job_sem, p_session_inprogress, clients, history, bounds>>

\* mm_jpeg_session_abort has been done: the call returns or goes on
Aborted ==
  LET j == task["api"].job
  IN  IF j = 0 THEN Goto("api", "idleSelf") /\ UNCHANGED <<job_lock, stopped>>
      ELSE Return /\ job_lock' = "free" /\ stopped' = stopped \cup {j}

BeginAbort_keeps ==
  LET s == task["api"].session
  IN  /\ task["api"].pc = "abort" /\ ~finishing[s]
      /\ IF session[s].abort = "NONE" /\ session[s].encoding
           THEN /\ session' = [session EXCEPT ![s].pending = TRUE]
                /\ Goto("api", "abortSend") /\ UNCHANGED <<job_lock, stopped>>
           ELSE session' = [session EXCEPT ![s].abort = "DONE"] /\ Aborted
      /\ UNCHANGED <<omx, finishing, queues, p_session_inprogress, clients, answers, bounds>>

BeginAbort ==
  LET s == task["api"].session
  IN  /\ task["api"].pc = "abort" /\ ~finishing[s]
      /\ IF session[s].abort = "NONE" /\ session[s].encoding
           THEN /\ session' = [session EXCEPT ![s].abort = "INIT", ![s].pending = TRUE]
                /\ Goto("api", "abortSend") /\ UNCHANGED <<job_lock, stopped>>
           ELSE session' = [session EXCEPT ![s].abort = "DONE"] /\ Aborted
      /\ UNCHANGED <<omx, finishing, queues, p_session_inprogress, clients, answers, bounds>>

SendAbort ==
  /\ task["api"].pc = "abortSend"
  /\ omx' = [omx EXCEPT ![task["api"].session].cmd = "Idle"]
  /\ Goto("api", "abortWait")
  /\ UNCHANGED <<session, finishing, queues, job_lock, p_session_inprogress, clients, history, bounds>>

EndAbort ==
  LET s == task["api"].session
  IN  /\ task["api"].pc = "abortWait" /\ session[s].abort # "INIT" /\ ~finishing[s]
      /\ session' = [session EXCEPT ![s].abort = "DONE"] /\ Aborted
      /\ UNCHANGED <<omx, finishing, queues, p_session_inprogress, clients, answers, bounds>>

\* The end of mm_jpeg_session_destroy and of mm_jpeg_destroy_session
FreeSession ==
  LET s == task["api"].session
  IN  /\ task["api"].pc = "free"
      /\ session' = [session EXCEPT ![s] = NoSession] /\ omx' = [omx EXCEPT ![s] = NoOmx]
      /\ p_session_inprogress' = IF p_session_inprogress = s THEN None ELSE p_session_inprogress
      /\ job_sem' = job_sem + 1 /\ job_lock' = "free" /\ Return
      /\ stopping' = stopping \ {s}
      /\ stopped' = stopped \cup {j \in Jobs : owner[j] = s}
      /\ UNCHANGED <<finishing, job_queue, ongoing_job_q, owner, created, answers, bounds>>

\* The last client closes: mm_jpeg_jobmgr_thread_release
Release ==
  /\ \A s \in Sessions : ~session[s].active
  /\ Call("join", None, 0)
  /\ job_queue' = job_queue \cup {Exit} /\ job_sem' = job_sem + 1
  /\ UNCHANGED <<session, omx, finishing, ongoing_job_q, job_lock, p_session_inprogress, clients,
                 history, bounds>>

Join ==
  /\ task["api"].pc = "join" /\ task["mgr"].pc = "gone"
  /\ Goto("api", "closed")
  /\ UNCHANGED <<session, omx, finishing, queues, job_lock, p_session_inprogress, clients, history, bounds>>

-----------------------------------------------------------------------------
Init ==
  /\ session = [s \in Sessions |-> NoSession] /\ omx = [s \in Sessions |-> NoOmx]
  /\ finishing = [s \in Sessions |-> FALSE]
  /\ job_queue = {} /\ ongoing_job_q = {} /\ job_sem = 0 /\ job_lock = "free"
  /\ p_session_inprogress = None
  /\ task = [th \in Threads |-> Idle]
  /\ owner = [j \in Jobs |-> None] /\ stopping = {} /\ created = 0
  /\ answers = [j \in Jobs |-> 0] /\ stopped = {} /\ failures = 0 /\ errors = 0

Working(th) ==
  SendCommand(th) \/ CheckCommand(th) \/ EndCommand(th) \/ ConfigMain(th) \/ Configured(th)

Manager ==
  \/ Working("mgr") \/ TakePost \/ ReadOngoing \/ TakeJob \/ ForgetOther \/ JobParams \/ Feed
  \/ JobFailed

InCall ==
  \/ Working("api") \/ ConfigureNew \/ CreateFailed \/ FindJob \/ DropJobs \/ BeginAbort
  \/ SendAbort \/ EndAbort \/ FreeSession \/ Join

Encoder(s) == EncoderDone(s) \/ EncoderChanges(s) \/ FinishJob(s)

Next ==
  \/ Manager \/ InCall
  \/ \E s \in Sessions : Encoder(s) \/ EncoderError(s)
  \/ \E s \in Sessions : CreateSession(s) \/ StopSession(s) \/ DestroySession(s)
  \/ \E s \in Sessions, j \in Jobs : StartJob(s, j)
  \/ \E j \in Jobs : AbortJob(j)
  \/ Release

\* The threads and the encoders go on; a client that stops destroys its session
Spec ==
  /\ Init /\ [][Next]_vars
  /\ WF_vars(Manager) /\ WF_vars(InCall)
  /\ WF_vars(\E s \in Sessions : Encoder(s)) /\ WF_vars(\E s \in Sessions : DestroySession(s))

-----------------------------------------------------------------------------
\* A job an encoder works on belongs to the session in progress, which is
\* configured; it is in ongoing_job_q unless a call is aborting it, and no
\* other session's encoder is Executing or told to
RunningIsKnown ==
  \A s \in Sessions : omx[s].job # 0 =>
    /\ p_session_inprogress = s /\ session[s].config
    /\ omx[s].job \in ongoing_job_q \/ task["api"].session = s
    /\ \A o \in Sessions \ {s} : "Executing" \notin {omx[o].state, omx[o].cmd}

\* A session has one handle: in its queue, with the manager or the encoder
\* that works on its job, or, once a job has been aborted, gone
HandleAccounted ==
  \A s \in Sessions : session[s].active =>
    LET users == {u \in {"queue", "mgr", "encoder", "callback"} :
                    \/ u = "queue" /\ session[s].handles = 1
                    \/ u = "mgr" /\ task["mgr"].session = s
                    \/ u = "encoder" /\ omx[s].job # 0
                    \/ u = "callback" /\ finishing[s]}
    IN  /\ session[s].handles <= 1
        /\ Cardinality(users) = 1 \/ (users = {} /\ session[s].abort # "NONE")

\* A client is called back once for a job, and never after the call that
\* aborted the job or destroyed its session has returned
QuietAfterEnd ==
  [][\A j \in Jobs : answers[j] > 0 \/ j \in stopped => answers'[j] = answers[j]]_vars

\* A job that was started is answered, aborted or dropped with its session: no
\* lost post of job_sem and no busy session leaves it in the queue
JobEnds == \A j \in Jobs : owner[j] # None ~> answers[j] > 0 \/ j \in stopped

\* The call that closes the last client returns
ManagerLeaves == task["api"].pc = "join" ~> task["api"].pc = "closed"
=============================================================================
