---------------------------- MODULE MmJpegProofs ----------------------------
(***************************************************************************)
(* Proofs about MmJpeg for any number of sessions, jobs, failures and      *)
(* errors: one encoder works at a time and on a job that is known, a       *)
(* session's handle is never lost or used twice, and no client hears of a  *)
(* job after its end.                                                      *)
(***************************************************************************)
EXTENDS MmJpeg, TLAPS, FiniteSetTheorems

Mgr == task["mgr"]
Api == task["api"]

Changing == DOMAIN Target
WithLockMgr == {"idleOther", "loadOther", "forget", "config", "toIdle", "toExec", "configured",
                "params", "feed", "failed"}
Aborting == {"abort", "abortSend", "abortWait"}
Freeing == {"idleSelf", "loadSelf", "free"}
Configuring == {"config", "toIdle", "toExec", "configured"}
WithLockApi == Configuring \cup Aborting \cup Freeing \cup {"failed"}

SessionRecord ==
  [active : BOOLEAN, config : BOOLEAN, error : BOOLEAN, abort : {"NONE", "INIT", "DONE"},
   pending : BOOLEAN, encoding : BOOLEAN, current : Jobs \cup {0}, handles : Int]
EncoderStates == {"none", "Loaded", "Idle", "Executing"}
OmxRecord == [state : EncoderStates, cmd : EncoderStates, job : Jobs \cup {0}, bufs : BOOLEAN]
Pcs == WithLockMgr \cup WithLockApi
       \cup {"idle", "woken", "ready", "gone", "create", "abortJob", "destroy", "join", "closed"}
TaskRecord == [pc : Pcs, session : Sessions \cup {None}, phase : {"start", "sent", "waiting"},
               job : Jobs \cup {0}]

SessionType == session \in [Sessions -> SessionRecord]
OmxType == omx \in [Sessions -> OmxRecord]
TaskType == task \in [Threads -> TaskRecord]
OtherTypes ==
  /\ finishing \in [Sessions -> BOOLEAN]
  /\ job_queue \subseteq Jobs \cup {Exit} /\ ongoing_job_q \subseteq Jobs
  /\ p_session_inprogress \in Sessions \cup {None}
  /\ owner \in [Jobs -> Sessions \cup {None}] /\ stopping \subseteq Sessions
  /\ answers \in [Jobs -> Nat] /\ stopped \subseteq Jobs

Types == SessionType /\ OmxType /\ TaskType /\ OtherTypes

\* Who has the lock of the jobs
Holders ==
  /\ Mgr.pc \in WithLockMgr \cup {"idle", "woken", "ready", "gone"}
  /\ Api.pc \in WithLockApi \cup {"idle", "create", "abortJob", "destroy", "join", "closed"}
  /\ job_lock = "mgr" <=> Mgr.pc \in WithLockMgr
  /\ job_lock = "api" <=> Api.pc \in WithLockApi
  /\ Mgr.phase # "start" => Mgr.pc \in Changing
  /\ Api.phase # "start" => Api.pc \in Changing

\* Which session and which job the manager is at
AtWork ==
  IF Mgr.pc \in WithLockMgr
    THEN /\ Mgr.session \in Sessions /\ Mgr.job \in Jobs /\ owner[Mgr.job] = Mgr.session
         /\ session[Mgr.session].active /\ session[Mgr.session].current = Mgr.job
         /\ session[Mgr.session].abort = "NONE"
    ELSE Mgr.session = None

\* Which session and which job the call of a client is at
InCalls ==
  /\ IF Api.pc \in WithLockApi \cup {"create", "abortJob", "destroy"}
       THEN Api.session \in Sessions /\ session[Api.session].active
       ELSE Api.session = None
  /\ Api.pc \in {"abortJob"} \cup Aborting /\ Api.job # 0 => owner[Api.job] = Api.session
  /\ Api.pc = "abortJob" => Api.job # 0
  /\ Api.pc \in Freeing \cup {"destroy"} => Api.job = 0

\* Who stops is there
Stopping == \A s \in stopping : session[s].active

Calls == Holders /\ AtWork /\ InCalls /\ Stopping

\* The session in progress is the one that is configured
InProgress ==
  \A s \in Sessions :
    /\ session[s].config <=> p_session_inprogress = s
    /\ p_session_inprogress = s => session[s].active

\* When there is one in progress, and which
ProgressAt ==
  /\ Mgr.pc \in Configuring \/ Api.pc \in Configuring => p_session_inprogress = None
  /\ Mgr.pc \in {"idleOther", "loadOther", "forget"} =>
       p_session_inprogress # None /\ p_session_inprogress # Mgr.session
  /\ Mgr.pc \in {"params", "feed"} => p_session_inprogress = Mgr.session
  /\ Mgr.pc = "feed" => session[Mgr.session].encoding

Progress == InProgress /\ ProgressAt

\* A session that is not there has nothing
AbsentAt(s) == ~session[s].active => session[s] = NoSession /\ omx[s] = NoOmx /\ ~finishing[s]

Absent == \A s \in Sessions : AbsentAt(s)

BeingSet(s) ==
  \/ Mgr.session = s /\ Mgr.pc \in {"toIdle", "toExec", "configured"}
  \/ Api.session = s /\ Api.pc \in {"toIdle", "toExec", "configured"}
BeingUnset(s) ==
  \/ Mgr.pc = "forget" \/ (Mgr.pc = "loadOther" /\ Mgr.phase = "waiting")
  \/ Api.session = s /\ Api.pc \in {"loadSelf", "free"}

\* An encoder that is not in progress is Loaded, and was told nothing
RestingAt(s) ==
  p_session_inprogress # s /\ session[s].active /\ ~BeingSet(s) =>
    omx[s].state = "Loaded" /\ omx[s].cmd = "none" /\ omx[s].job = 0

\* The one that is in progress has its buffers, until it is made to give them back
ServingAt(s) ==
  /\ p_session_inprogress = s /\ ~BeingUnset(s) => omx[s].state \in {"Idle", "Executing"} /\ omx[s].bufs
  /\ p_session_inprogress = s => omx[s].cmd # "Executing"
  /\ omx[s].state = "Executing" => omx[s].bufs

\* An error is the error of the session in progress
ErringAt(s) ==
  session[s].error =>
    p_session_inprogress = s /\ (~BeingUnset(s) \/ (Api.session = s /\ Api.pc \in Freeing))

Resting == \A s \in Sessions : RestingAt(s)
Serving == \A s \in Sessions : ServingAt(s)
Erring == \A s \in Sessions : ErringAt(s)

Encoders == Resting /\ Serving /\ Erring

\* A job at an encoder
RunningAt(s) ==
  omx[s].job # 0 =>
    /\ omx[s].state = "Executing" /\ p_session_inprogress = s
    /\ session[s].encoding /\ session[s].current = omx[s].job /\ owner[omx[s].job] = s
    /\ omx[s].job \in ongoing_job_q \/ (Api.session = s /\ Api.pc \in Aborting)

Running ==
  /\ \A s \in Sessions : RunningAt(s)
  /\ Mgr.pc \in WithLockMgr => Mgr.job \in ongoing_job_q

\* The encoder of s is on its way to a state, or has taken it
Reaching(s, state) ==
  \/ session[s].pending /\ omx[s].cmd = state
  \/ ~session[s].pending /\ omx[s].state = state /\ omx[s].cmd = "none"

\* What the configuration of a session has come to
Setting(t) ==
  LET s == t.session
  IN  /\ t.pc = "toIdle" =>
           /\ t.phase = "start" => omx[s].state = "Loaded" /\ omx[s].cmd = "none"
           /\ t.phase # "start" => Reaching(s, "Idle")
           /\ t.phase = "waiting" => omx[s].bufs
      /\ t.pc = "toExec" =>
           /\ omx[s].bufs
           /\ t.phase = "start" => omx[s].state = "Idle" /\ omx[s].cmd = "none"
           /\ t.phase # "start" => Reaching(s, "Executing")
      /\ t.pc = "configured" => omx[s].state = "Executing" /\ omx[s].cmd = "none" /\ omx[s].bufs

\* What taking the encoder from the session in progress has come to
Unsetting(s) ==
  /\ Mgr.pc = "idleOther" /\ Mgr.phase # "start" => Reaching(s, "Idle")
  /\ Mgr.pc = "loadOther" =>
       /\ omx[s].state # "Executing"
       /\ Mgr.phase # "start" => Reaching(s, "Loaded")
  /\ Mgr.pc = "forget" => omx[s].state = "Loaded" /\ omx[s].cmd = "none"

\* An encoder that is told to go back to Loaded does not work any more
Ending(s) ==
  Api.pc = "loadSelf" /\ Api.phase # "start" => omx[s].state # "Executing" /\ omx[s].cmd # "Executing"

Changes ==
  /\ Setting(Mgr) /\ Setting(Api)
  /\ p_session_inprogress # None => Unsetting(p_session_inprogress)
  /\ Ending(Api.session)

\* The handle of a session is in one place
HandlesAt(s) ==
  /\ session[s].handles \in {0, 1}
  /\ Mgr.session = s => session[s].handles = 0 /\ omx[s].job = 0 /\ ~finishing[s]
  /\ omx[s].job # 0 => session[s].handles = 0 /\ ~finishing[s]
  /\ finishing[s] \/ session[s].encoding => session[s].handles = 0
  /\ session[s].active /\ session[s].handles = 0 /\ Mgr.session # s /\ omx[s].job = 0 /\ ~finishing[s] =>
       session[s].abort # "NONE"

Handles == \A s \in Sessions : HandlesAt(s)

\* The steps of an abort
AbortsAt(s) ==
  /\ session[s].abort = "INIT" => Api.session = s /\ Api.pc \in {"abortSend", "abortWait"}
  /\ session[s].abort = "DONE" => omx[s].job = 0
  /\ finishing[s] => session[s].abort = "NONE"

Aborts ==
  /\ \A s \in Sessions : AbortsAt(s)
  /\ Api.pc \in {"abortSend", "abortWait"} =>
       session[Api.session].abort # "NONE" /\ p_session_inprogress = Api.session
  /\ Api.pc \in Freeing => session[Api.session].abort = "DONE"

\* Which jobs may still be answered
Answerable(j) == answers[j] = 0 /\ j \notin stopped

Waiting(j) ==
  /\ owner[j] = None => Answerable(j) /\ j \notin job_queue
  /\ j \in job_queue => session[owner[j]].active /\ Answerable(j)

Encoded(s) ==
  omx[s].job # 0 =>
    omx[s].job \notin job_queue /\ (session[s].abort = "NONE" => Answerable(omx[s].job))

Answers ==
  /\ \A j \in Jobs : Waiting(j)
  /\ Mgr.session # None => Answerable(Mgr.job) /\ Mgr.job \notin job_queue
  /\ \A s \in Sessions : Encoded(s)
  /\ Api.pc \in Aborting /\ Api.job # 0 => Api.job \notin job_queue
  /\ Api.pc \in Aborting \cup Freeing /\ Api.job = 0 => \A j \in job_queue \cap Jobs : owner[j] # Api.session

IInv == Types /\ Calls /\ Progress /\ Absent /\ Encoders /\ Running /\ Changes /\ Handles /\ Aborts /\ Answers

-----------------------------------------------------------------------------
(* The changes of an encoder's state, and the steps of the threads.        *)

\* The six steps at which an encoder's state is changed.
LEMMA ChangingNames ==
  Changing = {"idleOther", "loadOther", "toIdle", "toExec", "idleSelf", "loadSelf"}
BY DEF Changing, Target

\* What each of them brings the encoder to.
LEMMA TargetNames ==
  /\ Target["idleOther"] = "Idle" /\ Target["loadOther"] = "Loaded" /\ Target["toIdle"] = "Idle"
  /\ Target["toExec"] = "Executing" /\ Target["idleSelf"] = "Idle" /\ Target["loadSelf"] = "Loaded"
BY DEF Target

\* Which step comes after each.
LEMMA AfterNames ==
  /\ After["idleOther"] = "loadOther" /\ After["loadOther"] = "forget" /\ After["toIdle"] = "toExec"
  /\ After["toExec"] = "configured" /\ After["idleSelf"] = "loadSelf" /\ After["loadSelf"] = "free"
BY DEF After

\* A change is to a state of an encoder, and a step follows it.
LEMMA ChangeTypes ==
  ASSUME NEW pc \in Changing
  PROVE  Target[pc] \in EncoderStates /\ After[pc] \in Pcs /\ AfterError(pc) \in Pcs
<1>1. Target[pc] \in EncoderStates
  BY ChangingNames, TargetNames DEF EncoderStates
<1>2. After[pc] \in Pcs
  BY ChangingNames, AfterNames DEF Pcs, WithLockMgr, WithLockApi, Freeing, Configuring
<1> QED
  BY <1>1, <1>2 DEF AfterError, Pcs, WithLockMgr

-----------------------------------------------------------------------------
(* The assignments the steps are made of, field by field.                  *)

SetsPending(s, v) ==
  /\ \A r \in Sessions \ {s} : session'[r] = session[r]
  /\ session'[s].active = session[s].active /\ session'[s].config = session[s].config
  /\ session'[s].error = session[s].error /\ session'[s].abort = session[s].abort
  /\ session'[s].pending = v /\ session'[s].encoding = session[s].encoding
  /\ session'[s].current = session[s].current /\ session'[s].handles = session[s].handles

SetsConfig(s, v) ==
  /\ \A r \in Sessions \ {s} : session'[r] = session[r]
  /\ session'[s].active = session[s].active /\ session'[s].config = v
  /\ session'[s].error = session[s].error /\ session'[s].abort = session[s].abort
  /\ session'[s].pending = session[s].pending /\ session'[s].encoding = session[s].encoding
  /\ session'[s].current = session[s].current /\ session'[s].handles = session[s].handles

SetsEncoding(s, v) ==
  /\ \A r \in Sessions \ {s} : session'[r] = session[r]
  /\ session'[s].active = session[s].active /\ session'[s].config = session[s].config
  /\ session'[s].error = session[s].error /\ session'[s].abort = session[s].abort
  /\ session'[s].pending = session[s].pending /\ session'[s].encoding = v
  /\ session'[s].current = session[s].current /\ session'[s].handles = session[s].handles

SetsAbort(s, v) ==
  /\ \A r \in Sessions \ {s} : session'[r] = session[r]
  /\ session'[s].active = session[s].active /\ session'[s].config = session[s].config
  /\ session'[s].error = session[s].error /\ session'[s].abort = v
  /\ session'[s].pending = session[s].pending /\ session'[s].encoding = session[s].encoding
  /\ session'[s].current = session[s].current /\ session'[s].handles = session[s].handles

SetsError(s, v) ==
  /\ \A r \in Sessions \ {s} : session'[r] = session[r]
  /\ session'[s].active = session[s].active /\ session'[s].config = session[s].config
  /\ session'[s].error = v /\ session'[s].abort = session[s].abort
  /\ session'[s].pending = session[s].pending /\ session'[s].encoding = session[s].encoding
  /\ session'[s].current = session[s].current /\ session'[s].handles = session[s].handles

SetsAborting(s, a, p) ==
  /\ \A r \in Sessions \ {s} : session'[r] = session[r]
  /\ session'[s].active = session[s].active /\ session'[s].config = session[s].config
  /\ session'[s].error = session[s].error /\ session'[s].abort = a /\ session'[s].pending = p
  /\ session'[s].encoding = session[s].encoding /\ session'[s].current = session[s].current
  /\ session'[s].handles = session[s].handles

SetsReturned(s, e, h) ==
  /\ \A r \in Sessions \ {s} : session'[r] = session[r]
  /\ session'[s].active = session[s].active /\ session'[s].config = session[s].config
  /\ session'[s].error = session[s].error /\ session'[s].abort = session[s].abort
  /\ session'[s].pending = session[s].pending /\ session'[s].encoding = e
  /\ session'[s].current = session[s].current /\ session'[s].handles = h

SetsBegun(s, h, c, a, e) ==
  /\ \A r \in Sessions \ {s} : session'[r] = session[r]
  /\ session'[s].active = session[s].active /\ session'[s].config = session[s].config
  /\ session'[s].error = session[s].error /\ session'[s].abort = a
  /\ session'[s].pending = session[s].pending /\ session'[s].encoding = e
  /\ session'[s].current = c /\ session'[s].handles = h

SetsCmd(s, v) ==
  /\ \A r \in Sessions \ {s} : omx'[r] = omx[r]
  /\ omx'[s].state = omx[s].state /\ omx'[s].cmd = v /\ omx'[s].job = omx[s].job
  /\ omx'[s].bufs = omx[s].bufs

SetsBufs(s, v) ==
  /\ \A r \in Sessions \ {s} : omx'[r] = omx[r]
  /\ omx'[s].state = omx[s].state /\ omx'[s].cmd = omx[s].cmd /\ omx'[s].job = omx[s].job
  /\ omx'[s].bufs = v

SetsJob(s, v) ==
  /\ \A r \in Sessions \ {s} : omx'[r] = omx[r]
  /\ omx'[s].state = omx[s].state /\ omx'[s].cmd = omx[s].cmd /\ omx'[s].job = v
  /\ omx'[s].bufs = omx[s].bufs

SetsState(s, v, c) ==
  /\ \A r \in Sessions \ {s} : omx'[r] = omx[r]
  /\ omx'[s].state = v /\ omx'[s].cmd = c /\ omx'[s].job = omx[s].job
  /\ omx'[s].bufs = omx[s].bufs

SetsSession(s, record) == session'[s] = record /\ \A r \in Sessions \ {s} : session'[r] = session[r]
SetsOmx(s, record) == omx'[s] = record /\ \A r \in Sessions \ {s} : omx'[r] = omx[r]

SetsPc(th, pc) ==
  /\ \A o \in Threads \ {th} : task'[o] = task[o]
  /\ task'[th].pc = pc /\ task'[th].phase = "start"
  /\ task'[th].session = task[th].session /\ task'[th].job = task[th].job

SetsPhase(th, p) ==
  /\ \A o \in Threads \ {th} : task'[o] = task[o]
  /\ task'[th].pc = task[th].pc /\ task'[th].phase = p
  /\ task'[th].session = task[th].session /\ task'[th].job = task[th].job

SetsTask(th, pc, s, j) ==
  /\ \A o \in Threads \ {th} : task'[o] = task[o]
  /\ task'[th].pc = pc /\ task'[th].phase = "start" /\ task'[th].session = s /\ task'[th].job = j

\* An assignment to the field pending of a session.
LEMMA SetPending ==
  ASSUME SessionType, NEW s \in Sessions, NEW v \in BOOLEAN,
         session' = [session EXCEPT ![s].pending = v]
  PROVE  SessionType' /\ SetsPending(s, v)
BY DEF SessionType, SessionRecord, SetsPending

\* An assignment to the field config of a session.
LEMMA SetConfig ==
  ASSUME SessionType, NEW s \in Sessions, NEW v \in BOOLEAN,
         session' = [session EXCEPT ![s].config = v]
  PROVE  SessionType' /\ SetsConfig(s, v)
BY DEF SessionType, SessionRecord, SetsConfig

\* An assignment to the field encoding of a session.
LEMMA SetEncoding ==
  ASSUME SessionType, NEW s \in Sessions, NEW v \in BOOLEAN,
         session' = [session EXCEPT ![s].encoding = v]
  PROVE  SessionType' /\ SetsEncoding(s, v)
BY DEF SessionType, SessionRecord, SetsEncoding

\* An assignment to the field abort of a session.
LEMMA SetAbort ==
  ASSUME SessionType, NEW s \in Sessions, NEW v \in {"NONE", "INIT", "DONE"},
         session' = [session EXCEPT ![s].abort = v]
  PROVE  SessionType' /\ SetsAbort(s, v)
BY DEF SessionType, SessionRecord, SetsAbort

\* An assignment to the field error of a session.
LEMMA SetError ==
  ASSUME SessionType, NEW s \in Sessions, NEW v \in BOOLEAN,
         session' = [session EXCEPT ![s].error = v]
  PROVE  SessionType' /\ SetsError(s, v)
BY DEF SessionType, SessionRecord, SetsError

\* An assignment to a field keeps a function of the sessions one.
LEMMA FieldKept ==
  ASSUME NEW g \in [Sessions -> SessionRecord], NEW s \in Sessions
  PROVE  /\ \A v \in BOOLEAN : [g EXCEPT ![s].pending = v] \in [Sessions -> SessionRecord]
         /\ \A v \in BOOLEAN : [g EXCEPT ![s].encoding = v] \in [Sessions -> SessionRecord]
         /\ \A v \in Jobs \cup {0} : [g EXCEPT ![s].current = v] \in [Sessions -> SessionRecord]
         /\ \A v \in Int : [g EXCEPT ![s].handles = v] \in [Sessions -> SessionRecord]
<1>1. \A v \in BOOLEAN : [g EXCEPT ![s].pending = v] \in [Sessions -> SessionRecord]
  BY DEF SessionRecord
<1>2. \A v \in BOOLEAN : [g EXCEPT ![s].encoding = v] \in [Sessions -> SessionRecord]
  BY DEF SessionRecord
<1>3. \A v \in Jobs \cup {0} : [g EXCEPT ![s].current = v] \in [Sessions -> SessionRecord]
  BY DEF SessionRecord
<1>4. \A v \in Int : [g EXCEPT ![s].handles = v] \in [Sessions -> SessionRecord]
  BY DEF SessionRecord
<1> QED
  BY <1>1, <1>2, <1>3, <1>4

\* An assignment to the fields abort, pending of a session.
LEMMA SetAborting ==
  ASSUME SessionType, NEW s \in Sessions, NEW a \in {"NONE", "INIT", "DONE"}, NEW p \in BOOLEAN,
         session' = [session EXCEPT ![s].abort = a, ![s].pending = p]
  PROVE  SessionType' /\ SetsAborting(s, a, p)
<1>1. SessionType'
  <2>1. PICK g \in [Sessions -> SessionRecord] : g = [session EXCEPT ![s].abort = a]
    BY DEF SessionType, SessionRecord
  <2>2. session' = [g EXCEPT ![s].pending = p]
    BY <2>1 DEF SessionType, SessionRecord
  <2>3. [g EXCEPT ![s].pending = p] \in [Sessions -> SessionRecord]
    BY FieldKept, Zenon
  <2> QED
    BY <2>2, <2>3, Zenon DEF SessionType
<1>2. SetsAborting(s, a, p)
  BY DEF SessionType, SessionRecord, SetsAborting
<1> QED
  BY <1>1, <1>2

\* An assignment to the fields encoding, handles of a session.
LEMMA SetReturned ==
  ASSUME SessionType, NEW s \in Sessions, NEW e \in BOOLEAN, NEW h \in Int,
         session' = [session EXCEPT ![s].encoding = e, ![s].handles = h]
  PROVE  SessionType' /\ SetsReturned(s, e, h)
<1>1. SessionType'
  <2>1. PICK g \in [Sessions -> SessionRecord] : g = [session EXCEPT ![s].encoding = e]
    BY DEF SessionType, SessionRecord
  <2>2. session' = [g EXCEPT ![s].handles = h]
    BY <2>1 DEF SessionType, SessionRecord
  <2>3. [g EXCEPT ![s].handles = h] \in [Sessions -> SessionRecord]
    BY FieldKept, Zenon
  <2> QED
    BY <2>2, <2>3, Zenon DEF SessionType
<1>2. SetsReturned(s, e, h)
  BY DEF SessionType, SessionRecord, SetsReturned
<1> QED
  BY <1>1, <1>2

\* An assignment to two fields keeps a function of the sessions one.
LEMMA AbortAndEncoding ==
  ASSUME NEW f \in [Sessions -> SessionRecord], NEW s \in Sessions,
         NEW a \in {"NONE", "INIT", "DONE"}, NEW e \in BOOLEAN
  PROVE  [f EXCEPT ![s].abort = a, ![s].encoding = e] \in [Sessions -> SessionRecord]
<1>1. PICK g \in [Sessions -> SessionRecord] : g = [f EXCEPT ![s].abort = a]
  BY DEF SessionRecord
<1>2. [f EXCEPT ![s].abort = a, ![s].encoding = e] = [g EXCEPT ![s].encoding = e]
  BY <1>1 DEF SessionRecord
<1>3. [g EXCEPT ![s].encoding = e] \in [Sessions -> SessionRecord]
  BY FieldKept, Zenon
<1> QED
  BY <1>2, <1>3, Zenon

\* An assignment to the fields handles, current, abort, encoding of a session.
LEMMA SetBegun ==
  ASSUME SessionType, NEW s \in Sessions,
         NEW h \in Int, NEW c \in Jobs \cup {0}, NEW a \in {"NONE", "INIT", "DONE"}, NEW e \in BOOLEAN,
         session' = [session EXCEPT ![s].handles = h, ![s].current = c, ![s].abort = a, ![s].encoding = e]
  PROVE  SessionType' /\ SetsBegun(s, h, c, a, e)
<1> DEFINE f == [session EXCEPT ![s].handles = h, ![s].current = c]
<1>1. f \in [Sessions -> SessionRecord]
  <2>1. PICK g \in [Sessions -> SessionRecord] : g = [session EXCEPT ![s].handles = h]
    BY DEF SessionType, SessionRecord
  <2>2. f = [g EXCEPT ![s].current = c]
    BY <2>1 DEF SessionType, SessionRecord
  <2>3. [g EXCEPT ![s].current = c] \in [Sessions -> SessionRecord]
    BY FieldKept, Zenon
  <2> QED
    BY <2>2, <2>3, Zenon
<1>2. /\ \A r \in Sessions \ {s} : f[r] = session[r]
      /\ f[s].active = session[s].active /\ f[s].config = session[s].config
      /\ f[s].error = session[s].error /\ f[s].pending = session[s].pending
      /\ f[s].current = c /\ f[s].handles = h
  BY DEF SessionType, SessionRecord
<1>3. session' = [f EXCEPT ![s].abort = a, ![s].encoding = e]
  BY DEF SessionType, SessionRecord
<1> HIDE DEF f
<1>4. SessionType'
  <2> DEFINE g == [f EXCEPT ![s].abort = a, ![s].encoding = e]
  <2>1. g \in [Sessions -> SessionRecord]
    BY <1>1, AbortAndEncoding, Zenon
  <2>2. session' = g
    BY <1>3
  <2> QED
    BY <2>1, <2>2, Zenon DEF SessionType
<1>5. \A r \in Sessions \ {s} : session'[r] = session[r]
  BY <1>1, <1>2, <1>3
<1>6. /\ session'[s].active = f[s].active /\ session'[s].config = f[s].config
      /\ session'[s].error = f[s].error /\ session'[s].pending = f[s].pending
      /\ session'[s].current = f[s].current /\ session'[s].handles = f[s].handles
  BY <1>1, <1>3 DEF SessionRecord
<1>7. session'[s].abort = a /\ session'[s].encoding = e
  BY <1>1, <1>3 DEF SessionRecord
<1> QED
  BY <1>2, <1>4, <1>5, <1>6, <1>7 DEF SetsBegun

\* An assignment to the field cmd of an encoder.
LEMMA SetCmd ==
  ASSUME OmxType, NEW s \in Sessions, NEW v \in EncoderStates,
         omx' = [omx EXCEPT ![s].cmd = v]
  PROVE  OmxType' /\ SetsCmd(s, v)
BY DEF OmxType, OmxRecord, SetsCmd, EncoderStates

\* An assignment to the field bufs of an encoder.
LEMMA SetBufs ==
  ASSUME OmxType, NEW s \in Sessions, NEW v \in BOOLEAN,
         omx' = [omx EXCEPT ![s].bufs = v]
  PROVE  OmxType' /\ SetsBufs(s, v)
BY DEF OmxType, OmxRecord, SetsBufs, EncoderStates

\* An assignment to the field job of an encoder.
LEMMA SetJob ==
  ASSUME OmxType, NEW s \in Sessions, NEW v \in Jobs \cup {0},
         omx' = [omx EXCEPT ![s].job = v]
  PROVE  OmxType' /\ SetsJob(s, v)
BY DEF OmxType, OmxRecord, SetsJob, EncoderStates

\* An assignment to the fields state, cmd of an encoder.
LEMMA SetState ==
  ASSUME OmxType, NEW s \in Sessions, NEW v \in EncoderStates, NEW c \in EncoderStates,
         omx' = [omx EXCEPT ![s].state = v, ![s].cmd = c]
  PROVE  OmxType' /\ SetsState(s, v, c)
BY DEF OmxType, OmxRecord, SetsState, EncoderStates

\* A session is created or freed.
LEMMA SetSession ==
  ASSUME SessionType, NEW s \in Sessions, NEW record \in SessionRecord,
         session' = [session EXCEPT ![s] = record]
  PROVE  SessionType' /\ SetsSession(s, record)
BY DEF SessionType, SetsSession

\* An encoder is created or freed.
LEMMA SetOmx ==
  ASSUME OmxType, NEW s \in Sessions, NEW record \in OmxRecord, omx' = [omx EXCEPT ![s] = record]
  PROVE  OmxType' /\ SetsOmx(s, record)
BY DEF OmxType, SetsOmx

\* A thread goes to another step.
LEMMA SetPc ==
  ASSUME TaskType, NEW th \in Threads, NEW pc \in Pcs, Goto(th, pc)
  PROVE  TaskType' /\ SetsPc(th, pc)
BY DEF TaskType, TaskRecord, Goto, SetsPc

\* A thread goes one phase on.
LEMMA SetPhase ==
  ASSUME TaskType, NEW th \in Threads, NEW p \in {"start", "sent", "waiting"},
         task' = [task EXCEPT ![th].phase = p]
  PROVE  TaskType' /\ SetsPhase(th, p)
BY DEF TaskType, TaskRecord, SetsPhase

\* A thread takes up a task.
LEMMA SetTask ==
  ASSUME TaskType, NEW th \in Threads, NEW pc \in Pcs, NEW s \in Sessions \cup {None},
         NEW j \in Jobs \cup {0}, task' = [task EXCEPT ![th] = Task(pc, s, j)]
  PROVE  TaskType' /\ SetsTask(th, pc, s, j)
BY DEF TaskType, TaskRecord, Task, SetsTask

-----------------------------------------------------------------------------
(* What each step does, in a state that satisfies the invariant.           *)

\* Which session a thread is at.
LEMMA ThreadSession ==
  ASSUME IInv, NEW th \in Threads
  PROVE  /\ task[th].pc \in Changing => Changed(th) \in Sessions
         /\ task[th].pc \in WithLockMgr \cup WithLockApi => task[th].session \in Sessions
<1>1. Mgr.pc \in WithLockMgr => Mgr.session \in Sessions
  BY DEF IInv, Calls, Holders, AtWork, InCalls
<1>2. Api.pc \in WithLockApi => Api.session \in Sessions
  BY DEF IInv, Calls, Holders, AtWork, InCalls
<1>3. Mgr.pc \in {"idleOther", "loadOther"} => p_session_inprogress \in Sessions
  BY DEF IInv, Types, OtherTypes, Progress, ProgressAt
<1>4. /\ Mgr.pc \in WithLockMgr \cup {"idle", "woken", "ready", "gone"}
      /\ Api.pc \in WithLockApi \cup {"idle", "create", "abortJob", "destroy", "join", "closed"}
  BY DEF IInv, Calls, Holders, AtWork, InCalls
<1>5. CASE th = "mgr"
  BY <1>1, <1>3, <1>4, <1>5, ChangingNames
     DEF Mgr, Changed, WithLockMgr, WithLockApi, Aborting, Freeing, Configuring
<1>6. CASE th = "api"
  BY <1>2, <1>4, <1>6, ChangingNames
     DEF Api, Changed, WithLockMgr, WithLockApi, Aborting, Freeing, Configuring
<1> QED
  BY <1>5, <1>6 DEF Threads

\* Who has the lock is not at another step.
LEMMA PcNames ==
  ASSUME IInv
  PROVE  /\ Mgr.pc \in Pcs /\ Api.pc \in Pcs
         /\ Mgr.pc \in WithLockMgr \cup {"idle", "woken", "ready", "gone"}
         /\ Api.pc \in WithLockApi \cup {"idle", "create", "abortJob", "destroy", "join", "closed"}
BY DEF IInv, Calls, Holders, AtWork, InCalls, Pcs

\* A task that is past the start of a phase changes an encoder.
LEMMA PhaseChanges ==
  ASSUME IInv, NEW th \in Threads, task[th].phase # "start"
  PROVE  task[th].pc \in Changing
BY DEF IInv, Calls, Holders, Threads, Mgr, Api

\* SendCommand tells the encoder which state to take, or goes on.
LEMMA SendCommandDoes ==
  ASSUME IInv, NEW th \in Threads, SendCommand(th)
  PROVE  LET s == Changed(th)
             pc == task[th].pc
         IN  /\ s \in Sessions /\ pc \in Changing /\ task[th].phase = "start" /\ ~finishing[s]
             /\ \/ /\ Asked(pc, omx[s].state)
                   /\ SetsPending(s, TRUE) /\ SetsCmd(s, Target[pc]) /\ SetsPhase(th, "sent")
                \/ /\ ~Asked(pc, omx[s].state)
                   /\ SetsPc(th, After[pc]) /\ UNCHANGED <<session, omx>>
             /\ UNCHANGED <<finishing, job_queue, ongoing_job_q, job_lock, p_session_inprogress, owner,
                            stopping, answers, stopped>>
             /\ Types'
<1> DEFINE s == Changed(th)
           pc == task[th].pc
<1>1. pc \in Changing /\ task[th].phase = "start" /\ ~finishing[s]
  BY DEF SendCommand, Changing
<1>2. s \in Sessions
  BY <1>1, ThreadSession
<1>3. Target[pc] \in EncoderStates /\ After[pc] \in Pcs
  BY <1>1, ChangeTypes
<1>4. SessionType /\ OmxType /\ TaskType /\ OtherTypes
  BY DEF IInv, Types
<1>5. /\ UNCHANGED <<finishing, job_queue, ongoing_job_q, job_lock, p_session_inprogress, owner,
                     stopping, answers, stopped>>
      /\ OtherTypes'
  BY <1>4 DEF SendCommand, queues, clients, history, OtherTypes
<1>6. CASE Asked(pc, omx[s].state)
  <2>1. session' = [session EXCEPT ![s].pending = TRUE] /\ omx' = [omx EXCEPT ![s].cmd = Target[pc]]
        /\ task' = [task EXCEPT ![th].phase = "sent"]
    BY <1>6 DEF SendCommand
  <2>2. SessionType' /\ SetsPending(s, TRUE)
    BY <1>2, <1>4, <2>1, SetPending
  <2>3. OmxType' /\ SetsCmd(s, Target[pc])
    BY <1>2, <1>3, <1>4, <2>1, SetCmd
  <2>4. TaskType' /\ SetsPhase(th, "sent")
    BY <1>4, <2>1, SetPhase
  <2> QED
    BY <1>1, <1>2, <1>5, <1>6, <2>2, <2>3, <2>4 DEF Types
<1>7. CASE ~Asked(pc, omx[s].state)
  <2>1. Goto(th, After[pc]) /\ UNCHANGED <<session, omx>>
    BY <1>7 DEF SendCommand
  <2>2. TaskType' /\ SetsPc(th, After[pc])
    BY <1>3, <1>4, <2>1, SetPc
  <2> QED
    BY <1>1, <1>2, <1>4, <1>5, <1>7, <2>1, <2>2 DEF Types, SessionType, OmxType
<1> QED
  BY <1>6, <1>7

\* CheckCommand hands the buffers over or frees them, or finds the error.
LEMMA CheckCommandDoes ==
  ASSUME IInv, NEW th \in Threads, CheckCommand(th)
  PROVE  LET s == Changed(th)
             pc == task[th].pc
         IN  /\ s \in Sessions /\ pc \in Changing /\ task[th].phase = "sent" /\ ~finishing[s]
             /\ \/ session[s].error /\ SetsPc(th, AfterError(pc)) /\ UNCHANGED omx
                \/ /\ ~session[s].error /\ SetsPhase(th, "waiting")
                   /\ \/ pc \in {"loadOther", "loadSelf"} /\ SetsBufs(s, FALSE)
                      \/ pc = "toIdle" /\ SetsBufs(s, TRUE)
                      \/ pc \in {"idleOther", "toExec", "idleSelf"} /\ SetsBufs(s, omx[s].bufs)
             /\ UNCHANGED <<session, finishing, job_queue, ongoing_job_q, job_lock, p_session_inprogress,
                            owner, stopping, answers, stopped>>
             /\ Types'
<1> DEFINE s == Changed(th)
           pc == task[th].pc
<1>1. task[th].phase = "sent" /\ ~finishing[s]
  BY DEF CheckCommand
<1>2. pc \in Changing
  BY <1>1, PhaseChanges
<1>3. s \in Sessions
  BY <1>2, ThreadSession
<1>4. AfterError(pc) \in Pcs
  BY <1>2, ChangeTypes
<1>5. SessionType /\ OmxType /\ TaskType /\ OtherTypes
  BY DEF IInv, Types
<1>6. /\ UNCHANGED <<session, finishing, job_queue, ongoing_job_q, job_lock, p_session_inprogress, owner,
                     stopping, answers, stopped>>
      /\ SessionType' /\ OtherTypes'
  BY <1>5 DEF CheckCommand, queues, clients, history, SessionType, OtherTypes
<1>7. CASE session[s].error
  <2>1. Goto(th, AfterError(pc)) /\ UNCHANGED omx
    BY <1>7 DEF CheckCommand
  <2>2. TaskType' /\ SetsPc(th, AfterError(pc))
    BY <1>4, <1>5, <2>1, SetPc
  <2> QED
    BY <1>1, <1>2, <1>3, <1>5, <1>6, <1>7, <2>1, <2>2 DEF Types, OmxType
<1>8. CASE ~session[s].error
  <2>1. /\ omx' = [omx EXCEPT ![s].bufs = IF pc \in {"loadOther", "loadSelf"} THEN FALSE
                                          ELSE @ \/ pc = "toIdle"]
        /\ task' = [task EXCEPT ![th].phase = "waiting"]
    BY <1>8 DEF CheckCommand
  <2>2. TaskType' /\ SetsPhase(th, "waiting")
    BY <1>5, <2>1, SetPhase
  <2>3. CASE pc \in {"loadOther", "loadSelf"}
    <3>1. omx' = [omx EXCEPT ![s].bufs = FALSE]
      BY <2>1, <2>3
    <3>2. OmxType' /\ SetsBufs(s, FALSE)
      BY <1>3, <1>5, <3>1, SetBufs
    <3> QED
      BY <1>1, <1>2, <1>3, <1>6, <1>8, <2>2, <2>3, <3>2 DEF Types
  <2>4. CASE pc = "toIdle"
    <3>1. omx' = [omx EXCEPT ![s].bufs = TRUE]
      BY <2>1, <2>4
    <3>2. OmxType' /\ SetsBufs(s, TRUE)
      BY <1>3, <1>5, <3>1, SetBufs
    <3> QED
      BY <1>1, <1>2, <1>3, <1>6, <1>8, <2>2, <2>4, <3>2 DEF Types
  <2>5. CASE pc \in {"idleOther", "toExec", "idleSelf"}
    <3>1. omx[s].bufs \in BOOLEAN
      BY <1>3, <1>5 DEF OmxType, OmxRecord
    <3>2. (omx[s].bufs \/ pc = "toIdle") = omx[s].bufs
      BY <2>5, <3>1
    <3>3. omx' = [omx EXCEPT ![s].bufs = omx[s].bufs]
      BY <1>3, <1>5, <2>1, <2>5, <3>2 DEF OmxType
    <3>4. OmxType' /\ SetsBufs(s, omx[s].bufs)
      BY <1>3, <1>5, <3>1, <3>3, SetBufs
    <3> QED
      BY <1>1, <1>2, <1>3, <1>6, <1>8, <2>2, <2>5, <3>4 DEF Types
  <2> QED
    BY <1>2, <2>3, <2>4, <2>5, ChangingNames
<1> QED
  BY <1>7, <1>8

\* EndCommand goes on when the encoder has answered.
LEMMA EndCommandDoes ==
  ASSUME IInv, NEW th \in Threads, EndCommand(th)
  PROVE  /\ Changed(th) \in Sessions /\ task[th].pc \in Changing /\ task[th].phase = "waiting"
         /\ ~session[Changed(th)].pending
         /\ SetsPc(th, After[task[th].pc])
         /\ UNCHANGED <<session, omx, finishing, job_queue, ongoing_job_q, job_lock, p_session_inprogress,
                        owner, stopping, answers, stopped>>
         /\ Types'
<1>1. /\ task[th].phase = "waiting" /\ ~session[Changed(th)].pending /\ Goto(th, After[task[th].pc])
      /\ UNCHANGED <<session, omx, finishing, job_queue, ongoing_job_q, job_lock, p_session_inprogress,
                     owner, stopping, answers, stopped>>
  BY DEF EndCommand, queues, clients, history
<1>2. task[th].pc \in Changing
  BY <1>1, PhaseChanges
<1>3. Changed(th) \in Sessions
  BY <1>2, ThreadSession
<1>4. TaskType' /\ SetsPc(th, After[task[th].pc])
  BY <1>1, <1>2, ChangeTypes, SetPc DEF IInv, Types
<1> QED
  BY <1>1, <1>2, <1>3, <1>4 DEF IInv, Types, SessionType, OmxType, OtherTypes

\* A step of the configuration by the manager, or by the call that creates.
LEMMA ConfigMainDoes ==
  ASSUME IInv, NEW th \in Threads, ConfigMain(th)
  PROVE  /\ task[th].pc = "config"
         /\ SetsPc(th, "toIdle") \/ SetsPc(th, "failed")
         /\ UNCHANGED <<session, omx, finishing, job_queue, ongoing_job_q, job_lock, p_session_inprogress,
                        owner, stopping, answers, stopped>>
         /\ Types'
<1>1. /\ task[th].pc = "config" /\ (Goto(th, "toIdle") \/ Goto(th, "failed"))
      /\ UNCHANGED <<session, omx, finishing, job_queue, ongoing_job_q, job_lock, p_session_inprogress,
                     owner, stopping, answers, stopped>>
  BY DEF ConfigMain, queues, clients, history
<1>2. "toIdle" \in Pcs /\ "failed" \in Pcs
  BY DEF Pcs, WithLockMgr
<1>3. TaskType' /\ (SetsPc(th, "toIdle") \/ SetsPc(th, "failed"))
  BY <1>1, <1>2, SetPc DEF IInv, Types
<1> QED
  BY <1>1, <1>3 DEF IInv, Types, SessionType, OmxType, OtherTypes

\* A session that is configured is the one in progress.
LEMMA ConfiguredDoes ==
  ASSUME IInv, NEW th \in Threads, Configured(th)
  PROVE  LET s == task[th].session
         IN  /\ s \in Sessions /\ task[th].pc = "configured"
             /\ SetsConfig(s, TRUE) /\ p_session_inprogress' = s
             /\ \/ th = "mgr" /\ SetsPc(th, "params") /\ UNCHANGED job_lock
                \/ th = "api" /\ SetsTask(th, "idle", None, 0) /\ job_lock' = "free"
             /\ UNCHANGED <<omx, finishing, job_queue, ongoing_job_q, owner, stopping, answers, stopped>>
             /\ Types'
<1> DEFINE s == task[th].session
<1>1. /\ task[th].pc = "configured"
      /\ session' = [session EXCEPT ![s].config = TRUE] /\ p_session_inprogress' = s
      /\ IF th = "mgr" THEN Goto(th, "params") /\ UNCHANGED job_lock
         ELSE task' = [task EXCEPT ![th] = Task("idle", None, 0)] /\ job_lock' = "free"
      /\ UNCHANGED <<omx, finishing, job_queue, ongoing_job_q, owner, stopping, answers, stopped>>
  BY DEF Configured, Idle, queues, clients, history
<1>2. s \in Sessions
  BY <1>1, ThreadSession DEF WithLockMgr
<1>3. SessionType /\ OmxType /\ TaskType /\ OtherTypes
  BY DEF IInv, Types
<1>4. SessionType' /\ SetsConfig(s, TRUE)
  BY <1>1, <1>2, <1>3, SetConfig
<1>5. "params" \in Pcs /\ "idle" \in Pcs
  BY DEF Pcs, WithLockMgr
<1>6. CASE th = "mgr"
  BY <1>1, <1>3, <1>5, <1>6, SetPc
     , <1>2, <1>4 DEF Types, OmxType, OtherTypes
<1>7. CASE th = "api"
  <2>1. TaskType' /\ SetsTask(th, "idle", None, 0)
    BY <1>1, <1>3, <1>5, <1>7, SetTask
  <2> QED
    BY <1>1, <1>2, <1>3, <1>4, <1>7, <2>1 DEF Types, OmxType, OtherTypes
<1> QED
  BY <1>6, <1>7 DEF Threads

\* The manager takes a post, and looks at what is ongoing.
LEMMA WakingDoes ==
  ASSUME IInv, TakePost \/ ReadOngoing
  PROVE  /\ Mgr.pc \in {"idle", "woken"}
         /\ SetsPc("mgr", "woken") \/ SetsPc("mgr", "idle") \/ SetsPc("mgr", "ready")
         /\ UNCHANGED <<session, omx, finishing, job_queue, ongoing_job_q, job_lock, p_session_inprogress,
                        owner, stopping, answers, stopped>>
         /\ Types'
<1>1. /\ Mgr.pc \in {"idle", "woken"}
      /\ \/ Goto("mgr", "woken") \/ Goto("mgr", "idle") \/ Goto("mgr", "ready")
      /\ UNCHANGED <<session, omx, finishing, job_queue, ongoing_job_q, job_lock, p_session_inprogress,
                     owner, stopping, answers, stopped>>
  BY DEF TakePost, ReadOngoing, queues, clients, history, Mgr
<1>2. "woken" \in Pcs /\ "idle" \in Pcs /\ "ready" \in Pcs /\ "mgr" \in Threads
  BY DEF Pcs, Threads
<1>3. TaskType' /\ (SetsPc("mgr", "woken") \/ SetsPc("mgr", "idle") \/ SetsPc("mgr", "ready"))
  BY <1>1, <1>2, SetPc DEF IInv, Types
<1> QED
  BY <1>1, <1>3 DEF IInv, Types, SessionType, OmxType, OtherTypes

\* A job is begun: it leaves its queue with its session's handle.
BeginsJob(j) ==
  LET s == owner[j]
  IN  /\ j \in job_queue /\ s \in Sessions /\ session[s].handles > 0
      /\ job_queue' = job_queue \ {j} /\ ongoing_job_q' = ongoing_job_q \cup {j}
      /\ job_lock' = "mgr"
      /\ SetsBegun(s, session[s].handles - 1, j, "NONE", FALSE)
      /\ \/ session[s].config /\ SetsTask("mgr", "params", s, j)
         \/ ~session[s].config /\ p_session_inprogress # None /\ SetsTask("mgr", "idleOther", s, j)
         \/ ~session[s].config /\ p_session_inprogress = None /\ SetsTask("mgr", "config", s, j)

\* The manager begins a job, finds none it can begin, or leaves.
LEMMA TakeJobDoes ==
  ASSUME IInv, TakeJob
  PROVE  /\ Mgr.pc = "ready" /\ job_lock = "free"
         /\ \/ \E j \in Jobs : BeginsJob(j)
            \/ SetsPc("mgr", "idle") /\ UNCHANGED <<session, job_queue, ongoing_job_q, job_lock>>
            \/ /\ SetsPc("mgr", "gone") /\ job_queue' = {}
               /\ UNCHANGED <<session, ongoing_job_q, job_lock>>
         /\ UNCHANGED <<omx, finishing, p_session_inprogress, owner, stopping, answers, stopped>>
         /\ Types'
<1>1. /\ Mgr.pc = "ready" /\ job_lock = "free"
      /\ UNCHANGED <<omx, finishing, p_session_inprogress, owner, stopping, answers, stopped>>
  BY DEF TakeJob, Mgr, clients, history
<1>2. SessionType /\ OmxType /\ TaskType /\ OtherTypes
  BY DEF IInv, Types
<1>3. /\ {"idle", "gone", "params", "idleOther", "config"} \subseteq Pcs /\ "mgr" \in Threads
  BY DEF Pcs, WithLockMgr, Threads
<1>4. ASSUME NEW j \in Jobs, j \in job_queue, session[owner[j]].handles > 0,
             job_queue' = job_queue \ {j}, BeginJob(j)
      PROVE  BeginsJob(j) /\ SessionType' /\ TaskType' /\ OtherTypes'
  <2> DEFINE s == owner[j]
  <2>1. s \in Sessions
    <3>1. owner[j] # None /\ owner[j] \in Sessions \cup {None}
      BY <1>2, <1>4 DEF IInv, Answers, Waiting, OtherTypes
    <3> QED
      BY <3>1
  <2>2. session[s].handles \in Int
    BY <1>2, <2>1 DEF SessionType, SessionRecord
  <2>3. session' = [session EXCEPT ![s].handles = session[s].handles - 1, ![s].current = j,
                                   ![s].abort = "NONE", ![s].encoding = FALSE]
    BY <1>2, <1>4, <2>1 DEF BeginJob, SessionType
  <2>4. SessionType' /\ SetsBegun(s, session[s].handles - 1, j, "NONE", FALSE)
    <3>1. session[s].handles - 1 \in Int /\ j \in Jobs \cup {0} /\ "NONE" \in {"NONE", "INIT", "DONE"}
          /\ FALSE \in BOOLEAN
      BY <2>2
    <3> QED
      BY <1>2, <2>1, <2>3, <3>1, SetBegun
  <2>5. /\ ongoing_job_q' = ongoing_job_q \cup {j} /\ job_lock' = "mgr"
        /\ task' = [task EXCEPT !["mgr"] =
                      Task(IF session[s].config THEN "params"
                           ELSE IF p_session_inprogress # None THEN "idleOther" ELSE "config", s, j)]
    BY <1>4 DEF BeginJob
  <2>6. OtherTypes'
    BY <1>1, <1>2, <1>4, <2>5 DEF OtherTypes
  <2>7. CASE session[s].config
    <3>1. TaskType' /\ SetsTask("mgr", "params", s, j)
      BY <1>2, <1>3, <2>1, <2>5, <2>7, SetTask
    <3> QED
      BY <1>4, <2>1, <2>4, <2>5, <2>6, <2>7, <3>1 DEF BeginsJob
  <2>8. CASE ~session[s].config /\ p_session_inprogress # None
    <3>1. TaskType' /\ SetsTask("mgr", "idleOther", s, j)
      BY <1>2, <1>3, <2>1, <2>5, <2>8, SetTask
    <3> QED
      BY <1>4, <2>1, <2>4, <2>5, <2>6, <2>8, <3>1 DEF BeginsJob
  <2>9. CASE ~session[s].config /\ p_session_inprogress = None
    <3>1. TaskType' /\ SetsTask("mgr", "config", s, j)
      BY <1>2, <1>3, <2>1, <2>5, <2>9, SetTask
    <3> QED
      BY <1>4, <2>1, <2>4, <2>5, <2>6, <2>9, <3>1 DEF BeginsJob
  <2> QED
    BY <2>7, <2>8, <2>9
<1>5. CASE \E j \in Jobs : /\ First(j, job_queue) /\ session[owner[j]].handles > 0
                           /\ job_queue' = job_queue \ {j} /\ BeginJob(j)
  <2>1. PICK j \in Jobs : /\ First(j, job_queue) /\ session[owner[j]].handles > 0
                          /\ job_queue' = job_queue \ {j} /\ BeginJob(j)
    BY <1>5
  <2>2. BeginsJob(j) /\ SessionType' /\ TaskType' /\ OtherTypes'
    BY <1>4, <2>1 DEF First
  <2> QED
    BY <1>1, <1>2, <2>2 DEF Types, OmxType
<1>6. CASE Goto("mgr", "idle") /\ UNCHANGED <<session, job_queue, ongoing_job_q, job_lock>>
  <2>1. TaskType' /\ SetsPc("mgr", "idle")
    BY <1>2, <1>3, <1>6, SetPc
  <2> QED
    BY <1>1, <1>2, <1>6, <2>1 DEF Types, SessionType, OmxType, OtherTypes
<1>7. CASE job_queue' = {} /\ Goto("mgr", "gone") /\ UNCHANGED <<session, ongoing_job_q, job_lock>>
  <2>1. TaskType' /\ SetsPc("mgr", "gone")
    BY <1>2, <1>3, <1>7, SetPc
  <2> QED
    BY <1>1, <1>2, <1>7, <2>1 DEF Types, SessionType, OmxType, OtherTypes
<1> QED
  BY <1>5, <1>6, <1>7 DEF TakeJob

\* The session that was in progress has given its encoder back.
LEMMA ForgetOtherDoes ==
  ASSUME IInv, ForgetOther
  PROVE  /\ Mgr.pc = "forget" /\ p_session_inprogress \in Sessions
         /\ SetsConfig(p_session_inprogress, FALSE) /\ p_session_inprogress' = None
         /\ SetsPc("mgr", "config")
         /\ UNCHANGED <<omx, finishing, job_queue, ongoing_job_q, job_lock, owner, stopping, answers,
                        stopped>>
         /\ Types'
<1>1. /\ Mgr.pc = "forget" /\ session' = [session EXCEPT ![p_session_inprogress].config = FALSE]
      /\ p_session_inprogress' = None /\ Goto("mgr", "config")
      /\ UNCHANGED <<omx, finishing, job_queue, ongoing_job_q, job_lock, owner, stopping, answers,
                     stopped>>
  BY DEF ForgetOther, Mgr, queues, clients, history
<1>2. SessionType /\ OmxType /\ TaskType /\ OtherTypes
  BY DEF IInv, Types
<1>3. p_session_inprogress \in Sessions
  BY <1>1, <1>2 DEF IInv, Progress, ProgressAt, OtherTypes
<1>4. SessionType' /\ SetsConfig(p_session_inprogress, FALSE)
  BY <1>1, <1>2, <1>3, SetConfig
<1>5. "config" \in Pcs /\ "mgr" \in Threads
  BY DEF Pcs, WithLockMgr, Threads
<1>6. TaskType' /\ SetsPc("mgr", "config")
  BY <1>1, <1>2, <1>5, SetPc
<1> QED
  BY <1>1, <1>2, <1>3, <1>4, <1>6 DEF Types, OmxType, OtherTypes

\* The parameters of a job are set, or the job fails.
LEMMA JobParamsDoes ==
  ASSUME IInv, JobParams
  PROVE  /\ Mgr.pc = "params" /\ Mgr.session \in Sessions
         /\ \/ SetsEncoding(Mgr.session, TRUE) /\ SetsPc("mgr", "feed")
            \/ SetsPc("mgr", "failed") /\ UNCHANGED session
         /\ UNCHANGED <<omx, finishing, job_queue, ongoing_job_q, job_lock, p_session_inprogress, owner,
                        stopping, answers, stopped>>
         /\ Types'
<1>1. /\ task["mgr"].pc = "params"
      /\ UNCHANGED <<omx, finishing, job_queue, ongoing_job_q, job_lock, p_session_inprogress, owner,
                     stopping, answers, stopped>>
  BY DEF JobParams, queues, clients, history
<1>2. SessionType /\ OmxType /\ TaskType /\ OtherTypes
  BY DEF IInv, Types
<1>3. {"feed", "failed"} \subseteq Pcs /\ "mgr" \in Threads
  BY DEF Pcs, WithLockMgr, Threads
<1>4. Mgr.session \in Sessions
  BY <1>1, <1>3, ThreadSession DEF WithLockMgr, Mgr
<1>5. CASE session' = [session EXCEPT ![Mgr.session].encoding = TRUE] /\ Goto("mgr", "feed")
  <2>1. SessionType' /\ SetsEncoding(Mgr.session, TRUE)
    BY <1>2, <1>4, <1>5, SetEncoding
  <2>2. TaskType' /\ SetsPc("mgr", "feed")
    BY <1>2, <1>3, <1>5, SetPc
  <2> QED
    BY <1>1, <1>2, <1>4, <2>1, <2>2 DEF Types, OmxType, OtherTypes, Mgr
<1>6. CASE Goto("mgr", "failed") /\ UNCHANGED session
  <2>1. TaskType' /\ SetsPc("mgr", "failed")
    BY <1>2, <1>3, <1>6, SetPc
  <2> QED
    BY <1>1, <1>2, <1>4, <1>6, <2>1 DEF Types, SessionType, OmxType, OtherTypes, Mgr
<1> QED
  BY <1>5, <1>6 DEF JobParams, Mgr

\* The encoder is given the job, or the job fails.
LEMMA FeedDoes ==
  ASSUME IInv, Feed
  PROVE  /\ Mgr.pc = "feed" /\ Mgr.session \in Sessions /\ Mgr.job \in Jobs
         /\ \/ /\ omx[Mgr.session].state = "Executing" /\ SetsJob(Mgr.session, Mgr.job)
               /\ SetsTask("mgr", "idle", None, 0) /\ job_lock' = "free"
            \/ SetsPc("mgr", "failed") /\ UNCHANGED <<omx, job_lock>>
         /\ UNCHANGED <<session, finishing, job_queue, ongoing_job_q, p_session_inprogress, owner,
                        stopping, answers, stopped>>
         /\ Types'
<1>1. /\ task["mgr"].pc = "feed"
      /\ UNCHANGED <<session, finishing, job_queue, ongoing_job_q, p_session_inprogress, owner,
                     stopping, answers, stopped>>
  BY DEF Feed, queues, clients, history
<1>2. SessionType /\ OmxType /\ TaskType /\ OtherTypes
  BY DEF IInv, Types
<1>3. {"idle", "failed"} \subseteq Pcs /\ "mgr" \in Threads
  BY DEF Pcs, WithLockMgr, Threads
<1>4. Mgr.session \in Sessions /\ Mgr.job \in Jobs
  BY <1>1 DEF WithLockMgr, Mgr, IInv, Calls, Holders, AtWork, InCalls
<1>5. CASE /\ omx[Mgr.session].state = "Executing" /\ omx' = [omx EXCEPT ![Mgr.session].job = Mgr.job]
           /\ task' = [task EXCEPT !["mgr"] = Task("idle", None, 0)] /\ job_lock' = "free"
  <2>1. OmxType' /\ SetsJob(Mgr.session, Mgr.job)
    BY <1>2, <1>4, <1>5, SetJob
  <2>2. TaskType' /\ SetsTask("mgr", "idle", None, 0)
    BY <1>2, <1>3, <1>5, SetTask
  <2> QED
    BY <1>1, <1>2, <1>4, <1>5, <2>1, <2>2 DEF Types, SessionType, OtherTypes, Mgr
<1>6. CASE Goto("mgr", "failed") /\ UNCHANGED <<omx, job_lock>>
  <2>1. TaskType' /\ SetsPc("mgr", "failed")
    BY <1>2, <1>3, <1>6, SetPc
  <2> QED
    BY <1>1, <1>2, <1>4, <1>6, <2>1 DEF Types, SessionType, OmxType, OtherTypes, Mgr
<1> QED
  BY <1>5, <1>6 DEF Feed, Mgr, Idle

\* What mm_jpegenc_job_done says of a job, and where it gives the handle back.
SaysEnd(s) ==
  /\ answers' = [answers EXCEPT ![session[s].current] = @ + 1]
  /\ ongoing_job_q' = ongoing_job_q \ {session[s].current}

\* A callback keeps the types.
LEMMA SaysEndTypes ==
  ASSUME OtherTypes, NEW s, SaysEnd(s)
  PROVE  answers' \in [Jobs -> Nat] /\ ongoing_job_q' \subseteq Jobs
<1>1. answers \in [Jobs -> Nat] /\ ongoing_job_q \subseteq Jobs
  BY DEF OtherTypes
<1>2. answers' = [answers EXCEPT ![session[s].current] = answers[session[s].current] + 1]
  BY <1>1 DEF SaysEnd
<1>3. CASE session[s].current \in Jobs
  <2>1. answers[session[s].current] + 1 \in Nat
    BY <1>1, <1>3
  <2> QED
    BY <1>1, <1>2, <2>1 DEF SaysEnd
<1>4. CASE session[s].current \notin Jobs
  <2>1. answers' = answers
    BY <1>1, <1>2, <1>4
  <2> QED
    BY <1>1, <2>1 DEF SaysEnd
<1> QED
  BY <1>3, <1>4

\* The manager tells the client that the job failed.
LEMMA JobFailedDoes ==
  ASSUME IInv, JobFailed
  PROVE  /\ Mgr.pc = "failed" /\ Mgr.session \in Sessions
         /\ SaysEnd(Mgr.session)
         /\ SetsReturned(Mgr.session, FALSE, session[Mgr.session].handles + 1)
         /\ SetsTask("mgr", "idle", None, 0) /\ job_lock' = "free"
         /\ UNCHANGED <<omx, finishing, job_queue, p_session_inprogress, owner, stopping, stopped>>
         /\ Types'
<1>1. /\ task["mgr"].pc = "failed" /\ SaysEnd(Mgr.session)
      /\ session' = [session EXCEPT ![Mgr.session].encoding = FALSE, ![Mgr.session].handles = @ + 1]
      /\ task' = [task EXCEPT !["mgr"] = Task("idle", None, 0)] /\ job_lock' = "free"
      /\ UNCHANGED <<omx, finishing, job_queue, p_session_inprogress, owner, stopping, stopped>>
  BY DEF JobFailed, CallBack, SaysEnd, ReturnHandle, Idle, Mgr, clients
<1>2. SessionType /\ OmxType /\ TaskType /\ OtherTypes
  BY DEF IInv, Types
<1>3. "idle" \in Pcs /\ "mgr" \in Threads
  BY DEF Pcs, Threads
<1>4. Mgr.session \in Sessions
  BY <1>1 DEF WithLockMgr, Mgr, IInv, Calls, Holders, AtWork, InCalls
<1>5. SessionType' /\ SetsReturned(Mgr.session, FALSE, session[Mgr.session].handles + 1)
  <2>1. session[Mgr.session].handles + 1 \in Int
    BY <1>2, <1>4 DEF SessionType, SessionRecord
  <2>2. session' = [session EXCEPT ![Mgr.session].encoding = FALSE,
                                   ![Mgr.session].handles = session[Mgr.session].handles + 1]
    BY <1>1, <1>2, <1>4 DEF SessionType
  <2> QED
    BY <1>2, <1>4, <2>1, <2>2, SetReturned
<1>6. TaskType' /\ SetsTask("mgr", "idle", None, 0)
  BY <1>1, <1>2, <1>3, SetTask
<1>7. OtherTypes'
  BY <1>1, <1>2, SaysEndTypes DEF OtherTypes
<1> QED
  BY <1>1, <1>2, <1>4, <1>5, <1>6, <1>7 DEF Types, OmxType, Mgr

\* A session that was created is configured, if no other is in progress.
LEMMA ConfigureNewDoes ==
  ASSUME IInv, ConfigureNew
  PROVE  /\ Api.pc = "create" /\ job_lock = "free"
         /\ \/ p_session_inprogress = None /\ SetsPc("api", "config") /\ job_lock' = "api"
            \/ SetsTask("api", "idle", None, 0) /\ UNCHANGED job_lock
         /\ UNCHANGED <<session, omx, finishing, job_queue, ongoing_job_q, p_session_inprogress, owner,
                        stopping, answers, stopped>>
         /\ Types'
<1>1. /\ task["api"].pc = "create" /\ job_lock = "free"
      /\ UNCHANGED <<session, omx, finishing, job_queue, ongoing_job_q, p_session_inprogress, owner,
                     stopping, answers, stopped>>
  BY DEF ConfigureNew, queues, clients, history
<1>2. SessionType /\ OmxType /\ TaskType /\ OtherTypes
  BY DEF IInv, Types
<1>3. {"idle", "config"} \subseteq Pcs /\ "api" \in Threads
  BY DEF Pcs, WithLockMgr, Threads
<1>4. CASE p_session_inprogress = None /\ Goto("api", "config") /\ job_lock' = "api"
  <2>1. TaskType' /\ SetsPc("api", "config")
    BY <1>2, <1>3, <1>4, SetPc
  <2> QED
    BY <1>1, <1>2, <1>4, <2>1 DEF Types, SessionType, OmxType, OtherTypes, Api
<1>5. CASE task' = [task EXCEPT !["api"] = Task("idle", None, 0)] /\ UNCHANGED job_lock
  <2>1. TaskType' /\ SetsTask("api", "idle", None, 0)
    BY <1>2, <1>3, <1>5, SetTask
  <2> QED
    BY <1>1, <1>2, <1>5, <2>1 DEF Types, SessionType, OmxType, OtherTypes, Api
<1> QED
  BY <1>4, <1>5 DEF ConfigureNew, Return, Idle

\* A session that could not be configured is to be stopped.
LEMMA CreateFailedDoes ==
  ASSUME IInv, CreateFailed
  PROVE  /\ Api.pc = "failed" /\ Api.session \in Sessions
         /\ SetsTask("api", "idle", None, 0) /\ job_lock' = "free"
         /\ stopping' = stopping \cup {Api.session}
         /\ UNCHANGED <<session, omx, finishing, job_queue, ongoing_job_q, p_session_inprogress, owner,
                        answers, stopped>>
         /\ Types'
<1>1. /\ task["api"].pc = "failed" /\ job_lock' = "free" /\ stopping' = stopping \cup {Api.session}
      /\ task' = [task EXCEPT !["api"] = Task("idle", None, 0)]
      /\ UNCHANGED <<session, omx, finishing, job_queue, ongoing_job_q, p_session_inprogress, owner,
                     answers, stopped>>
  BY DEF CreateFailed, Return, Idle, Api, queues, history
<1>2. SessionType /\ OmxType /\ TaskType /\ OtherTypes
  BY DEF IInv, Types
<1>3. "idle" \in Pcs /\ "api" \in Threads
  BY DEF Pcs, Threads
<1>4. Api.session \in Sessions
  BY <1>1 DEF WithLockApi, Api, IInv, Calls, Holders, AtWork, InCalls
<1>5. TaskType' /\ SetsTask("api", "idle", None, 0)
  BY <1>1, <1>2, <1>3, SetTask
<1> QED
  BY <1>1, <1>2, <1>4, <1>5 DEF Types, SessionType, OmxType, OtherTypes, Api

\* A job that is to be aborted is queued, ongoing, or neither.
LEMMA FindJobDoes ==
  ASSUME IInv, FindJob
  PROVE  LET j == Api.job
         IN  /\ Api.pc = "abortJob" /\ Api.session \in Sessions /\ j \in Jobs /\ job_lock = "free"
             /\ job_queue' = job_queue \ {j}
             /\ \/ /\ j \notin job_queue /\ j \in ongoing_job_q
                   /\ ongoing_job_q' = ongoing_job_q \ {j}
                   /\ SetsPc("api", "abort") /\ job_lock' = "api" /\ UNCHANGED stopped
                \/ /\ SetsTask("api", "idle", None, 0) /\ stopped' = stopped \cup {j}
                   /\ j \in job_queue \/ j \notin ongoing_job_q
                   /\ UNCHANGED <<job_lock, ongoing_job_q>>
             /\ UNCHANGED <<session, omx, finishing, p_session_inprogress, owner, stopping, answers>>
             /\ Types'
<1> DEFINE j == Api.job
<1>1. /\ task["api"].pc = "abortJob" /\ job_lock = "free" /\ job_queue' = job_queue \ {j}
      /\ ongoing_job_q' = IF j \in job_queue THEN ongoing_job_q ELSE ongoing_job_q \ {j}
      /\ IF ongoing_job_q' # ongoing_job_q
           THEN Goto("api", "abort") /\ job_lock' = "api" /\ UNCHANGED stopped
           ELSE /\ task' = [task EXCEPT !["api"] = Task("idle", None, 0)]
                /\ stopped' = stopped \cup {j} /\ UNCHANGED job_lock
      /\ UNCHANGED <<session, omx, finishing, p_session_inprogress, owner, stopping, answers>>
  BY DEF FindJob, Return, Idle, Api, clients
<1>2. SessionType /\ OmxType /\ TaskType /\ OtherTypes
  BY DEF IInv, Types
<1>3. {"idle", "abort"} \subseteq Pcs /\ "api" \in Threads
  BY DEF Pcs, WithLockApi, Aborting, Threads
<1>4. Api.session \in Sessions
  BY <1>1 DEF Api, IInv, Calls, Holders, AtWork, InCalls
<1>5. j \in Jobs
  <2>1. Api.job # 0
    BY <1>1 DEF Api, IInv, Calls, Holders, AtWork, InCalls
  <2>2. Api.job \in Jobs \cup {0}
    BY <1>2, <1>3 DEF Api, TaskType, TaskRecord
  <2> QED
    BY <2>1, <2>2
<1>6. CASE j \notin job_queue /\ j \in ongoing_job_q
  <2>1. ongoing_job_q' = ongoing_job_q \ {j} /\ ongoing_job_q' # ongoing_job_q
    BY <1>1, <1>6
  <2>2. Goto("api", "abort") /\ job_lock' = "api" /\ UNCHANGED stopped
    BY <1>1, <2>1
  <2>3. TaskType' /\ SetsPc("api", "abort")
    BY <1>2, <1>3, <2>2, SetPc
  <2>4. OtherTypes'
    BY <1>1, <1>2, <2>1, <2>2 DEF OtherTypes
  <2> QED
    BY <1>1, <1>2, <1>4, <1>5, <1>6, <2>1, <2>2, <2>3, <2>4 DEF Types, SessionType, OmxType, Api
<1>7. CASE j \in job_queue \/ j \notin ongoing_job_q
  <2>1. ongoing_job_q' = ongoing_job_q
    BY <1>1, <1>7
  <2>2. /\ task' = [task EXCEPT !["api"] = Task("idle", None, 0)]
        /\ stopped' = stopped \cup {j} /\ UNCHANGED job_lock
    BY <1>1, <2>1
  <2>3. TaskType' /\ SetsTask("api", "idle", None, 0)
    BY <1>2, <1>3, <2>2, SetTask
  <2>4. OtherTypes'
    BY <1>1, <1>2, <1>5, <2>1, <2>2 DEF OtherTypes
  <2> QED
    BY <1>1, <1>2, <1>4, <1>5, <1>7, <2>1, <2>2, <2>3, <2>4 DEF Types, SessionType, OmxType, Api
<1> QED
  BY <1>6, <1>7

\* A session that is destroyed takes its jobs out of both queues.
LEMMA DropJobsDoes ==
  ASSUME IInv, DropJobs
  PROVE  /\ Api.pc = "destroy" /\ Api.session \in Sessions /\ job_lock = "free"
         /\ job_queue' = WithoutSession(job_queue, Api.session)
         /\ ongoing_job_q' = WithoutSession(ongoing_job_q, Api.session)
         /\ SetsPc("api", "abort") /\ job_lock' = "api"
         /\ UNCHANGED <<session, omx, finishing, p_session_inprogress, owner, stopping, answers, stopped>>
         /\ Types'
<1>1. /\ task["api"].pc = "destroy" /\ job_lock = "free"
      /\ job_queue' = WithoutSession(job_queue, Api.session)
      /\ ongoing_job_q' = WithoutSession(ongoing_job_q, Api.session)
      /\ Goto("api", "abort") /\ job_lock' = "api"
      /\ UNCHANGED <<session, omx, finishing, p_session_inprogress, owner, stopping, answers, stopped>>
  BY DEF DropJobs, Api, clients, history
<1>2. SessionType /\ OmxType /\ TaskType /\ OtherTypes
  BY DEF IInv, Types
<1>3. "abort" \in Pcs /\ "api" \in Threads
  BY DEF Pcs, WithLockApi, Aborting, Threads
<1>4. Api.session \in Sessions
  BY <1>1 DEF Api, IInv, Calls, Holders, AtWork, InCalls
<1>5. TaskType' /\ SetsPc("api", "abort")
  BY <1>1, <1>2, <1>3, SetPc
<1>6. job_queue' \subseteq job_queue /\ ongoing_job_q' \subseteq ongoing_job_q
  BY <1>1 DEF WithoutSession
<1>7. OtherTypes'
  BY <1>1, <1>2, <1>6 DEF OtherTypes
<1> QED
  BY <1>1, <1>2, <1>4, <1>5, <1>7 DEF Types, SessionType, OmxType, Api

\* The end of an abort: the call returns, or goes on to free the session.
EndsAbort ==
  /\ SetsAbort(Api.session, "DONE")
  /\ \/ Api.job = 0 /\ SetsPc("api", "idleSelf") /\ UNCHANGED <<job_lock, stopped>>
     \/ /\ Api.job \in Jobs /\ SetsTask("api", "idle", None, 0)
        /\ job_lock' = "free" /\ stopped' = stopped \cup {Api.job}

\* That end, and the types after it.
LEMMA AbortedDoes ==
  ASSUME IInv, Api.pc \in Aborting, Aborted,
         session' = [session EXCEPT ![Api.session].abort = "DONE"],
         UNCHANGED <<omx, finishing, job_queue, ongoing_job_q, p_session_inprogress, owner, stopping,
                     answers>>
  PROVE  EndsAbort /\ Types'
<1>1. SessionType /\ OmxType /\ TaskType /\ OtherTypes
  BY DEF IInv, Types
<1>2. {"idle", "idleSelf"} \subseteq Pcs /\ "api" \in Threads
  BY DEF Pcs, WithLockApi, Freeing, Threads
<1>3. Api.session \in Sessions
  BY DEF WithLockApi, IInv, Calls, Holders, AtWork, InCalls
<1>4. SessionType' /\ SetsAbort(Api.session, "DONE")
  BY <1>1, <1>3, SetAbort
<1>5. CASE Api.job = 0
  <2>1. Goto("api", "idleSelf") /\ UNCHANGED <<job_lock, stopped>>
    BY <1>5 DEF Aborted, Api
  <2>2. TaskType' /\ SetsPc("api", "idleSelf")
    BY <1>1, <1>2, <2>1, SetPc
  <2> QED
    BY <1>1, <1>4, <1>5, <2>1, <2>2 DEF Types, OmxType, OtherTypes, EndsAbort
<1>6. CASE Api.job # 0
  <2>1. /\ task' = [task EXCEPT !["api"] = Task("idle", None, 0)]
        /\ job_lock' = "free" /\ stopped' = stopped \cup {Api.job}
    BY <1>6 DEF Aborted, Api, Return, Idle
  <2>2. TaskType' /\ SetsTask("api", "idle", None, 0)
    BY <1>1, <1>2, <2>1, SetTask
  <2>3. Api.job \in Jobs
    BY <1>1, <1>2, <1>6 DEF Api, TaskType, TaskRecord
  <2>4. OtherTypes'
    BY <1>1, <2>1, <2>3 DEF OtherTypes
  <2> QED
    BY <1>1, <1>4, <1>6, <2>1, <2>2, <2>3, <2>4 DEF Types, OmxType, EndsAbort
<1> QED
  BY <1>5, <1>6

\* An abort asks the encoder to stop when it works.
LEMMA BeginAbortDoes ==
  ASSUME IInv, BeginAbort
  PROVE  LET s == Api.session
         IN  /\ Api.pc = "abort" /\ s \in Sessions /\ ~finishing[s]
             /\ \/ /\ session[s].abort = "NONE" /\ session[s].encoding
                   /\ SetsAborting(s, "INIT", TRUE) /\ SetsPc("api", "abortSend")
                   /\ UNCHANGED <<job_lock, stopped>>
                \/ ~(session[s].abort = "NONE" /\ session[s].encoding) /\ EndsAbort
             /\ UNCHANGED <<omx, finishing, job_queue, ongoing_job_q, p_session_inprogress, owner,
                            stopping, answers>>
             /\ Types'
<1> DEFINE s == Api.session
<1>1. /\ task["api"].pc = "abort" /\ ~finishing[s]
      /\ UNCHANGED <<omx, finishing, job_queue, ongoing_job_q, p_session_inprogress, owner, stopping,
                     answers>>
  BY DEF BeginAbort, Api, queues, clients
<1>2. SessionType /\ OmxType /\ TaskType /\ OtherTypes
  BY DEF IInv, Types
<1>3. "abortSend" \in Pcs /\ "api" \in Threads
  BY DEF Pcs, WithLockApi, Aborting, Threads
<1>4. s \in Sessions
  BY <1>1 DEF Api, WithLockApi, Aborting, IInv, Calls, Holders, AtWork, InCalls
<1>5. CASE session[s].abort = "NONE" /\ session[s].encoding
  <2>1. /\ session' = [session EXCEPT ![s].abort = "INIT", ![s].pending = TRUE]
        /\ Goto("api", "abortSend") /\ UNCHANGED <<job_lock, stopped>>
    BY <1>5 DEF BeginAbort, Api
  <2>2. SessionType' /\ SetsAborting(s, "INIT", TRUE)
    BY <1>2, <1>4, <2>1, SetAborting
  <2>3. TaskType' /\ SetsPc("api", "abortSend")
    BY <1>2, <1>3, <2>1, SetPc
  <2> QED
    BY <1>1, <1>2, <1>4, <1>5, <2>1, <2>2, <2>3 DEF Types, OmxType, OtherTypes, Api
<1>6. CASE ~(session[s].abort = "NONE" /\ session[s].encoding)
  <2>1. session' = [session EXCEPT ![s].abort = "DONE"] /\ Aborted
    BY <1>6 DEF BeginAbort, Api
  <2>2. EndsAbort /\ Types'
    BY <1>1, <2>1, AbortedDoes DEF Aborting, Api
  <2> QED
    BY <1>1, <1>4, <1>6, <2>2 DEF Api
<1> QED
  BY <1>5, <1>6

\* The encoder is told to stop.
LEMMA SendAbortDoes ==
  ASSUME IInv, SendAbort
  PROVE  /\ Api.pc = "abortSend" /\ Api.session \in Sessions
         /\ SetsCmd(Api.session, "Idle") /\ SetsPc("api", "abortWait")
         /\ UNCHANGED <<session, finishing, job_queue, ongoing_job_q, job_lock, p_session_inprogress,
                        owner, stopping, answers, stopped>>
         /\ Types'
<1>1. /\ task["api"].pc = "abortSend" /\ omx' = [omx EXCEPT ![Api.session].cmd = "Idle"]
      /\ Goto("api", "abortWait")
      /\ UNCHANGED <<session, finishing, job_queue, ongoing_job_q, job_lock, p_session_inprogress,
                     owner, stopping, answers, stopped>>
  BY DEF SendAbort, Api, queues, clients, history
<1>2. SessionType /\ OmxType /\ TaskType /\ OtherTypes
  BY DEF IInv, Types
<1>3. "abortWait" \in Pcs /\ "api" \in Threads /\ "Idle" \in EncoderStates
  BY DEF Pcs, WithLockApi, Aborting, Threads, EncoderStates
<1>4. Api.session \in Sessions
  BY <1>1 DEF Api, WithLockApi, Aborting, IInv, Calls, Holders, AtWork, InCalls
<1>5. OmxType' /\ SetsCmd(Api.session, "Idle")
  BY <1>1, <1>2, <1>3, <1>4, SetCmd
<1>6. TaskType' /\ SetsPc("api", "abortWait")
  BY <1>1, <1>2, <1>3, SetPc
<1> QED
  BY <1>1, <1>2, <1>4, <1>5, <1>6 DEF Types, SessionType, OtherTypes, Api

\* The encoder has stopped.
LEMMA EndAbortDoes ==
  ASSUME IInv, EndAbort
  PROVE  /\ Api.pc = "abortWait" /\ Api.session \in Sessions
         /\ session[Api.session].abort # "INIT" /\ ~finishing[Api.session] /\ EndsAbort
         /\ UNCHANGED <<omx, finishing, job_queue, ongoing_job_q, p_session_inprogress, owner, stopping,
                        answers>>
         /\ Types'
<1>1. /\ Api.pc = "abortWait" /\ session[Api.session].abort # "INIT" /\ ~finishing[Api.session]
      /\ session' = [session EXCEPT ![Api.session].abort = "DONE"] /\ Aborted
      /\ UNCHANGED <<omx, finishing, job_queue, ongoing_job_q, p_session_inprogress, owner, stopping,
                     answers>>
  BY DEF EndAbort, Api, queues, clients
<1>2. Api.session \in Sessions
  BY <1>1 DEF WithLockApi, Aborting, IInv, Calls, Holders, AtWork, InCalls
<1>3. EndsAbort /\ Types'
  BY <1>1, AbortedDoes DEF Aborting
<1> QED
  BY <1>1, <1>2, <1>3

\* Two fields of a session's record are set.
LEMMA RecordSet ==
  ASSUME NEW r \in SessionRecord, NEW a \in BOOLEAN, NEW h \in Int
  PROVE  [r EXCEPT !.active = a, !.handles = h] \in SessionRecord
BY DEF SessionRecord

\* What a session and an encoder are when they are made and when they are gone.
LEMMA NewRecords ==
  /\ NoSession \in SessionRecord /\ NoOmx \in OmxRecord
  /\ [NoSession EXCEPT !.active = TRUE, !.handles = 1] \in SessionRecord
  /\ [NoOmx EXCEPT !.state = "Loaded"] \in OmxRecord
<1>1. NoSession \in SessionRecord
  BY DEF NoSession, SessionRecord
<1>2. NoOmx \in OmxRecord
  BY DEF NoOmx, OmxRecord, EncoderStates
<1>3. [NoSession EXCEPT !.active = TRUE, !.handles = 1] \in SessionRecord
  <2>1. TRUE \in BOOLEAN /\ 1 \in Int
    OBVIOUS
  <2> QED
    BY <1>1, <2>1, RecordSet, Zenon
<1>4. [NoOmx EXCEPT !.state = "Loaded"] \in OmxRecord
  BY DEF NoOmx, OmxRecord, EncoderStates
<1> QED
  BY <1>1, <1>2, <1>3, <1>4

\* A session that is made has a handle and nothing else, its encoder is Loaded.
LEMMA NewSession ==
  LET record == [NoSession EXCEPT !.active = TRUE, !.handles = 1]
  IN  /\ record.active /\ ~record.config /\ ~record.error /\ record.abort = "NONE"
      /\ ~record.pending /\ ~record.encoding /\ record.current = 0 /\ record.handles = 1
      /\ [NoOmx EXCEPT !.state = "Loaded"].state = "Loaded"
      /\ [NoOmx EXCEPT !.state = "Loaded"].cmd = "none"
      /\ [NoOmx EXCEPT !.state = "Loaded"].job = 0
      /\ ~[NoOmx EXCEPT !.state = "Loaded"].bufs
BY DEF NoSession, NoOmx

\* A session is freed.
LEMMA FreeSessionDoes ==
  ASSUME IInv, FreeSession
  PROVE  LET s == Api.session
         IN  /\ Api.pc = "free" /\ s \in Sessions
             /\ SetsSession(s, NoSession) /\ SetsOmx(s, NoOmx)
             /\ p_session_inprogress' = IF p_session_inprogress = s THEN None ELSE p_session_inprogress
             /\ SetsTask("api", "idle", None, 0) /\ job_lock' = "free"
             /\ stopping' = stopping \ {s}
             /\ stopped' = stopped \cup {j \in Jobs : owner[j] = s}
             /\ UNCHANGED <<finishing, job_queue, ongoing_job_q, owner, answers>>
             /\ Types'
<1> DEFINE s == Api.session
<1>1. /\ task["api"].pc = "free"
      /\ session' = [session EXCEPT ![s] = NoSession] /\ omx' = [omx EXCEPT ![s] = NoOmx]
      /\ p_session_inprogress' = IF p_session_inprogress = s THEN None ELSE p_session_inprogress
      /\ task' = [task EXCEPT !["api"] = Task("idle", None, 0)] /\ job_lock' = "free"
      /\ stopping' = stopping \ {s}
      /\ stopped' = stopped \cup {j \in Jobs : owner[j] = s}
      /\ UNCHANGED <<finishing, job_queue, ongoing_job_q, owner, answers>>
  BY DEF FreeSession, Return, Idle, Api
<1>2. SessionType /\ OmxType /\ TaskType /\ OtherTypes
  BY DEF IInv, Types
<1>3. "idle" \in Pcs /\ "api" \in Threads
  BY DEF Pcs, Threads
<1>4. s \in Sessions
  BY <1>1 DEF Api, WithLockApi, Freeing, IInv, Calls, Holders, AtWork, InCalls
<1>5. SessionType' /\ SetsSession(s, NoSession)
  BY <1>1, <1>2, <1>4, NewRecords, SetSession
<1>6. OmxType' /\ SetsOmx(s, NoOmx)
  BY <1>1, <1>2, <1>4, NewRecords, SetOmx
<1>7. TaskType' /\ SetsTask("api", "idle", None, 0)
  BY <1>1, <1>2, <1>3, SetTask
<1>8. OtherTypes'
  <2>1. p_session_inprogress' \in Sessions \cup {None}
    BY <1>1, <1>2 DEF OtherTypes
  <2>2. stopping' \subseteq Sessions /\ stopped' \subseteq Jobs
    BY <1>1, <1>2 DEF OtherTypes
  <2> QED
    BY <1>1, <1>2, <2>1, <2>2 DEF OtherTypes
<1> QED
  BY <1>1, <1>4, <1>5, <1>6, <1>7, <1>8 DEF Types, Api

\* The call that closes the last client has seen the manager leave.
LEMMA JoinDoes ==
  ASSUME IInv, Join
  PROVE  /\ Api.pc = "join" /\ Mgr.pc = "gone" /\ SetsPc("api", "closed")
         /\ UNCHANGED <<session, omx, finishing, job_queue, ongoing_job_q, job_lock, p_session_inprogress,
                        owner, stopping, answers, stopped>>
         /\ Types'
<1>1. /\ Api.pc = "join" /\ Mgr.pc = "gone" /\ Goto("api", "closed")
      /\ UNCHANGED <<session, omx, finishing, job_queue, ongoing_job_q, job_lock, p_session_inprogress,
                     owner, stopping, answers, stopped>>
  BY DEF Join, Api, Mgr, queues, clients, history
<1>2. "closed" \in Pcs /\ "api" \in Threads
  BY DEF Pcs, Threads
<1>3. TaskType' /\ SetsPc("api", "closed")
  BY <1>1, <1>2, SetPc DEF IInv, Types
<1> QED
  BY <1>1, <1>3 DEF IInv, Types, SessionType, OmxType, OtherTypes

\* The encoder hands the output of its job back.
LEMMA EncoderDoneDoes ==
  ASSUME IInv, NEW s \in Sessions, EncoderDone(s)
  PROVE  /\ omx[s].job # 0 /\ ~finishing[s] /\ SetsJob(s, 0)
         /\ \/ session[s].abort # "NONE" /\ UNCHANGED <<finishing, ongoing_job_q, answers>>
            \/ session[s].abort = "NONE" /\ SaysEnd(s) /\ finishing' = [finishing EXCEPT ![s] = TRUE]
         /\ UNCHANGED <<session, job_queue, job_lock, p_session_inprogress, task, owner, stopping, stopped>>
         /\ Types'
<1>1. /\ omx[s].job # 0 /\ ~finishing[s] /\ omx' = [omx EXCEPT ![s].job = 0]
      /\ \/ session[s].abort # "NONE" /\ UNCHANGED <<finishing, ongoing_job_q, answers>>
         \/ session[s].abort = "NONE" /\ SaysEnd(s) /\ finishing' = [finishing EXCEPT ![s] = TRUE]
      /\ UNCHANGED <<session, job_queue, job_lock, p_session_inprogress, task, owner, stopping, stopped>>
  BY DEF EncoderDone, Fbd, CallBack, SaysEnd, clients
<1>2. SessionType /\ OmxType /\ TaskType /\ OtherTypes
  BY DEF IInv, Types
<1>3. OmxType' /\ SetsJob(s, 0)
  BY <1>1, <1>2, SetJob
<1>4. finishing' \in [Sessions -> BOOLEAN]
  BY <1>1, <1>2 DEF OtherTypes
<1>5. OtherTypes'
  BY <1>1, <1>2, <1>4, SaysEndTypes DEF OtherTypes
<1> QED
  BY <1>1, <1>2, <1>3, <1>5 DEF Types, SessionType, TaskType

\* The encoder reports an error.
LEMMA EncoderErrorDoes ==
  ASSUME IInv, NEW s \in Sessions, EncoderError(s)
  PROVE  /\ omx[s].job # 0 /\ ~finishing[s] /\ SetsJob(s, 0)
         /\ \/ /\ session[s].abort = "INIT" /\ SetsAbort(s, "DONE")
               /\ UNCHANGED <<finishing, ongoing_job_q, answers>>
            \/ /\ session[s].abort # "INIT" /\ SetsError(s, TRUE)
               /\ \/ session[s].encoding /\ SaysEnd(s) /\ finishing' = [finishing EXCEPT ![s] = TRUE]
                  \/ ~session[s].encoding /\ UNCHANGED <<finishing, ongoing_job_q, answers>>
         /\ UNCHANGED <<job_queue, job_lock, p_session_inprogress, task, owner, stopping, stopped>>
         /\ Types'
<1>1. /\ omx[s].job # 0 /\ ~finishing[s] /\ omx' = [omx EXCEPT ![s].job = 0]
      /\ UNCHANGED <<job_queue, job_lock, p_session_inprogress, task, owner, stopping, stopped>>
  BY DEF EncoderError, clients
<1>2. SessionType /\ OmxType /\ TaskType /\ OtherTypes
  BY DEF IInv, Types
<1>3. OmxType' /\ SetsJob(s, 0)
  BY <1>1, <1>2, SetJob
<1>4. CASE session[s].abort = "INIT"
  <2>1. /\ session' = [session EXCEPT ![s].abort = "DONE"]
        /\ UNCHANGED <<finishing, ongoing_job_q, answers>>
    BY <1>4 DEF EncoderError
  <2>2. SessionType' /\ SetsAbort(s, "DONE")
    BY <1>2, <2>1, SetAbort
  <2> QED
    BY <1>1, <1>2, <1>3, <1>4, <2>1, <2>2 DEF Types, TaskType, OtherTypes
<1>5. CASE session[s].abort # "INIT"
  <2>1. /\ session' = [session EXCEPT ![s].error = TRUE]
        /\ \/ session[s].encoding /\ SaysEnd(s) /\ finishing' = [finishing EXCEPT ![s] = TRUE]
           \/ ~session[s].encoding /\ UNCHANGED <<finishing, ongoing_job_q, answers>>
    BY <1>5 DEF EncoderError, CallBack, SaysEnd
  <2>2. SessionType' /\ SetsError(s, TRUE)
    BY <1>2, <2>1, SetError
  <2>3. finishing' \in [Sessions -> BOOLEAN]
    BY <1>2, <2>1 DEF OtherTypes
  <2>4. OtherTypes'
    BY <1>1, <1>2, <2>1, <2>3, SaysEndTypes DEF OtherTypes
  <2> QED
    BY <1>1, <1>2, <1>3, <1>5, <2>1, <2>2, <2>4 DEF Types, TaskType
<1> QED
  BY <1>4, <1>5

\* The encoder has taken the state it was told to take.
LEMMA EncoderChangesDoes ==
  ASSUME IInv, NEW s \in Sessions, EncoderChanges(s)
  PROVE  /\ omx[s].cmd # "none" /\ omx[s].job = 0 /\ ~finishing[s]
         /\ omx[s].cmd = "Loaded" => ~omx[s].bufs
         /\ omx[s].cmd = "Idle" /\ omx[s].state = "Loaded" => omx[s].bufs
         /\ SetsState(s, omx[s].cmd, "none")
         /\ \/ session[s].abort = "INIT" /\ SetsAbort(s, "DONE")
            \/ session[s].abort # "INIT" /\ SetsPending(s, FALSE)
         /\ UNCHANGED <<finishing, job_queue, ongoing_job_q, job_lock, p_session_inprogress, task, owner,
                        stopping, answers, stopped>>
         /\ Types'
<1>1. /\ omx[s].cmd # "none" /\ omx[s].job = 0 /\ ~finishing[s]
      /\ omx[s].cmd = "Loaded" => ~omx[s].bufs
      /\ omx[s].cmd = "Idle" /\ omx[s].state = "Loaded" => omx[s].bufs
      /\ omx' = [omx EXCEPT ![s].state = omx[s].cmd, ![s].cmd = "none"]
      /\ UNCHANGED <<finishing, job_queue, ongoing_job_q, job_lock, p_session_inprogress, task, owner,
                     stopping, answers, stopped>>
  BY DEF EncoderChanges, queues, clients, history
<1>2. SessionType /\ OmxType /\ TaskType /\ OtherTypes
  BY DEF IInv, Types
<1>3. OmxType' /\ SetsState(s, omx[s].cmd, "none")
  <2>1. omx[s].cmd \in EncoderStates /\ "none" \in EncoderStates
    BY <1>2 DEF OmxType, OmxRecord, EncoderStates
  <2> QED
    BY <1>1, <1>2, <2>1, SetState
<1>4. OtherTypes'
  BY <1>1, <1>2 DEF OtherTypes
<1>5. CASE session[s].abort = "INIT"
  <2>1. session' = [session EXCEPT ![s].abort = "DONE"]
    BY <1>5 DEF EncoderChanges, CmdComplete
  <2>2. SessionType' /\ SetsAbort(s, "DONE")
    BY <1>2, <2>1, SetAbort
  <2> QED
    BY <1>1, <1>2, <1>3, <1>4, <1>5, <2>2 DEF Types, TaskType
<1>6. CASE session[s].abort # "INIT"
  <2>1. session' = [session EXCEPT ![s].pending = FALSE]
    BY <1>6 DEF EncoderChanges, CmdComplete
  <2>2. SessionType' /\ SetsPending(s, FALSE)
    BY <1>2, <2>1, SetPending
  <2> QED
    BY <1>1, <1>2, <1>3, <1>4, <1>6, <2>2 DEF Types, TaskType
<1> QED
  BY <1>5, <1>6

\* The callback gives the handle back.
LEMMA FinishJobDoes ==
  ASSUME IInv, NEW s \in Sessions, FinishJob(s)
  PROVE  /\ finishing[s] /\ finishing' = [finishing EXCEPT ![s] = FALSE]
         /\ SetsReturned(s, FALSE, session[s].handles + 1)
         /\ UNCHANGED <<omx, job_queue, ongoing_job_q, job_lock, p_session_inprogress, task, owner,
                        stopping, answers, stopped>>
         /\ Types'
<1>1. /\ finishing[s] /\ finishing' = [finishing EXCEPT ![s] = FALSE]
      /\ session' = [session EXCEPT ![s].encoding = FALSE, ![s].handles = @ + 1]
      /\ UNCHANGED <<omx, job_queue, ongoing_job_q, job_lock, p_session_inprogress, task, owner,
                     stopping, answers, stopped>>
  BY DEF FinishJob, ReturnHandle, clients, history
<1>2. SessionType /\ OmxType /\ TaskType /\ OtherTypes
  BY DEF IInv, Types
<1>3. SessionType' /\ SetsReturned(s, FALSE, session[s].handles + 1)
  <2>1. session[s].handles + 1 \in Int
    BY <1>2 DEF SessionType, SessionRecord
  <2>2. session' = [session EXCEPT ![s].encoding = FALSE, ![s].handles = session[s].handles + 1]
    BY <1>1, <1>2 DEF SessionType
  <2> QED
    BY <1>2, <2>1, <2>2, SetReturned
<1>4. finishing' \in [Sessions -> BOOLEAN]
  BY <1>1, <1>2 DEF OtherTypes
<1>5. OtherTypes'
  BY <1>1, <1>2, <1>4 DEF OtherTypes
<1> QED
  BY <1>1, <1>2, <1>3, <1>5 DEF Types, OmxType, TaskType

\* A client that calls is in no other call.
LEMMA CallDoes ==
  ASSUME IInv, NEW pc \in Pcs, NEW s \in Sessions \cup {None}, NEW j \in Jobs \cup {0}, Call(pc, s, j)
  PROVE  /\ Api.pc = "idle" /\ Api.session = None /\ Api.job = 0 /\ Api.phase = "start"
         /\ SetsTask("api", pc, s, j) /\ TaskType'
<1>1. task["api"] = Task("idle", None, 0) /\ task' = [task EXCEPT !["api"] = Task(pc, s, j)]
  BY DEF Call, Idle
<1>2. TaskType /\ "api" \in Threads
  BY DEF IInv, Types, Threads
<1>3. SetsTask("api", pc, s, j) /\ TaskType'
  BY <1>1, <1>2, SetTask
<1>4. Api.pc = "idle" /\ Api.session = None /\ Api.job = 0 /\ Api.phase = "start"
  BY <1>1 DEF Api, Task
<1> QED
  BY <1>3, <1>4

\* A session is created.
LEMMA CreateSessionDoes ==
  ASSUME IInv, NEW s \in Sessions, CreateSession(s)
  PROVE  /\ ~session[s].active /\ Api.pc = "idle" /\ Api.session = None
         /\ SetsTask("api", "create", s, 0)
         /\ SetsSession(s, [NoSession EXCEPT !.active = TRUE, !.handles = 1])
         /\ SetsOmx(s, [NoOmx EXCEPT !.state = "Loaded"])
         /\ UNCHANGED <<finishing, job_queue, ongoing_job_q, job_lock, p_session_inprogress, owner,
                        stopping, answers, stopped>>
         /\ Types'
<1>1. /\ ~session[s].active /\ Call("create", s, 0)
      /\ session' = [session EXCEPT ![s] = [NoSession EXCEPT !.active = TRUE, !.handles = 1]]
      /\ omx' = [omx EXCEPT ![s] = [NoOmx EXCEPT !.state = "Loaded"]]
      /\ UNCHANGED <<finishing, job_queue, ongoing_job_q, job_lock, p_session_inprogress, owner,
                     stopping, answers, stopped>>
  BY DEF CreateSession, queues, history
<1>2. SessionType /\ OmxType /\ TaskType /\ OtherTypes
  BY DEF IInv, Types
<1>3. "create" \in Pcs
  BY DEF Pcs
<1>4. Api.pc = "idle" /\ Api.session = None /\ SetsTask("api", "create", s, 0) /\ TaskType'
  BY <1>1, <1>3, CallDoes
<1>5. SessionType' /\ SetsSession(s, [NoSession EXCEPT !.active = TRUE, !.handles = 1])
  BY <1>1, <1>2, NewRecords, SetSession
<1>6. OmxType' /\ SetsOmx(s, [NoOmx EXCEPT !.state = "Loaded"])
  BY <1>1, <1>2, NewRecords, SetOmx
<1> QED
  BY <1>1, <1>2, <1>4, <1>5, <1>6 DEF Types, OtherTypes

\* A client begins to stop.
LEMMA StopSessionDoes ==
  ASSUME IInv, NEW s \in Sessions, StopSession(s)
  PROVE  /\ session[s].active /\ stopping' = stopping \cup {s}
         /\ UNCHANGED <<session, omx, finishing, job_queue, ongoing_job_q, job_lock,
                        p_session_inprogress, task, owner, answers, stopped>>
         /\ Types'
BY DEF IInv, Types, SessionType, OmxType, TaskType, OtherTypes, StopSession, queues, history

\* A session is to be destroyed.
LEMMA DestroySessionDoes ==
  ASSUME IInv, NEW s \in Sessions, DestroySession(s)
  PROVE  /\ s \in stopping /\ Api.pc = "idle" /\ Api.session = None
         /\ SetsTask("api", "destroy", s, 0)
         /\ UNCHANGED <<session, omx, finishing, job_queue, ongoing_job_q, job_lock,
                        p_session_inprogress, owner, stopping, answers, stopped>>
         /\ Types'
<1>1. /\ s \in stopping /\ Call("destroy", s, 0)
      /\ UNCHANGED <<session, omx, finishing, job_queue, ongoing_job_q, job_lock,
                     p_session_inprogress, owner, stopping, answers, stopped>>
  BY DEF DestroySession, queues, clients, history
<1>2. "destroy" \in Pcs
  BY DEF Pcs
<1>3. Api.pc = "idle" /\ Api.session = None /\ SetsTask("api", "destroy", s, 0) /\ TaskType'
  BY <1>1, <1>2, CallDoes
<1> QED
  BY <1>1, <1>3 DEF IInv, Types, SessionType, OmxType, OtherTypes

\* A job is started.
LEMMA StartJobDoes ==
  ASSUME IInv, NEW s \in Sessions, NEW j \in Jobs, StartJob(s, j)
  PROVE  /\ Api.pc = "idle" /\ Api.session = None
         /\ session[s].active /\ s \notin stopping /\ owner[j] = None
         /\ owner' = [owner EXCEPT ![j] = s] /\ job_queue' = job_queue \cup {j}
         /\ UNCHANGED <<session, omx, finishing, ongoing_job_q, job_lock, p_session_inprogress, task,
                        stopping, answers, stopped>>
         /\ Types'
<1>1. /\ task["api"] = Task("idle", None, 0) /\ session[s].active /\ s \notin stopping
      /\ owner[j] = None /\ owner' = [owner EXCEPT ![j] = s] /\ job_queue' = job_queue \cup {j}
      /\ UNCHANGED <<session, omx, finishing, ongoing_job_q, job_lock, p_session_inprogress, task,
                     stopping, answers, stopped>>
  BY DEF StartJob, Idle, history, Jobs
<1>2. Api.pc = "idle" /\ Api.session = None
  BY <1>1 DEF Api, Task
<1>3. SessionType /\ OmxType /\ TaskType /\ OtherTypes
  BY DEF IInv, Types
<1>4. OtherTypes'
  BY <1>1, <1>3 DEF OtherTypes
<1> QED
  BY <1>1, <1>2, <1>3, <1>4 DEF Types, SessionType, OmxType, TaskType

\* A client that stops aborts a job.
LEMMA AbortJobDoes ==
  ASSUME IInv, NEW j \in Jobs, AbortJob(j)
  PROVE  /\ owner[j] \in stopping /\ j \notin stopped /\ answers[j] = 0
         /\ Api.pc = "idle" /\ Api.session = None
         /\ SetsTask("api", "abortJob", owner[j], j)
         /\ UNCHANGED <<session, omx, finishing, job_queue, ongoing_job_q, job_lock,
                        p_session_inprogress, owner, stopping, answers, stopped>>
         /\ Types'
<1>1. /\ owner[j] \in stopping /\ j \notin stopped /\ answers[j] = 0 /\ Call("abortJob", owner[j], j)
      /\ UNCHANGED <<session, omx, finishing, job_queue, ongoing_job_q, job_lock,
                     p_session_inprogress, owner, stopping, answers, stopped>>
  BY DEF AbortJob, queues, clients, history
<1>2. "abortJob" \in Pcs /\ owner[j] \in Sessions \cup {None} /\ j \in Jobs \cup {0}
  BY DEF Pcs, IInv, Types, OtherTypes
<1>3. Api.pc = "idle" /\ Api.session = None /\ SetsTask("api", "abortJob", owner[j], j) /\ TaskType'
  BY <1>1, <1>2, CallDoes
<1> QED
  BY <1>1, <1>3 DEF IInv, Types, SessionType, OmxType, OtherTypes

\* The last client closes.
LEMMA ReleaseDoes ==
  ASSUME IInv, Release
  PROVE  /\ \A s \in Sessions : ~session[s].active
         /\ Api.pc = "idle" /\ Api.session = None
         /\ SetsTask("api", "join", None, 0) /\ job_queue' = job_queue \cup {Exit}
         /\ UNCHANGED <<session, omx, finishing, ongoing_job_q, job_lock, p_session_inprogress, owner,
                        stopping, answers, stopped>>
         /\ Types'
<1>1. /\ \A s \in Sessions : ~session[s].active
      /\ Call("join", None, 0) /\ job_queue' = job_queue \cup {Exit}
      /\ UNCHANGED <<session, omx, finishing, ongoing_job_q, job_lock, p_session_inprogress, owner,
                     stopping, answers, stopped>>
  BY DEF Release, clients, history
<1>2. "join" \in Pcs
  BY DEF Pcs
<1>3. Api.pc = "idle" /\ Api.session = None /\ SetsTask("api", "join", None, 0) /\ TaskType'
  BY <1>1, <1>2, CallDoes
<1> QED
  BY <1>1, <1>3 DEF IInv, Types, SessionType, OmxType, OtherTypes

-----------------------------------------------------------------------------
(* The changes of an encoder's state, step by step.                        *)

\* A change at pc: it is asked for or not, the encoder is told the state to
\* take, gets bufs, and at the end the thread is at next; or there was an error.
Moves(th, s, pc, asks, cmd, bufs, next, error) ==
  /\ task[th].pc = pc
  /\ \A r \in Sessions \ {s} : session'[r] = session[r] /\ omx'[r] = omx[r]
  /\ omx'[s].state = omx[s].state /\ omx'[s].job = omx[s].job
  /\ \/ /\ task[th].phase = "start" /\ asks
        /\ task'[th].pc = pc /\ task'[th].phase = "sent"
        /\ session'[s].pending /\ omx'[s].cmd = cmd /\ omx'[s].bufs = omx[s].bufs
     \/ /\ task[th].phase = "start" /\ ~asks
        /\ task'[th].pc = next /\ task'[th].phase = "start"
        /\ session'[s] = session[s] /\ omx'[s] = omx[s]
     \/ /\ task[th].phase = "sent" /\ session[s].error
        /\ task'[th].pc = error /\ task'[th].phase = "start"
        /\ session'[s] = session[s] /\ omx'[s] = omx[s]
     \/ /\ task[th].phase = "sent" /\ ~session[s].error
        /\ task'[th].pc = pc /\ task'[th].phase = "waiting"
        /\ session'[s] = session[s] /\ omx'[s].cmd = omx[s].cmd /\ omx'[s].bufs = bufs
     \/ /\ task[th].phase = "waiting" /\ ~session[s].pending
        /\ task'[th].pc = next /\ task'[th].phase = "start"
        /\ session'[s] = session[s] /\ omx'[s] = omx[s]

\* The encoder in progress is brought to Idle.
LEMMA IdleOtherMoves ==
  ASSUME IInv, NEW th \in Threads, task[th].pc = "idleOther",
         SendCommand(th) \/ CheckCommand(th) \/ EndCommand(th)
  PROVE  LET s == Changed(th)
         IN  Moves(th, s, "idleOther", omx[s].state = "Executing", "Idle", omx[s].bufs, "loadOther", "failed")
<1> DEFINE s == Changed(th)
<1>1. CASE SendCommand(th)
  <2>1. Asked("idleOther", omx[s].state) <=> omx[s].state = "Executing"
    BY TargetNames DEF Asked
  <2>2. CASE Asked("idleOther", omx[s].state)
    <3>1. /\ task[th].phase = "start" /\ SetsPending(s, TRUE)
          /\ SetsCmd(s, "Idle") /\ SetsPhase(th, "sent")
      BY <1>1, <2>2, SendCommandDoes, TargetNames
    <3>2. session'[s].pending
      BY <3>1 DEF SetsPending
    <3> QED
      BY <2>1, <2>2, <3>1, <3>2 DEF Moves, SetsPending, SetsCmd, SetsPhase
  <2>3. CASE ~Asked("idleOther", omx[s].state)
    BY <1>1, <2>1, <2>3, SendCommandDoes, AfterNames DEF Moves, SetsPc
  <2> QED
    BY <2>2, <2>3
<1>2. CASE CheckCommand(th)
  BY <1>2, CheckCommandDoes, AfterNames DEF Moves, AfterError, SetsBufs, SetsPhase, SetsPc
<1>3. CASE EndCommand(th)
  BY <1>3, EndCommandDoes, AfterNames DEF Moves, SetsPc
<1> QED
  BY <1>1, <1>2, <1>3

\* The encoder in progress is brought to Loaded.
LEMMA LoadOtherMoves ==
  ASSUME IInv, NEW th \in Threads, task[th].pc = "loadOther",
         SendCommand(th) \/ CheckCommand(th) \/ EndCommand(th)
  PROVE  LET s == Changed(th)
         IN  Moves(th, s, "loadOther", omx[s].state = "Idle", "Loaded", FALSE, "forget", "failed")
<1> DEFINE s == Changed(th)
<1>1. CASE SendCommand(th)
  <2>1. Asked("loadOther", omx[s].state) <=> omx[s].state = "Idle"
    BY TargetNames DEF Asked
  <2>2. CASE Asked("loadOther", omx[s].state)
    <3>1. /\ task[th].phase = "start" /\ SetsPending(s, TRUE)
          /\ SetsCmd(s, "Loaded") /\ SetsPhase(th, "sent")
      BY <1>1, <2>2, SendCommandDoes, TargetNames
    <3>2. session'[s].pending
      BY <3>1 DEF SetsPending
    <3> QED
      BY <2>1, <2>2, <3>1, <3>2 DEF Moves, SetsPending, SetsCmd, SetsPhase
  <2>3. CASE ~Asked("loadOther", omx[s].state)
    BY <1>1, <2>1, <2>3, SendCommandDoes, AfterNames DEF Moves, SetsPc
  <2> QED
    BY <2>2, <2>3
<1>2. CASE CheckCommand(th)
  BY <1>2, CheckCommandDoes, AfterNames DEF Moves, AfterError, SetsBufs, SetsPhase, SetsPc
<1>3. CASE EndCommand(th)
  BY <1>3, EndCommandDoes, AfterNames DEF Moves, SetsPc
<1> QED
  BY <1>1, <1>2, <1>3

\* The encoder of the session is brought to Idle.
LEMMA ToIdleMoves ==
  ASSUME IInv, NEW th \in Threads, task[th].pc = "toIdle",
         SendCommand(th) \/ CheckCommand(th) \/ EndCommand(th)
  PROVE  LET s == Changed(th)
         IN  Moves(th, s, "toIdle", omx[s].state # "Idle", "Idle", TRUE, "toExec", "failed")
<1> DEFINE s == Changed(th)
<1>1. CASE SendCommand(th)
  <2>1. Asked("toIdle", omx[s].state) <=> omx[s].state # "Idle"
    BY TargetNames DEF Asked
  <2>2. CASE Asked("toIdle", omx[s].state)
    <3>1. /\ task[th].phase = "start" /\ SetsPending(s, TRUE)
          /\ SetsCmd(s, "Idle") /\ SetsPhase(th, "sent")
      BY <1>1, <2>2, SendCommandDoes, TargetNames
    <3>2. session'[s].pending
      BY <3>1 DEF SetsPending
    <3> QED
      BY <2>1, <2>2, <3>1, <3>2 DEF Moves, SetsPending, SetsCmd, SetsPhase
  <2>3. CASE ~Asked("toIdle", omx[s].state)
    BY <1>1, <2>1, <2>3, SendCommandDoes, AfterNames DEF Moves, SetsPc
  <2> QED
    BY <2>2, <2>3
<1>2. CASE CheckCommand(th)
  BY <1>2, CheckCommandDoes, AfterNames DEF Moves, AfterError, SetsBufs, SetsPhase, SetsPc
<1>3. CASE EndCommand(th)
  BY <1>3, EndCommandDoes, AfterNames DEF Moves, SetsPc
<1> QED
  BY <1>1, <1>2, <1>3

\* The encoder of the session is brought to Executing.
LEMMA ToExecMoves ==
  ASSUME IInv, NEW th \in Threads, task[th].pc = "toExec",
         SendCommand(th) \/ CheckCommand(th) \/ EndCommand(th)
  PROVE  LET s == Changed(th)
         IN  Moves(th, s, "toExec", omx[s].state # "Executing", "Executing", omx[s].bufs, "configured", "failed")
<1> DEFINE s == Changed(th)
<1>1. CASE SendCommand(th)
  <2>1. Asked("toExec", omx[s].state) <=> omx[s].state # "Executing"
    BY TargetNames DEF Asked
  <2>2. CASE Asked("toExec", omx[s].state)
    <3>1. /\ task[th].phase = "start" /\ SetsPending(s, TRUE)
          /\ SetsCmd(s, "Executing") /\ SetsPhase(th, "sent")
      BY <1>1, <2>2, SendCommandDoes, TargetNames
    <3>2. session'[s].pending
      BY <3>1 DEF SetsPending
    <3> QED
      BY <2>1, <2>2, <3>1, <3>2 DEF Moves, SetsPending, SetsCmd, SetsPhase
  <2>3. CASE ~Asked("toExec", omx[s].state)
    BY <1>1, <2>1, <2>3, SendCommandDoes, AfterNames DEF Moves, SetsPc
  <2> QED
    BY <2>2, <2>3
<1>2. CASE CheckCommand(th)
  BY <1>2, CheckCommandDoes, AfterNames DEF Moves, AfterError, SetsBufs, SetsPhase, SetsPc
<1>3. CASE EndCommand(th)
  BY <1>3, EndCommandDoes, AfterNames DEF Moves, SetsPc
<1> QED
  BY <1>1, <1>2, <1>3

\* The encoder of a session that is destroyed is brought to Idle.
LEMMA IdleSelfMoves ==
  ASSUME IInv, NEW th \in Threads, task[th].pc = "idleSelf",
         SendCommand(th) \/ CheckCommand(th) \/ EndCommand(th)
  PROVE  LET s == Changed(th)
         IN  Moves(th, s, "idleSelf", omx[s].state = "Executing", "Idle", omx[s].bufs, "loadSelf", "loadSelf")
<1> DEFINE s == Changed(th)
<1>1. CASE SendCommand(th)
  <2>1. Asked("idleSelf", omx[s].state) <=> omx[s].state = "Executing"
    BY TargetNames DEF Asked
  <2>2. CASE Asked("idleSelf", omx[s].state)
    <3>1. /\ task[th].phase = "start" /\ SetsPending(s, TRUE)
          /\ SetsCmd(s, "Idle") /\ SetsPhase(th, "sent")
      BY <1>1, <2>2, SendCommandDoes, TargetNames
    <3>2. session'[s].pending
      BY <3>1 DEF SetsPending
    <3> QED
      BY <2>1, <2>2, <3>1, <3>2 DEF Moves, SetsPending, SetsCmd, SetsPhase
  <2>3. CASE ~Asked("idleSelf", omx[s].state)
    BY <1>1, <2>1, <2>3, SendCommandDoes, AfterNames DEF Moves, SetsPc
  <2> QED
    BY <2>2, <2>3
<1>2. CASE CheckCommand(th)
  <2>1. CASE session[s].error /\ SetsPc(th, AfterError(task[th].pc)) /\ UNCHANGED omx
    <3>1. AfterError(task[th].pc) = "loadSelf"
      BY AfterNames DEF AfterError
    <3>2. task[th].phase = "sent" /\ UNCHANGED session
      BY <1>2, CheckCommandDoes
    <3> QED
      BY <2>1, <3>1, <3>2 DEF Moves, SetsPc
  <2>2. CASE ~session[s].error /\ SetsPhase(th, "waiting")
    BY <1>2, <2>2, CheckCommandDoes DEF Moves, SetsBufs, SetsPhase
  <2> QED
    BY <1>2, <2>1, <2>2, CheckCommandDoes
<1>3. CASE EndCommand(th)
  BY <1>3, EndCommandDoes, AfterNames DEF Moves, SetsPc
<1> QED
  BY <1>1, <1>2, <1>3

\* The encoder of a session that is destroyed is brought to Loaded.
LEMMA LoadSelfMoves ==
  ASSUME IInv, NEW th \in Threads, task[th].pc = "loadSelf",
         SendCommand(th) \/ CheckCommand(th) \/ EndCommand(th)
  PROVE  LET s == Changed(th)
         IN  Moves(th, s, "loadSelf", omx[s].state = "Idle", "Loaded", FALSE, "free", "free")
<1> DEFINE s == Changed(th)
<1>1. CASE SendCommand(th)
  <2>1. Asked("loadSelf", omx[s].state) <=> omx[s].state = "Idle"
    BY TargetNames DEF Asked
  <2>2. CASE Asked("loadSelf", omx[s].state)
    <3>1. /\ task[th].phase = "start" /\ SetsPending(s, TRUE)
          /\ SetsCmd(s, "Loaded") /\ SetsPhase(th, "sent")
      BY <1>1, <2>2, SendCommandDoes, TargetNames
    <3>2. session'[s].pending
      BY <3>1 DEF SetsPending
    <3> QED
      BY <2>1, <2>2, <3>1, <3>2 DEF Moves, SetsPending, SetsCmd, SetsPhase
  <2>3. CASE ~Asked("loadSelf", omx[s].state)
    BY <1>1, <2>1, <2>3, SendCommandDoes, AfterNames DEF Moves, SetsPc
  <2> QED
    BY <2>2, <2>3
<1>2. CASE CheckCommand(th)
  <2>1. CASE session[s].error /\ SetsPc(th, AfterError(task[th].pc)) /\ UNCHANGED omx
    <3>1. AfterError(task[th].pc) = "free"
      BY AfterNames DEF AfterError
    <3>2. task[th].phase = "sent" /\ UNCHANGED session
      BY <1>2, CheckCommandDoes
    <3> QED
      BY <2>1, <3>1, <3>2 DEF Moves, SetsPc
  <2>2. CASE ~session[s].error /\ SetsPhase(th, "waiting")
    BY <1>2, <2>2, CheckCommandDoes DEF Moves, SetsBufs, SetsPhase
  <2> QED
    BY <1>2, <2>1, <2>2, CheckCommandDoes
<1>3. CASE EndCommand(th)
  BY <1>3, EndCommandDoes, AfterNames DEF Moves, SetsPc
<1> QED
  BY <1>1, <1>2, <1>3

-----------------------------------------------------------------------------
(* The lock and the threads.                                               *)

\* A thread that changes an encoder keeps the lock of the jobs.
LEMMA ChangeKeepsLock ==
  ASSUME NEW pc \in Changing
  PROVE  /\ pc \in WithLockMgr => After[pc] \in WithLockMgr /\ AfterError(pc) \in WithLockMgr
         /\ pc \in WithLockApi => After[pc] \in WithLockApi /\ AfterError(pc) \in WithLockApi
         /\ pc \in WithLockMgr \cup WithLockApi
<1>1. CASE pc \in {"idleOther", "loadOther"}
  BY <1>1, AfterNames DEF AfterError, WithLockMgr, WithLockApi, Configuring, Aborting, Freeing
<1>2. CASE pc \in {"toIdle", "toExec"}
  BY <1>2, AfterNames DEF AfterError, WithLockMgr, WithLockApi, Configuring
<1>3. CASE pc \in {"idleSelf", "loadSelf"}
  BY <1>3, AfterNames DEF AfterError, WithLockMgr, WithLockApi, Configuring, Aborting, Freeing
<1> QED
  BY <1>1, <1>2, <1>3, ChangingNames

\* A step of the manager under the lock leaves the lock where it is.
LEMMA ManagerGoesOn ==
  ASSUME Holders, Mgr.pc \in WithLockMgr, NEW pc \in WithLockMgr, SetsPc("mgr", pc), UNCHANGED job_lock
  PROVE  Holders'
<1>1. Mgr'.pc = pc /\ Mgr'.phase = "start" /\ Api' = Api
  BY DEF Mgr, Api, Threads, SetsPc
<1> QED
  BY <1>1 DEF Holders

\* A step that moves neither thread leaves the lock where it is.
LEMMA LockAndTasksKept ==
  ASSUME Holders, UNCHANGED <<task, job_lock>>
  PROVE  Holders'
BY DEF Holders, Mgr, Api

\* Every step keeps the lock with the thread that is at work.
LEMMA HoldersStep ==
  ASSUME IInv, [Next]_vars
  PROVE  Holders'
<1>1. ASSUME NEW th \in Threads, SendCommand(th)
      PROVE  Holders'
  <2>1. Holders /\ th \in Threads
    BY <1>1 DEF IInv, Calls
  <2>2. UNCHANGED job_lock /\ task[th].pc \in Changing
    BY <1>1, SendCommandDoes
  <2>3. \/ task'[th].pc = task[th].pc
        \/ /\ task'[th].pc \in {After[task[th].pc], AfterError(task[th].pc)}
           /\ task'[th].phase = "start"
    BY <1>1, SendCommandDoes DEF SetsPc, SetsPhase
  <2>4. \A o \in Threads \ {th} : task'[o] = task[o]
    BY <1>1, SendCommandDoes DEF SetsPc, SetsPhase
  <2>5. CASE th = "mgr"
    <3>1. Api' = Api
      BY <2>4, <2>5 DEF Api, Threads
    <3>2. Mgr.pc \in WithLockMgr
      BY <2>1, <2>2, <2>5, ChangingNames DEF Holders, Mgr, WithLockMgr
    <3>3. Mgr'.pc \in WithLockMgr /\ (Mgr'.phase # "start" => Mgr'.pc \in Changing)
      BY <2>2, <2>3, <2>5, <3>2, ChangeKeepsLock DEF Mgr
    <3> QED
      BY <2>1, <2>2, <3>1, <3>2, <3>3 DEF Holders
  <2>6. CASE th = "api"
    <3>1. Mgr' = Mgr
      BY <2>4, <2>6 DEF Mgr, Threads
    <3>2. Api.pc \in WithLockApi
      BY <2>1, <2>2, <2>6, ChangingNames DEF Holders, Api, WithLockApi, Configuring, Freeing
    <3>3. Api'.pc \in WithLockApi /\ (Api'.phase # "start" => Api'.pc \in Changing)
      BY <2>2, <2>3, <2>6, <3>2, ChangeKeepsLock DEF Api
    <3> QED
      BY <2>1, <2>2, <3>1, <3>2, <3>3 DEF Holders
  <2> QED
    BY <2>1, <2>5, <2>6 DEF Threads
<1>2. ASSUME NEW th \in Threads, CheckCommand(th)
      PROVE  Holders'
  <2>1. Holders /\ th \in Threads
    BY <1>2 DEF IInv, Calls
  <2>2. UNCHANGED job_lock /\ task[th].pc \in Changing
    BY <1>2, CheckCommandDoes
  <2>3. \/ task'[th].pc = task[th].pc
        \/ /\ task'[th].pc \in {After[task[th].pc], AfterError(task[th].pc)}
           /\ task'[th].phase = "start"
    BY <1>2, CheckCommandDoes DEF SetsPc, SetsPhase
  <2>4. \A o \in Threads \ {th} : task'[o] = task[o]
    BY <1>2, CheckCommandDoes DEF SetsPc, SetsPhase
  <2>5. CASE th = "mgr"
    <3>1. Api' = Api
      BY <2>4, <2>5 DEF Api, Threads
    <3>2. Mgr.pc \in WithLockMgr
      BY <2>1, <2>2, <2>5, ChangingNames DEF Holders, Mgr, WithLockMgr
    <3>3. Mgr'.pc \in WithLockMgr /\ (Mgr'.phase # "start" => Mgr'.pc \in Changing)
      BY <2>2, <2>3, <2>5, <3>2, ChangeKeepsLock DEF Mgr
    <3> QED
      BY <2>1, <2>2, <3>1, <3>2, <3>3 DEF Holders
  <2>6. CASE th = "api"
    <3>1. Mgr' = Mgr
      BY <2>4, <2>6 DEF Mgr, Threads
    <3>2. Api.pc \in WithLockApi
      BY <2>1, <2>2, <2>6, ChangingNames DEF Holders, Api, WithLockApi, Configuring, Freeing
    <3>3. Api'.pc \in WithLockApi /\ (Api'.phase # "start" => Api'.pc \in Changing)
      BY <2>2, <2>3, <2>6, <3>2, ChangeKeepsLock DEF Api
    <3> QED
      BY <2>1, <2>2, <3>1, <3>2, <3>3 DEF Holders
  <2> QED
    BY <2>1, <2>5, <2>6 DEF Threads
<1>3. ASSUME NEW th \in Threads, EndCommand(th)
      PROVE  Holders'
  BY <1>3, EndCommandDoes, ChangingNames, AfterNames
     DEF IInv, Calls, Holders, Mgr, Api, Threads, WithLockMgr, WithLockApi, Configuring, Aborting,
         Freeing, SetsPc
<1>4. ASSUME NEW th \in Threads, ConfigMain(th)
      PROVE  Holders'
  BY <1>4, ConfigMainDoes, ChangingNames, AfterNames
     DEF IInv, Calls, Holders, Mgr, Api, Threads, WithLockMgr, WithLockApi, Configuring, Aborting,
         Freeing, SetsPc
<1>5. ASSUME NEW th \in Threads, Configured(th)
      PROVE  Holders'
  <2>1. CASE th = "mgr"
    BY <1>5, <2>1, ConfiguredDoes, ChangingNames
       DEF IInv, Calls, Holders, Mgr, Api, Threads, WithLockMgr, WithLockApi, Configuring, SetsPc
  <2>2. CASE th = "api"
    BY <1>5, <2>2, ConfiguredDoes, ChangingNames
       DEF IInv, Calls, Holders, Mgr, Api, Threads, WithLockMgr, WithLockApi, Configuring, Aborting,
           Freeing, SetsTask
  <2> QED
    BY <2>1, <2>2 DEF Threads
<1>6. CASE TakePost \/ ReadOngoing
  BY <1>6, WakingDoes, ChangingNames, AfterNames
     DEF IInv, Calls, Holders, Mgr, Api, Threads, WithLockMgr, WithLockApi, Configuring, Aborting,
         Freeing, SetsPc
<1>7. CASE TakeJob
  <2>1. Holders /\ Mgr.pc = "ready" /\ job_lock = "free" /\ Api' = Api
    BY <1>7, TakeJobDoes DEF IInv, Calls, BeginsJob, SetsTask, SetsPc, Api, Threads
  <2>2. CASE \E j \in Jobs : BeginsJob(j)
    <3>1. job_lock' = "mgr" /\ Mgr'.pc \in WithLockMgr \cup {"params"} /\ Mgr'.phase = "start"
      BY <2>2 DEF BeginsJob, SetsTask, Mgr, WithLockMgr
    <3> QED
      BY <2>1, <3>1 DEF Holders, WithLockMgr
  <2>3. CASE SetsPc("mgr", "idle") \/ SetsPc("mgr", "gone")
    <3>1. Mgr'.pc \in {"idle", "gone"} /\ Mgr'.phase = "start"
      BY <2>3 DEF SetsPc, Mgr
    <3>2. UNCHANGED job_lock
      BY <1>7, <2>3, <3>1, TakeJobDoes DEF BeginsJob, SetsTask, Mgr
    <3> QED
      BY <2>1, <3>1, <3>2 DEF Holders, WithLockMgr
  <2> QED
    BY <1>7, <2>2, <2>3, TakeJobDoes
<1>8. CASE ForgetOther
  <2>1. Holders /\ Mgr.pc \in WithLockMgr /\ SetsPc("mgr", "config") /\ UNCHANGED job_lock
    BY <1>8, ForgetOtherDoes DEF IInv, Calls, WithLockMgr
  <2> QED
    BY <2>1, ManagerGoesOn DEF WithLockMgr
<1>9. CASE JobParams
  <2>1. Holders /\ Mgr.pc \in WithLockMgr /\ UNCHANGED job_lock
    BY <1>9, JobParamsDoes DEF IInv, Calls, WithLockMgr
  <2>2. SetsPc("mgr", "feed") \/ SetsPc("mgr", "failed")
    BY <1>9, JobParamsDoes
  <2> QED
    BY <2>1, <2>2, ManagerGoesOn DEF WithLockMgr
<1>10. CASE Feed
  BY <1>10, FeedDoes, ChangingNames, AfterNames
     DEF IInv, Calls, Holders, Mgr, Api, Threads, WithLockMgr, WithLockApi, Configuring, Aborting,
         Freeing, SetsTask, SetsPc
<1>11. CASE JobFailed
  <2>1. /\ Holders /\ Mgr.pc \in WithLockMgr /\ job_lock' = "free"
        /\ Api' = Api /\ Mgr'.pc = "idle" /\ Mgr'.phase = "start"
    BY <1>11, JobFailedDoes DEF IInv, Calls, WithLockMgr, SetsTask, Mgr, Api, Threads
  <2> QED
    BY <2>1 DEF Holders, WithLockMgr
<1>12. CASE ConfigureNew
  BY <1>12, ConfigureNewDoes, ChangingNames, AfterNames
     DEF IInv, Calls, Holders, Mgr, Api, Threads, WithLockMgr, WithLockApi, Configuring, Aborting,
         Freeing, SetsPc, SetsTask
<1>13. CASE CreateFailed
  BY <1>13, CreateFailedDoes, ChangingNames, AfterNames
     DEF IInv, Calls, Holders, Mgr, Api, Threads, WithLockMgr, WithLockApi, Configuring, Aborting,
         Freeing, SetsTask
<1>14. CASE FindJob
  BY <1>14, FindJobDoes, ChangingNames, AfterNames
     DEF IInv, Calls, Holders, Mgr, Api, Threads, WithLockMgr, WithLockApi, Configuring, Aborting,
         Freeing, SetsPc, SetsTask
<1>15. CASE DropJobs
  BY <1>15, DropJobsDoes, ChangingNames, AfterNames
     DEF IInv, Calls, Holders, Mgr, Api, Threads, WithLockMgr, WithLockApi, Configuring, Aborting,
         Freeing, SetsPc
<1>16. CASE BeginAbort
  <2>1. Holders /\ Api.pc \in WithLockApi /\ Mgr' = Mgr
    BY <1>16, BeginAbortDoes
       DEF IInv, Calls, WithLockApi, Aborting, EndsAbort, SetsPc, SetsTask, Mgr, Threads
  <2>2. /\ Api'.phase = "start"
        /\ \/ Api'.pc \in {"abortSend", "idleSelf"} /\ UNCHANGED job_lock
           \/ Api'.pc = "idle" /\ job_lock' = "free"
    BY <1>16, BeginAbortDoes DEF EndsAbort, SetsPc, SetsTask, Api
  <2> QED
    BY <2>1, <2>2 DEF Holders, WithLockApi, Aborting, Freeing, Configuring
<1>17. CASE SendAbort
  BY <1>17, SendAbortDoes, ChangingNames, AfterNames
     DEF IInv, Calls, Holders, Mgr, Api, Threads, WithLockMgr, WithLockApi, Configuring, Aborting,
         Freeing, SetsPc
<1>18. CASE EndAbort
  BY <1>18, EndAbortDoes, ChangingNames, AfterNames
     DEF IInv, Calls, Holders, Mgr, Api, Threads, WithLockMgr, WithLockApi, Configuring, Aborting,
         Freeing, EndsAbort, SetsPc, SetsTask
<1>19. CASE FreeSession
  BY <1>19, FreeSessionDoes, ChangingNames, AfterNames
     DEF IInv, Calls, Holders, Mgr, Api, Threads, WithLockMgr, WithLockApi, Configuring, Aborting,
         Freeing, SetsTask
<1>20. CASE Join
  BY <1>20, JoinDoes, ChangingNames, AfterNames
     DEF IInv, Calls, Holders, Mgr, Api, Threads, WithLockMgr, WithLockApi, Configuring, Aborting,
         Freeing, SetsPc
<1>21. ASSUME NEW s \in Sessions, EncoderDone(s)
      PROVE  Holders'
  <2>1. Holders /\ UNCHANGED <<task, job_lock>>
    BY <1>21, EncoderDoneDoes DEF IInv, Calls
  <2> QED
    BY <2>1, LockAndTasksKept
<1>22. ASSUME NEW s \in Sessions, EncoderError(s)
      PROVE  Holders'
  <2>1. Holders /\ UNCHANGED <<task, job_lock>>
    BY <1>22, EncoderErrorDoes DEF IInv, Calls
  <2> QED
    BY <2>1, LockAndTasksKept
<1>23. ASSUME NEW s \in Sessions, EncoderChanges(s)
      PROVE  Holders'
  <2>1. Holders /\ UNCHANGED <<task, job_lock>>
    BY <1>23, EncoderChangesDoes DEF IInv, Calls
  <2> QED
    BY <2>1, LockAndTasksKept
<1>24. ASSUME NEW s \in Sessions, FinishJob(s)
      PROVE  Holders'
  <2>1. Holders /\ UNCHANGED <<task, job_lock>>
    BY <1>24, FinishJobDoes DEF IInv, Calls
  <2> QED
    BY <2>1, LockAndTasksKept
<1>25. ASSUME NEW s \in Sessions, CreateSession(s)
      PROVE  Holders'
  BY <1>25, CreateSessionDoes, ChangingNames, AfterNames
     DEF IInv, Calls, Holders, Mgr, Api, Threads, WithLockMgr, WithLockApi, Configuring, Aborting,
         Freeing, SetsTask
<1>26. ASSUME NEW s \in Sessions, StopSession(s)
      PROVE  Holders'
  BY <1>26, StopSessionDoes, ChangingNames, AfterNames
     DEF IInv, Calls, Holders, Mgr, Api, Threads, WithLockMgr, WithLockApi, Configuring, Aborting,
         Freeing
<1>27. ASSUME NEW s \in Sessions, DestroySession(s)
      PROVE  Holders'
  BY <1>27, DestroySessionDoes, ChangingNames, AfterNames
     DEF IInv, Calls, Holders, Mgr, Api, Threads, WithLockMgr, WithLockApi, Configuring, Aborting,
         Freeing, SetsTask
<1>28. ASSUME NEW s \in Sessions, NEW j \in Jobs, StartJob(s, j)
      PROVE  Holders'
  BY <1>28, StartJobDoes, ChangingNames, AfterNames
     DEF IInv, Calls, Holders, Mgr, Api, Threads, WithLockMgr, WithLockApi, Configuring, Aborting,
         Freeing
<1>29. ASSUME NEW j \in Jobs, AbortJob(j)
      PROVE  Holders'
  BY <1>29, AbortJobDoes, ChangingNames, AfterNames
     DEF IInv, Calls, Holders, Mgr, Api, Threads, WithLockMgr, WithLockApi, Configuring, Aborting,
         Freeing, SetsTask
<1>30. CASE Release
  BY <1>30, ReleaseDoes, ChangingNames, AfterNames
     DEF IInv, Calls, Holders, Mgr, Api, Threads, WithLockMgr, WithLockApi, Configuring, Aborting,
         Freeing, SetsTask
<1>31. CASE UNCHANGED vars
  BY <1>31, ChangingNames, AfterNames
     DEF IInv, Calls, Holders, Mgr, Api, Threads, WithLockMgr, WithLockApi, Configuring, Aborting,
         Freeing, vars, queues, clients, history
<1> QED
  BY <1>1, <1>2, <1>3, <1>4, <1>5, <1>6, <1>7, <1>8, <1>9, <1>10, <1>11, <1>12, <1>13, <1>14,
     <1>15, <1>16, <1>17, <1>18, <1>19, <1>20, <1>21, <1>22, <1>23, <1>24, <1>25, <1>26, <1>27,
     <1>28, <1>29, <1>30, <1>31
     DEF Next, Manager, InCall, Working, Encoder, Threads

\* What a step of a change of a state keeps, of the threads and the sessions.
LEMMA CommandKeeps ==
  ASSUME IInv, NEW th \in Threads, SendCommand(th) \/ CheckCommand(th) \/ EndCommand(th)
  PROVE  /\ \A o \in Threads \ {th} : task'[o] = task[o]
         /\ task'[th].session = task[th].session /\ task'[th].job = task[th].job
         /\ task[th].pc \in Changing
         /\ th = "mgr" => task[th].pc \in WithLockMgr /\ task'[th].pc \in WithLockMgr
         /\ th = "api" => task[th].pc \in WithLockApi /\ task'[th].pc \in WithLockApi
         /\ \A s \in Sessions :
              /\ session'[s].active = session[s].active /\ session'[s].config = session[s].config
              /\ session'[s].error = session[s].error /\ session'[s].abort = session[s].abort
              /\ session'[s].encoding = session[s].encoding
              /\ session'[s].current = session[s].current /\ session'[s].handles = session[s].handles
         /\ UNCHANGED <<finishing, job_queue, ongoing_job_q, job_lock, p_session_inprogress, owner,
                        stopping, answers, stopped>>
<1>1. /\ \A o \in Threads \ {th} : task'[o] = task[o]
      /\ task'[th].session = task[th].session /\ task'[th].job = task[th].job
      /\ UNCHANGED <<finishing, job_queue, ongoing_job_q, job_lock, p_session_inprogress, owner,
                     stopping, answers, stopped>>
  BY SendCommandDoes, CheckCommandDoes, EndCommandDoes DEF SetsPc, SetsPhase
<1>2. task[th].pc \in Changing
  BY SendCommandDoes, CheckCommandDoes, EndCommandDoes
<1>3. task'[th].pc \in {task[th].pc, After[task[th].pc], AfterError(task[th].pc)}
  BY SendCommandDoes, CheckCommandDoes, EndCommandDoes DEF SetsPc, SetsPhase
<1>4. /\ th = "mgr" => task[th].pc \in WithLockMgr
      /\ th = "api" => task[th].pc \in WithLockApi
  BY <1>2, ChangingNames
     DEF IInv, Calls, Holders, Mgr, Api, WithLockMgr, WithLockApi, Configuring, Aborting, Freeing
<1>5. /\ th = "mgr" => task'[th].pc \in WithLockMgr
      /\ th = "api" => task'[th].pc \in WithLockApi
  BY <1>2, <1>3, <1>4, ChangeKeepsLock
<1>6. ASSUME NEW s \in Sessions
      PROVE  /\ session'[s].active = session[s].active /\ session'[s].config = session[s].config
             /\ session'[s].error = session[s].error /\ session'[s].abort = session[s].abort
             /\ session'[s].encoding = session[s].encoding
             /\ session'[s].current = session[s].current /\ session'[s].handles = session[s].handles
  <2>1. CASE session' = session
    BY <2>1
  <2>2. CASE SendCommand(th) /\ SetsPending(Changed(th), TRUE)
    BY <2>2, SendCommandDoes DEF SetsPending
  <2> QED
    BY <2>1, <2>2, SendCommandDoes, CheckCommandDoes, EndCommandDoes
<1> QED
  BY <1>1, <1>2, <1>4, <1>5, <1>6

\* When the manager stays at the same job, and its session and the owner too.
LEMMA AtWorkKept ==
  ASSUME IInv, Mgr'.pc \in WithLockMgr <=> Mgr.pc \in WithLockMgr,
         Mgr'.session = Mgr.session, Mgr'.job = Mgr.job,
         \A j \in Jobs : owner[j] # None => owner'[j] = owner[j],
         Mgr.pc \in WithLockMgr =>
           /\ session'[Mgr.session].active = session[Mgr.session].active
           /\ session'[Mgr.session].current = session[Mgr.session].current
           /\ session'[Mgr.session].abort = session[Mgr.session].abort
  PROVE  AtWork'
<1>1. AtWork
  BY DEF IInv, Calls
<1>2. CASE Mgr.pc \in WithLockMgr
  <2>1. /\ Mgr.session \in Sessions /\ Mgr.job \in Jobs /\ owner[Mgr.job] = Mgr.session
        /\ session[Mgr.session].active /\ session[Mgr.session].current = Mgr.job
        /\ session[Mgr.session].abort = "NONE"
    BY <1>1, <1>2 DEF AtWork
  <2>2. owner'[Mgr.job] = Mgr.session
    BY <2>1 DEF Sessions, None
  <2> QED
    BY <1>2, <2>1, <2>2 DEF AtWork
<1>3. CASE Mgr.pc \notin WithLockMgr
  BY <1>1, <1>3 DEF AtWork
<1> QED
  BY <1>2, <1>3

\* Every step keeps the manager at the job of a session that is there.
LEMMA AtWorkStep ==
  ASSUME IInv, [Next]_vars
  PROVE  AtWork'
<1>1. ASSUME NEW th \in Threads, SendCommand(th)
      PROVE  AtWork'
  <2>1. \A s \in Sessions : /\ session'[s].active = session[s].active
                            /\ session'[s].current = session[s].current
                            /\ session'[s].abort = session[s].abort
    BY <1>1, CommandKeeps
  <2>2. /\ Mgr'.pc \in WithLockMgr <=> Mgr.pc \in WithLockMgr
        /\ Mgr'.session = Mgr.session /\ Mgr'.job = Mgr.job
    BY <1>1, CommandKeeps DEF Mgr, Threads
  <2> QED
    BY <1>1, <2>1, <2>2, AtWorkKept, CommandKeeps DEF IInv, Calls, AtWork
<1>2. ASSUME NEW th \in Threads, CheckCommand(th)
      PROVE  AtWork'
  <2>1. \A s \in Sessions : /\ session'[s].active = session[s].active
                            /\ session'[s].current = session[s].current
                            /\ session'[s].abort = session[s].abort
    BY <1>2, CommandKeeps
  <2>2. /\ Mgr'.pc \in WithLockMgr <=> Mgr.pc \in WithLockMgr
        /\ Mgr'.session = Mgr.session /\ Mgr'.job = Mgr.job
    BY <1>2, CommandKeeps DEF Mgr, Threads
  <2> QED
    BY <1>2, <2>1, <2>2, AtWorkKept, CommandKeeps DEF IInv, Calls, AtWork
<1>3. ASSUME NEW th \in Threads, EndCommand(th)
      PROVE  AtWork'
  <2>1. \A s \in Sessions : /\ session'[s].active = session[s].active
                            /\ session'[s].current = session[s].current
                            /\ session'[s].abort = session[s].abort
    BY <1>3, CommandKeeps
  <2>2. /\ Mgr'.pc \in WithLockMgr <=> Mgr.pc \in WithLockMgr
        /\ Mgr'.session = Mgr.session /\ Mgr'.job = Mgr.job
    BY <1>3, CommandKeeps DEF Mgr, Threads
  <2> QED
    BY <1>3, <2>1, <2>2, AtWorkKept, CommandKeeps DEF IInv, Calls, AtWork
<1>4. ASSUME NEW th \in Threads, ConfigMain(th)
      PROVE  AtWork'
  BY <1>4, ConfigMainDoes DEF IInv, Calls, Holders, AtWork, Mgr, Threads, WithLockMgr, SetsPc
<1>5. ASSUME NEW th \in Threads, Configured(th)
      PROVE  AtWork'
  <2>1. \A s \in Sessions : /\ session'[s].active = session[s].active
                            /\ session'[s].current = session[s].current
                            /\ session'[s].abort = session[s].abort
    BY <1>5, ConfiguredDoes DEF SetsConfig
  <2>2. /\ Mgr'.pc \in WithLockMgr <=> Mgr.pc \in WithLockMgr
        /\ Mgr'.session = Mgr.session /\ Mgr'.job = Mgr.job
    <3>1. CASE th = "mgr"
      BY <1>5, <3>1, ConfiguredDoes DEF Mgr, SetsPc, WithLockMgr
    <3>2. CASE th = "api"
      BY <1>5, <3>2, ConfiguredDoes DEF Mgr, SetsTask, Threads
    <3> QED
      BY <3>1, <3>2 DEF Threads
  <2> QED
    BY <1>5, <2>1, <2>2, AtWorkKept, ConfiguredDoes DEF IInv, Calls, AtWork
<1>6. CASE TakePost \/ ReadOngoing
  BY <1>6, WakingDoes DEF IInv, Calls, Holders, AtWork, Mgr, Threads, WithLockMgr, SetsPc
<1>7. CASE TakeJob
  <2>1. CASE \E j \in Jobs : BeginsJob(j)
    <3>1. PICK j \in Jobs : BeginsJob(j)
      BY <2>1
    <3>2. /\ Mgr'.pc \in WithLockMgr /\ Mgr'.session = owner[j] /\ Mgr'.job = j
      BY <3>1 DEF BeginsJob, SetsTask, Mgr, WithLockMgr
    <3>3. /\ owner[j] \in Sessions /\ session'[owner[j]].active = session[owner[j]].active
          /\ session'[owner[j]].current = j /\ session'[owner[j]].abort = "NONE"
      BY <3>1 DEF BeginsJob, SetsBegun
    <3>4. session[owner[j]].active /\ owner' = owner
      BY <1>7, <3>1, TakeJobDoes DEF IInv, Answers, Waiting, BeginsJob
    <3> QED
      BY <3>2, <3>3, <3>4 DEF AtWork
  <2>2. CASE SetsPc("mgr", "idle") \/ SetsPc("mgr", "gone")
    BY <1>7, <2>2, TakeJobDoes DEF IInv, Calls, AtWork, SetsPc, Mgr, WithLockMgr
  <2> QED
    BY <1>7, <2>1, <2>2, TakeJobDoes
<1>8. CASE ForgetOther
  <2>1. \A s \in Sessions : /\ session'[s].active = session[s].active
                            /\ session'[s].current = session[s].current
                            /\ session'[s].abort = session[s].abort
    BY <1>8, ForgetOtherDoes DEF SetsConfig
  <2>2. /\ Mgr'.pc \in WithLockMgr /\ Mgr.pc \in WithLockMgr
        /\ Mgr'.session = Mgr.session /\ Mgr'.job = Mgr.job
    BY <1>8, ForgetOtherDoes DEF Mgr, SetsPc, WithLockMgr
  <2> QED
    BY <1>8, <2>1, <2>2, AtWorkKept, ForgetOtherDoes DEF IInv, Calls, AtWork
<1>9. CASE JobParams
  <2>1. \A s \in Sessions : /\ session'[s].active = session[s].active
                            /\ session'[s].current = session[s].current
                            /\ session'[s].abort = session[s].abort
    BY <1>9, JobParamsDoes DEF SetsEncoding
  <2>2. /\ Mgr'.pc \in WithLockMgr /\ Mgr.pc \in WithLockMgr
        /\ Mgr'.session = Mgr.session /\ Mgr'.job = Mgr.job
    BY <1>9, JobParamsDoes DEF Mgr, SetsPc, WithLockMgr
  <2> QED
    BY <1>9, <2>1, <2>2, AtWorkKept, JobParamsDoes DEF IInv, Calls, AtWork
<1>10. CASE Feed
  BY <1>10, FeedDoes DEF IInv, Calls, Holders, AtWork, Mgr, Threads, WithLockMgr, SetsTask, SetsPc
<1>11. CASE JobFailed
  BY <1>11, JobFailedDoes
     DEF IInv, Calls, Holders, AtWork, Mgr, Threads, WithLockMgr, SetsReturned, SetsTask
<1>12. CASE ConfigureNew
  BY <1>12, ConfigureNewDoes
     DEF IInv, Calls, Holders, AtWork, Mgr, Threads, WithLockMgr, SetsPc, SetsTask
<1>13. CASE CreateFailed
  BY <1>13, CreateFailedDoes DEF IInv, Calls, Holders, AtWork, Mgr, Threads, WithLockMgr, SetsTask
<1>14. CASE FindJob
  BY <1>14, FindJobDoes
     DEF IInv, Calls, Holders, AtWork, Mgr, Threads, WithLockMgr, SetsPc, SetsTask
<1>15. CASE DropJobs
  BY <1>15, DropJobsDoes DEF IInv, Calls, Holders, AtWork, Mgr, Threads, WithLockMgr, SetsPc
<1>16. CASE BeginAbort
  BY <1>16, BeginAbortDoes
     DEF IInv, Calls, Holders, AtWork, Mgr, Threads, WithLockMgr, SetsAborting, SetsPc, EndsAbort,
         SetsAbort, SetsTask
<1>17. CASE SendAbort
  BY <1>17, SendAbortDoes DEF IInv, Calls, Holders, AtWork, Mgr, Threads, WithLockMgr, SetsPc
<1>18. CASE EndAbort
  BY <1>18, EndAbortDoes
     DEF IInv, Calls, Holders, AtWork, Mgr, Threads, WithLockMgr, EndsAbort, SetsAbort, SetsPc,
         SetsTask
<1>19. CASE FreeSession
  BY <1>19, FreeSessionDoes
     DEF IInv, Calls, Holders, AtWork, Mgr, Threads, WithLockMgr, SetsSession, SetsTask
<1>20. CASE Join
  BY <1>20, JoinDoes DEF IInv, Calls, Holders, AtWork, Mgr, Threads, WithLockMgr, SetsPc
<1>21. ASSUME NEW s \in Sessions, EncoderDone(s)
      PROVE  AtWork'
  BY <1>21, EncoderDoneDoes DEF IInv, Calls, Holders, AtWork, Mgr, Threads, WithLockMgr
<1>22. ASSUME NEW s \in Sessions, EncoderError(s)
      PROVE  AtWork'
  <2>1. \A r \in Sessions : /\ session'[r].active = session[r].active
                            /\ session'[r].current = session[r].current
                            /\ session[r].abort = "NONE" => session'[r].abort = session[r].abort
    BY <1>22, EncoderErrorDoes DEF SetsAbort, SetsError
  <2>2. AtWork /\ Mgr' = Mgr /\ owner' = owner
    BY <1>22, EncoderErrorDoes DEF IInv, Calls, Mgr
  <2>3. Mgr.pc \in WithLockMgr =>
          /\ session'[Mgr.session].active = session[Mgr.session].active
          /\ session'[Mgr.session].current = session[Mgr.session].current
          /\ session'[Mgr.session].abort = session[Mgr.session].abort
    <3>1. Mgr.pc \in WithLockMgr => Mgr.session \in Sessions /\ session[Mgr.session].abort = "NONE"
      BY <2>2 DEF AtWork
    <3> QED
      BY <2>1, <3>1
  <2> QED
    BY <2>2, <2>3, AtWorkKept
<1>23. ASSUME NEW s \in Sessions, EncoderChanges(s)
      PROVE  AtWork'
  <2>1. \A r \in Sessions : /\ session'[r].active = session[r].active
                            /\ session'[r].current = session[r].current
                            /\ session[r].abort = "NONE" => session'[r].abort = session[r].abort
    BY <1>23, EncoderChangesDoes DEF SetsAbort, SetsPending
  <2>2. AtWork /\ Mgr' = Mgr /\ owner' = owner
    BY <1>23, EncoderChangesDoes DEF IInv, Calls, Mgr
  <2>3. Mgr.pc \in WithLockMgr =>
          /\ session'[Mgr.session].active = session[Mgr.session].active
          /\ session'[Mgr.session].current = session[Mgr.session].current
          /\ session'[Mgr.session].abort = session[Mgr.session].abort
    <3>1. Mgr.pc \in WithLockMgr => Mgr.session \in Sessions /\ session[Mgr.session].abort = "NONE"
      BY <2>2 DEF AtWork
    <3> QED
      BY <2>1, <3>1
  <2> QED
    BY <2>2, <2>3, AtWorkKept
<1>24. ASSUME NEW s \in Sessions, FinishJob(s)
      PROVE  AtWork'
  <2>1. \A r \in Sessions : /\ session'[r].active = session[r].active
                            /\ session'[r].current = session[r].current
                            /\ session[r].abort = "NONE" => session'[r].abort = session[r].abort
    BY <1>24, FinishJobDoes DEF SetsReturned
  <2>2. AtWork /\ Mgr' = Mgr /\ owner' = owner
    BY <1>24, FinishJobDoes DEF IInv, Calls, Mgr
  <2>3. Mgr.pc \in WithLockMgr =>
          /\ session'[Mgr.session].active = session[Mgr.session].active
          /\ session'[Mgr.session].current = session[Mgr.session].current
          /\ session'[Mgr.session].abort = session[Mgr.session].abort
    <3>1. Mgr.pc \in WithLockMgr => Mgr.session \in Sessions /\ session[Mgr.session].abort = "NONE"
      BY <2>2 DEF AtWork
    <3> QED
      BY <2>1, <3>1
  <2> QED
    BY <2>2, <2>3, AtWorkKept
<1>25. ASSUME NEW s \in Sessions, CreateSession(s)
      PROVE  AtWork'
  BY <1>25, CreateSessionDoes
     DEF IInv, Calls, Holders, AtWork, Mgr, Threads, WithLockMgr, SetsTask, SetsSession
<1>26. ASSUME NEW s \in Sessions, StopSession(s)
      PROVE  AtWork'
  BY <1>26, StopSessionDoes DEF IInv, Calls, Holders, AtWork, Mgr, Threads, WithLockMgr
<1>27. ASSUME NEW s \in Sessions, DestroySession(s)
      PROVE  AtWork'
  BY <1>27, DestroySessionDoes
     DEF IInv, Calls, Holders, AtWork, Mgr, Threads, WithLockMgr, SetsTask
<1>28. ASSUME NEW s \in Sessions, NEW j \in Jobs, StartJob(s, j)
      PROVE  AtWork'
  <2>1. \A i \in Jobs : owner[i] # None => owner'[i] = owner[i]
    BY <1>28, StartJobDoes DEF IInv, Types, OtherTypes
  <2> QED
    BY <1>28, <2>1, AtWorkKept, StartJobDoes DEF Mgr
<1>29. ASSUME NEW j \in Jobs, AbortJob(j)
      PROVE  AtWork'
  BY <1>29, AbortJobDoes DEF IInv, Calls, Holders, AtWork, Mgr, Threads, WithLockMgr, SetsTask
<1>30. CASE Release
  BY <1>30, ReleaseDoes DEF IInv, Calls, Holders, AtWork, Mgr, Threads, WithLockMgr, SetsTask
<1>31. CASE UNCHANGED vars
  BY <1>31
     DEF IInv, Calls, Holders, AtWork, Mgr, Threads, WithLockMgr, vars, queues, clients, history
<1> QED
  BY <1>1, <1>2, <1>3, <1>4, <1>5, <1>6, <1>7, <1>8, <1>9, <1>10, <1>11, <1>12, <1>13, <1>14,
     <1>15, <1>16, <1>17, <1>18, <1>19, <1>20, <1>21, <1>22, <1>23, <1>24, <1>25, <1>26, <1>27,
     <1>28, <1>29, <1>30, <1>31
     DEF Next, Manager, InCall, Working, Encoder, Threads

\* When the call of a client stays at the same session, which stays.
LEMMA InCallsKept ==
  ASSUME IInv, Api' = Api,
         \A j \in Jobs : owner[j] # None => owner'[j] = owner[j],
         \A s \in Sessions : session[s].active => session'[s].active
  PROVE  InCalls'
<1>1. InCalls /\ Api.job \in Jobs \cup {0}
  BY DEF IInv, Calls, Types, TaskType, TaskRecord, Threads, Api
<1>2. CASE Api.pc \in WithLockApi \cup {"create", "abortJob", "destroy"}
  <2>1. Api.session \in Sessions /\ session[Api.session].active
    BY <1>1, <1>2 DEF InCalls
  <2>2. session'[Api.session].active
    BY <2>1
  <2>3. Api.pc \in {"abortJob"} \cup Aborting /\ Api.job # 0 => owner'[Api.job] = Api.session
    BY <1>1, <2>1 DEF InCalls, Sessions, None
  <2> QED
    BY <1>1, <1>2, <2>1, <2>2, <2>3 DEF InCalls
<1>3. CASE Api.pc \notin WithLockApi \cup {"create", "abortJob", "destroy"}
  BY <1>1, <1>3 DEF InCalls, WithLockApi
<1> QED
  BY <1>2, <1>3

\* Every step keeps the call of a client at a session that is there.
LEMMA InCallsStep ==
  ASSUME IInv, [Next]_vars
  PROVE  InCalls'
<1>1. ASSUME NEW th \in Threads, SendCommand(th)
      PROVE  InCalls'
  <2>1. \A r \in Sessions : session'[r].active = session[r].active
    BY <1>1, CommandKeeps
  <2>2. CASE th = "mgr"
    <3>1. Api' = Api
      BY <1>1, <2>2, CommandKeeps DEF Api, Threads
    <3> QED
      BY <1>1, <2>1, <3>1, InCallsKept, CommandKeeps
  <2>3. CASE th = "api"
    <3>1. /\ Api'.session = Api.session /\ Api'.job = Api.job
          /\ Api.pc \in Changing /\ Api.pc \in WithLockApi
      BY <1>1, <2>3, CommandKeeps DEF Api
    <3>2. Api.session \in Sessions /\ session'[Api.session].active
      BY <2>1, <3>1 DEF IInv, Calls, InCalls
    <3>3. Api'.pc \in {Api.pc, After[Api.pc], AfterError(Api.pc)}
      BY <1>1, <2>3, SendCommandDoes DEF Api, SetsPc, SetsPhase
    <3>4. CASE Api.pc \in {"toIdle", "toExec"}
      <4>1. Api'.pc \in {"toIdle", "toExec", "configured", "failed"}
        BY <3>3, <3>4, AfterNames DEF AfterError
      <4> QED
        BY <3>1, <3>2, <4>1 DEF InCalls, WithLockApi, Configuring, Aborting, Freeing
    <3>5. CASE Api.pc \in {"idleSelf", "loadSelf"}
      <4>1. Api'.pc \in Freeing
        BY <3>3, <3>5, AfterNames DEF AfterError, Freeing
      <4>2. Api.job = 0
        BY <3>5 DEF IInv, Calls, InCalls, Freeing
      <4> QED
        BY <3>1, <3>2, <4>1, <4>2 DEF InCalls, WithLockApi, Aborting, Freeing
    <3> QED
      BY <3>1, <3>4, <3>5, ChangingNames DEF WithLockApi, Configuring, Aborting, Freeing
  <2> QED
    BY <2>2, <2>3 DEF Threads
<1>2. ASSUME NEW th \in Threads, CheckCommand(th)
      PROVE  InCalls'
  <2>1. \A r \in Sessions : session'[r].active = session[r].active
    BY <1>2, CommandKeeps
  <2>2. CASE th = "mgr"
    <3>1. Api' = Api
      BY <1>2, <2>2, CommandKeeps DEF Api, Threads
    <3> QED
      BY <1>2, <2>1, <3>1, InCallsKept, CommandKeeps
  <2>3. CASE th = "api"
    <3>1. /\ Api'.session = Api.session /\ Api'.job = Api.job
          /\ Api.pc \in Changing /\ Api.pc \in WithLockApi
      BY <1>2, <2>3, CommandKeeps DEF Api
    <3>2. Api.session \in Sessions /\ session'[Api.session].active
      BY <2>1, <3>1 DEF IInv, Calls, InCalls
    <3>3. Api'.pc \in {Api.pc, After[Api.pc], AfterError(Api.pc)}
      BY <1>2, <2>3, CheckCommandDoes DEF Api, SetsPc, SetsPhase
    <3>4. CASE Api.pc \in {"toIdle", "toExec"}
      <4>1. Api'.pc \in {"toIdle", "toExec", "configured", "failed"}
        BY <3>3, <3>4, AfterNames DEF AfterError
      <4> QED
        BY <3>1, <3>2, <4>1 DEF InCalls, WithLockApi, Configuring, Aborting, Freeing
    <3>5. CASE Api.pc \in {"idleSelf", "loadSelf"}
      <4>1. Api'.pc \in Freeing
        BY <3>3, <3>5, AfterNames DEF AfterError, Freeing
      <4>2. Api.job = 0
        BY <3>5 DEF IInv, Calls, InCalls, Freeing
      <4> QED
        BY <3>1, <3>2, <4>1, <4>2 DEF InCalls, WithLockApi, Aborting, Freeing
    <3> QED
      BY <3>1, <3>4, <3>5, ChangingNames DEF WithLockApi, Configuring, Aborting, Freeing
  <2> QED
    BY <2>2, <2>3 DEF Threads
<1>3. ASSUME NEW th \in Threads, EndCommand(th)
      PROVE  InCalls'
  <2>1. \A r \in Sessions : session'[r].active = session[r].active
    BY <1>3, CommandKeeps
  <2>2. CASE th = "mgr"
    <3>1. Api' = Api
      BY <1>3, <2>2, CommandKeeps DEF Api, Threads
    <3> QED
      BY <1>3, <2>1, <3>1, InCallsKept, CommandKeeps
  <2>3. CASE th = "api"
    <3>1. /\ Api'.session = Api.session /\ Api'.job = Api.job
          /\ Api.pc \in Changing /\ Api.pc \in WithLockApi
      BY <1>3, <2>3, CommandKeeps DEF Api
    <3>2. Api.session \in Sessions /\ session'[Api.session].active
      BY <2>1, <3>1 DEF IInv, Calls, InCalls
    <3>3. Api'.pc \in {Api.pc, After[Api.pc], AfterError(Api.pc)}
      BY <1>3, <2>3, EndCommandDoes DEF Api, SetsPc, SetsPhase
    <3>4. CASE Api.pc \in {"toIdle", "toExec"}
      <4>1. Api'.pc \in {"toIdle", "toExec", "configured", "failed"}
        BY <3>3, <3>4, AfterNames DEF AfterError
      <4> QED
        BY <3>1, <3>2, <4>1 DEF InCalls, WithLockApi, Configuring, Aborting, Freeing
    <3>5. CASE Api.pc \in {"idleSelf", "loadSelf"}
      <4>1. Api'.pc \in Freeing
        BY <3>3, <3>5, AfterNames DEF AfterError, Freeing
      <4>2. Api.job = 0
        BY <3>5 DEF IInv, Calls, InCalls, Freeing
      <4> QED
        BY <3>1, <3>2, <4>1, <4>2 DEF InCalls, WithLockApi, Aborting, Freeing
    <3> QED
      BY <3>1, <3>4, <3>5, ChangingNames DEF WithLockApi, Configuring, Aborting, Freeing
  <2> QED
    BY <2>2, <2>3 DEF Threads
<1>4. ASSUME NEW th \in Threads, ConfigMain(th)
      PROVE  InCalls'
  BY <1>4, ConfigMainDoes
     DEF IInv, Calls, Holders, InCalls, Api, Threads, WithLockApi, Configuring, Aborting, Freeing,
         SetsPc
<1>5. ASSUME NEW th \in Threads, Configured(th)
      PROVE  InCalls'
  <2>1. \A r \in Sessions : session'[r].active = session[r].active
    BY <1>5, ConfiguredDoes DEF SetsConfig
  <2>2. CASE th = "mgr"
    BY <1>5, <2>1, <2>2, ConfiguredDoes, InCallsKept DEF Api, Threads, SetsPc
  <2>3. CASE th = "api"
    BY <1>5, <2>3, ConfiguredDoes DEF InCalls, Api, SetsTask, WithLockApi, Configuring, Aborting, Freeing
  <2> QED
    BY <2>2, <2>3 DEF Threads
<1>6. CASE TakePost \/ ReadOngoing
  BY <1>6, WakingDoes
     DEF IInv, Calls, Holders, InCalls, Api, Threads, WithLockApi, Configuring, Aborting, Freeing,
         SetsPc
<1>7. CASE TakeJob
  <2>1. Api' = Api
    BY <1>7, TakeJobDoes DEF BeginsJob, SetsPc, SetsTask, Api, Threads
  <2>2. \A r \in Sessions : session[r].active => session'[r].active
    BY <1>7, TakeJobDoes DEF BeginsJob, SetsBegun
  <2> QED
    BY <1>7, <2>1, <2>2, InCallsKept, TakeJobDoes
<1>8. CASE ForgetOther
  <2>1. \A r \in Sessions : session[r].active => session'[r].active
    BY <1>8, ForgetOtherDoes DEF SetsConfig
  <2> QED
    BY <1>8, <2>1, InCallsKept, ForgetOtherDoes DEF Api, Threads, SetsPc, SetsTask
<1>9. CASE JobParams
  <2>1. \A r \in Sessions : session[r].active => session'[r].active
    BY <1>9, JobParamsDoes DEF SetsEncoding
  <2> QED
    BY <1>9, <2>1, InCallsKept, JobParamsDoes DEF Api, Threads, SetsPc, SetsTask
<1>10. CASE Feed
  BY <1>10, FeedDoes
     DEF IInv, Calls, Holders, InCalls, Api, Threads, WithLockApi, Configuring, Aborting, Freeing,
         SetsTask, SetsPc
<1>11. CASE JobFailed
  <2>1. \A r \in Sessions : session[r].active => session'[r].active
    BY <1>11, JobFailedDoes DEF SetsReturned
  <2> QED
    BY <1>11, <2>1, InCallsKept, JobFailedDoes DEF Api, Threads, SetsPc, SetsTask
<1>12. CASE ConfigureNew
  BY <1>12, ConfigureNewDoes
     DEF IInv, Calls, Holders, InCalls, Api, Threads, WithLockApi, Configuring, Aborting, Freeing,
         SetsPc, SetsTask
<1>13. CASE CreateFailed
  BY <1>13, CreateFailedDoes
     DEF IInv, Calls, Holders, InCalls, Api, Threads, WithLockApi, Configuring, Aborting, Freeing,
         SetsTask
<1>14. CASE FindJob
  BY <1>14, FindJobDoes
     DEF IInv, Calls, Holders, InCalls, Api, Threads, WithLockApi, Configuring, Aborting, Freeing,
         SetsPc, SetsTask
<1>15. CASE DropJobs
  BY <1>15, DropJobsDoes
     DEF IInv, Calls, Holders, InCalls, Api, Threads, WithLockApi, Configuring, Aborting, Freeing,
         SetsPc
<1>16. CASE BeginAbort
  BY <1>16, BeginAbortDoes
     DEF IInv, Calls, Holders, InCalls, Api, Threads, WithLockApi, Configuring, Aborting, Freeing,
         SetsAborting, SetsPc, EndsAbort, SetsAbort, SetsTask
<1>17. CASE SendAbort
  BY <1>17, SendAbortDoes
     DEF IInv, Calls, Holders, InCalls, Api, Threads, WithLockApi, Configuring, Aborting, Freeing,
         SetsPc
<1>18. CASE EndAbort
  BY <1>18, EndAbortDoes
     DEF IInv, Calls, Holders, InCalls, Api, Threads, WithLockApi, Configuring, Aborting, Freeing,
         EndsAbort, SetsAbort, SetsPc, SetsTask
<1>19. CASE FreeSession
  BY <1>19, FreeSessionDoes
     DEF IInv, Calls, Holders, InCalls, Api, Threads, WithLockApi, Configuring, Aborting, Freeing,
         SetsSession, SetsTask
<1>20. CASE Join
  BY <1>20, JoinDoes
     DEF IInv, Calls, Holders, InCalls, Api, Threads, WithLockApi, Configuring, Aborting, Freeing,
         SetsPc
<1>21. ASSUME NEW s \in Sessions, EncoderDone(s)
      PROVE  InCalls'
  BY <1>21, EncoderDoneDoes
     DEF IInv, Calls, Holders, InCalls, Api, Threads, WithLockApi, Configuring, Aborting, Freeing
<1>22. ASSUME NEW s \in Sessions, EncoderError(s)
      PROVE  InCalls'
  <2>1. \A r \in Sessions : session[r].active => session'[r].active
    BY <1>22, EncoderErrorDoes DEF SetsAbort, SetsError
  <2> QED
    BY <1>22, <2>1, InCallsKept, EncoderErrorDoes DEF Api, Threads, SetsPc, SetsTask
<1>23. ASSUME NEW s \in Sessions, EncoderChanges(s)
      PROVE  InCalls'
  <2>1. \A r \in Sessions : session[r].active => session'[r].active
    BY <1>23, EncoderChangesDoes DEF SetsAbort, SetsPending
  <2> QED
    BY <1>23, <2>1, InCallsKept, EncoderChangesDoes DEF Api, Threads, SetsPc, SetsTask
<1>24. ASSUME NEW s \in Sessions, FinishJob(s)
      PROVE  InCalls'
  <2>1. \A r \in Sessions : session[r].active => session'[r].active
    BY <1>24, FinishJobDoes DEF SetsReturned
  <2> QED
    BY <1>24, <2>1, InCallsKept, FinishJobDoes DEF Api, Threads, SetsPc, SetsTask
<1>25. ASSUME NEW s \in Sessions, CreateSession(s)
      PROVE  InCalls'
  <2>1. session'[s].active
    BY <1>25, CreateSessionDoes, NewSession DEF SetsSession
  <2> QED
    BY <1>25, <2>1, CreateSessionDoes DEF InCalls, SetsTask, Api, WithLockApi, Configuring, Aborting, Freeing
<1>26. ASSUME NEW s \in Sessions, StopSession(s)
      PROVE  InCalls'
  BY <1>26, StopSessionDoes
     DEF IInv, Calls, Holders, InCalls, Api, Threads, WithLockApi, Configuring, Aborting, Freeing
<1>27. ASSUME NEW s \in Sessions, DestroySession(s)
      PROVE  InCalls'
  <2>1. session[s].active
    BY <1>27, DestroySessionDoes DEF IInv, Calls, Stopping
  <2> QED
    BY <1>27, <2>1, DestroySessionDoes
       DEF InCalls, SetsTask, Api, WithLockApi, Configuring, Aborting, Freeing
<1>28. ASSUME NEW s \in Sessions, NEW j \in Jobs, StartJob(s, j)
      PROVE  InCalls'
  BY <1>28, StartJobDoes
     DEF IInv, Calls, Holders, InCalls, Api, Threads, WithLockApi, Configuring, Aborting, Freeing
<1>29. ASSUME NEW j \in Jobs, AbortJob(j)
      PROVE  InCalls'
  <2>1. owner[j] \in Sessions /\ session[owner[j]].active /\ j # 0
    BY <1>29, AbortJobDoes DEF IInv, Calls, Stopping, Types, OtherTypes, Jobs
  <2>2. owner' = owner /\ session' = session /\ SetsTask("api", "abortJob", owner[j], j)
    BY <1>29, AbortJobDoes
  <2>3. /\ Api'.pc = "abortJob" /\ Api'.session = owner[j] /\ Api'.job = j
    BY <2>2 DEF SetsTask, Api
  <2> QED
    BY <2>1, <2>2, <2>3 DEF InCalls, WithLockApi, Configuring, Aborting, Freeing
<1>30. CASE Release
  BY <1>30, ReleaseDoes
     DEF IInv, Calls, Holders, InCalls, Api, Threads, WithLockApi, Configuring, Aborting, Freeing,
         SetsTask
<1>31. CASE UNCHANGED vars
  BY <1>31
     DEF IInv, Calls, Holders, InCalls, Api, Threads, WithLockApi, Configuring, Aborting, Freeing,
         vars, queues, clients, history
<1> QED
  BY <1>1, <1>2, <1>3, <1>4, <1>5, <1>6, <1>7, <1>8, <1>9, <1>10, <1>11, <1>12, <1>13, <1>14,
     <1>15, <1>16, <1>17, <1>18, <1>19, <1>20, <1>21, <1>22, <1>23, <1>24, <1>25, <1>26, <1>27,
     <1>28, <1>29, <1>30, <1>31
     DEF Next, Manager, InCall, Working, Encoder, Threads

\* Every step keeps the sessions that are to be stopped there.
LEMMA StoppingStep ==
  ASSUME IInv, [Next]_vars
  PROVE  Stopping'
<1>1. ASSUME NEW th \in Threads, SendCommand(th)
      PROVE  Stopping'
  BY <1>1, SendCommandDoes DEF IInv, Calls, InCalls, Stopping, Types, OtherTypes, SetsPending
<1>2. ASSUME NEW th \in Threads, CheckCommand(th)
      PROVE  Stopping'
  BY <1>2, CheckCommandDoes DEF IInv, Calls, InCalls, Stopping, Types, OtherTypes
<1>3. ASSUME NEW th \in Threads, EndCommand(th)
      PROVE  Stopping'
  BY <1>3, EndCommandDoes DEF IInv, Calls, InCalls, Stopping, Types, OtherTypes
<1>4. ASSUME NEW th \in Threads, ConfigMain(th)
      PROVE  Stopping'
  BY <1>4, ConfigMainDoes DEF IInv, Calls, InCalls, Stopping, Types, OtherTypes
<1>5. ASSUME NEW th \in Threads, Configured(th)
      PROVE  Stopping'
  BY <1>5, ConfiguredDoes DEF IInv, Calls, InCalls, Stopping, Types, OtherTypes, SetsConfig
<1>6. CASE TakePost \/ ReadOngoing
  BY <1>6, WakingDoes DEF IInv, Calls, InCalls, Stopping, Types, OtherTypes
<1>7. CASE TakeJob
  BY <1>7, TakeJobDoes DEF IInv, Calls, InCalls, Stopping, Types, OtherTypes, BeginsJob, SetsBegun
<1>8. CASE ForgetOther
  BY <1>8, ForgetOtherDoes DEF IInv, Calls, InCalls, Stopping, Types, OtherTypes, SetsConfig
<1>9. CASE JobParams
  BY <1>9, JobParamsDoes DEF IInv, Calls, InCalls, Stopping, Types, OtherTypes, SetsEncoding
<1>10. CASE Feed
  BY <1>10, FeedDoes DEF IInv, Calls, InCalls, Stopping, Types, OtherTypes
<1>11. CASE JobFailed
  BY <1>11, JobFailedDoes DEF IInv, Calls, InCalls, Stopping, Types, OtherTypes, SetsReturned
<1>12. CASE ConfigureNew
  BY <1>12, ConfigureNewDoes DEF IInv, Calls, InCalls, Stopping, Types, OtherTypes
<1>13. CASE CreateFailed
  BY <1>13, CreateFailedDoes
     DEF IInv, Calls, InCalls, Stopping, Types, OtherTypes, WithLockApi, Api
<1>14. CASE FindJob
  BY <1>14, FindJobDoes DEF IInv, Calls, InCalls, Stopping, Types, OtherTypes
<1>15. CASE DropJobs
  BY <1>15, DropJobsDoes DEF IInv, Calls, InCalls, Stopping, Types, OtherTypes
<1>16. CASE BeginAbort
  BY <1>16, BeginAbortDoes
     DEF IInv, Calls, InCalls, Stopping, Types, OtherTypes, SetsAborting, EndsAbort, SetsAbort
<1>17. CASE SendAbort
  BY <1>17, SendAbortDoes DEF IInv, Calls, InCalls, Stopping, Types, OtherTypes
<1>18. CASE EndAbort
  BY <1>18, EndAbortDoes
     DEF IInv, Calls, InCalls, Stopping, Types, OtherTypes, EndsAbort, SetsAbort
<1>19. CASE FreeSession
  BY <1>19, FreeSessionDoes DEF IInv, Calls, InCalls, Stopping, Types, OtherTypes, SetsSession
<1>20. CASE Join
  BY <1>20, JoinDoes DEF IInv, Calls, InCalls, Stopping, Types, OtherTypes
<1>21. ASSUME NEW s \in Sessions, EncoderDone(s)
      PROVE  Stopping'
  BY <1>21, EncoderDoneDoes DEF IInv, Calls, InCalls, Stopping, Types, OtherTypes
<1>22. ASSUME NEW s \in Sessions, EncoderError(s)
      PROVE  Stopping'
  BY <1>22, EncoderErrorDoes
     DEF IInv, Calls, InCalls, Stopping, Types, OtherTypes, SetsAbort, SetsError
<1>23. ASSUME NEW s \in Sessions, EncoderChanges(s)
      PROVE  Stopping'
  BY <1>23, EncoderChangesDoes
     DEF IInv, Calls, InCalls, Stopping, Types, OtherTypes, SetsAbort, SetsPending
<1>24. ASSUME NEW s \in Sessions, FinishJob(s)
      PROVE  Stopping'
  BY <1>24, FinishJobDoes DEF IInv, Calls, InCalls, Stopping, Types, OtherTypes, SetsReturned
<1>25. ASSUME NEW s \in Sessions, CreateSession(s)
      PROVE  Stopping'
  BY <1>25, CreateSessionDoes DEF IInv, Calls, InCalls, Stopping, Types, OtherTypes, SetsSession
<1>26. ASSUME NEW s \in Sessions, StopSession(s)
      PROVE  Stopping'
  BY <1>26, StopSessionDoes DEF IInv, Calls, InCalls, Stopping, Types, OtherTypes
<1>27. ASSUME NEW s \in Sessions, DestroySession(s)
      PROVE  Stopping'
  BY <1>27, DestroySessionDoes DEF IInv, Calls, InCalls, Stopping, Types, OtherTypes
<1>28. ASSUME NEW s \in Sessions, NEW j \in Jobs, StartJob(s, j)
      PROVE  Stopping'
  BY <1>28, StartJobDoes DEF IInv, Calls, InCalls, Stopping, Types, OtherTypes
<1>29. ASSUME NEW j \in Jobs, AbortJob(j)
      PROVE  Stopping'
  BY <1>29, AbortJobDoes DEF IInv, Calls, InCalls, Stopping, Types, OtherTypes
<1>30. CASE Release
  BY <1>30, ReleaseDoes DEF IInv, Calls, InCalls, Stopping, Types, OtherTypes
<1>31. CASE UNCHANGED vars
  BY <1>31 DEF IInv, Calls, InCalls, Stopping, Types, OtherTypes, vars, queues, clients, history
<1> QED
  BY <1>1, <1>2, <1>3, <1>4, <1>5, <1>6, <1>7, <1>8, <1>9, <1>10, <1>11, <1>12, <1>13, <1>14,
     <1>15, <1>16, <1>17, <1>18, <1>19, <1>20, <1>21, <1>22, <1>23, <1>24, <1>25, <1>26, <1>27,
     <1>28, <1>29, <1>30, <1>31
     DEF Next, Manager, InCall, Working, Encoder, Threads

-----------------------------------------------------------------------------
(* The session in progress.                                                *)

\* What an encoder and its callback keep.
LEMMA EncoderKeeps ==
  ASSUME IInv, NEW s \in Sessions,
         EncoderDone(s) \/ EncoderError(s) \/ EncoderChanges(s) \/ FinishJob(s)
  PROVE  /\ \A r \in Sessions :
              /\ session'[r].active = session[r].active /\ session'[r].config = session[r].config
              /\ session'[r].current = session[r].current
         /\ \A r \in Sessions \ {s} :
              session'[r] = session[r] /\ omx'[r] = omx[r] /\ finishing'[r] = finishing[r]
         /\ UNCHANGED <<job_queue, job_lock, p_session_inprogress, task, owner, stopping, stopped>>
<1>1. CASE EncoderDone(s)
  BY <1>1, EncoderDoneDoes DEF SetsJob, IInv, Types, OtherTypes
<1>2. CASE EncoderError(s)
  <2>1. \A r \in Sessions \ {s} : session'[r] = session[r]
    BY <1>2, EncoderErrorDoes DEF SetsAbort, SetsError
  <2>2. /\ session'[s].active = session[s].active /\ session'[s].config = session[s].config
        /\ session'[s].current = session[s].current
    BY <1>2, EncoderErrorDoes DEF SetsAbort, SetsError
  <2>3. \A r \in Sessions \ {s} : omx'[r] = omx[r] /\ finishing'[r] = finishing[r]
    BY <1>2, EncoderErrorDoes DEF SetsJob, IInv, Types, OtherTypes
  <2> QED
    BY <1>2, <2>1, <2>2, <2>3, EncoderErrorDoes
<1>3. CASE EncoderChanges(s)
  <2>1. \A r \in Sessions \ {s} : session'[r] = session[r]
    BY <1>3, EncoderChangesDoes DEF SetsAbort, SetsPending
  <2>2. /\ session'[s].active = session[s].active /\ session'[s].config = session[s].config
        /\ session'[s].current = session[s].current
    BY <1>3, EncoderChangesDoes DEF SetsAbort, SetsPending
  <2>3. \A r \in Sessions \ {s} : omx'[r] = omx[r] /\ finishing'[r] = finishing[r]
    BY <1>3, EncoderChangesDoes DEF SetsState, IInv, Types, OtherTypes
  <2> QED
    BY <1>3, <2>1, <2>2, <2>3, EncoderChangesDoes
<1>4. CASE FinishJob(s)
  <2>1. \A r \in Sessions \ {s} : session'[r] = session[r]
    BY <1>4, FinishJobDoes DEF SetsReturned
  <2>2. /\ session'[s].active = session[s].active /\ session'[s].config = session[s].config
        /\ session'[s].current = session[s].current
    BY <1>4, FinishJobDoes DEF SetsReturned
  <2>3. \A r \in Sessions \ {s} : omx'[r] = omx[r] /\ finishing'[r] = finishing[r]
    BY <1>4, FinishJobDoes DEF IInv, Types, OtherTypes
  <2> QED
    BY <1>4, <2>1, <2>2, <2>3, FinishJobDoes
<1> QED
  BY <1>1, <1>2, <1>3, <1>4

\* Every step keeps configured the session that is in progress, and no other.
LEMMA InProgressStep ==
  ASSUME IInv, [Next]_vars
  PROVE  InProgress'
<1>1. ASSUME NEW th \in Threads, SendCommand(th)
      PROVE  InProgress'
  BY <1>1, SendCommandDoes DEF IInv, Progress, InProgress, SetsPending
<1>2. ASSUME NEW th \in Threads, CheckCommand(th)
      PROVE  InProgress'
  BY <1>2, CheckCommandDoes DEF IInv, Progress, InProgress
<1>3. ASSUME NEW th \in Threads, EndCommand(th)
      PROVE  InProgress'
  BY <1>3, EndCommandDoes DEF IInv, Progress, InProgress
<1>4. ASSUME NEW th \in Threads, ConfigMain(th)
      PROVE  InProgress'
  BY <1>4, ConfigMainDoes DEF IInv, Progress, InProgress
<1>5. ASSUME NEW th \in Threads, Configured(th)
      PROVE  InProgress'
  <2>1. p_session_inprogress = None /\ task[th].session \in Sessions /\ session[task[th].session].active
    <3>1. p_session_inprogress = None /\ task[th].session \in Sessions
      BY <1>5, ConfiguredDoes DEF IInv, Progress, ProgressAt, Configuring, Threads, Mgr, Api
    <3>2. CASE th = "mgr"
      BY <1>5, <3>1, <3>2, ConfiguredDoes DEF IInv, Calls, AtWork, Mgr, WithLockMgr
    <3>3. CASE th = "api"
      BY <1>5, <3>1, <3>3, ConfiguredDoes DEF IInv, Calls, InCalls, Api, WithLockApi, Configuring
    <3> QED
      BY <3>1, <3>2, <3>3 DEF Threads
  <2>2. \A s \in Sessions : ~session[s].config
    BY <2>1 DEF IInv, Progress, InProgress, None, Sessions
  <2>3. session'[task[th].session].config /\ session'[task[th].session].active
    BY <1>5, <2>1, ConfiguredDoes DEF SetsConfig
  <2>4. \A s \in Sessions \ {task[th].session} : ~session'[s].config
    BY <1>5, <2>2, ConfiguredDoes DEF SetsConfig
  <2>5. p_session_inprogress' = task[th].session
    BY <1>5, ConfiguredDoes
  <2> QED
    BY <2>1, <2>3, <2>4, <2>5 DEF InProgress
<1>6. CASE TakePost \/ ReadOngoing
  BY <1>6, WakingDoes DEF IInv, Progress, InProgress
<1>7. CASE TakeJob
  <2>1. \A s \in Sessions : session'[s].config = session[s].config /\ session'[s].active = session[s].active
    <3>1. CASE \E j \in Jobs : BeginsJob(j)
      BY <3>1 DEF BeginsJob, SetsBegun
    <3>2. CASE UNCHANGED session
      BY <3>2
    <3> QED
      BY <1>7, <3>1, <3>2, TakeJobDoes
  <2>2. InProgress /\ UNCHANGED p_session_inprogress
    BY <1>7, TakeJobDoes DEF IInv, Progress
  <2> QED
    BY <2>1, <2>2 DEF InProgress
<1>8. CASE ForgetOther
  <2>1. \A s \in Sessions : ~session'[s].config
    BY <1>8, ForgetOtherDoes DEF IInv, Progress, InProgress, SetsConfig
  <2>2. p_session_inprogress' = None
    BY <1>8, ForgetOtherDoes
  <2> QED
    BY <2>1, <2>2 DEF InProgress, None, Sessions
<1>9. CASE JobParams
  BY <1>9, JobParamsDoes DEF IInv, Progress, InProgress, SetsEncoding
<1>10. CASE Feed
  BY <1>10, FeedDoes DEF IInv, Progress, InProgress
<1>11. CASE JobFailed
  BY <1>11, JobFailedDoes DEF IInv, Progress, InProgress, SetsReturned
<1>12. CASE ConfigureNew
  BY <1>12, ConfigureNewDoes DEF IInv, Progress, InProgress
<1>13. CASE CreateFailed
  BY <1>13, CreateFailedDoes DEF IInv, Progress, InProgress
<1>14. CASE FindJob
  BY <1>14, FindJobDoes DEF IInv, Progress, InProgress
<1>15. CASE DropJobs
  BY <1>15, DropJobsDoes DEF IInv, Progress, InProgress
<1>16. CASE BeginAbort
  BY <1>16, BeginAbortDoes DEF IInv, Progress, InProgress, SetsAborting, EndsAbort, SetsAbort
<1>17. CASE SendAbort
  BY <1>17, SendAbortDoes DEF IInv, Progress, InProgress
<1>18. CASE EndAbort
  BY <1>18, EndAbortDoes DEF IInv, Progress, InProgress, EndsAbort, SetsAbort
<1>19. CASE FreeSession
  <2>1. ~session'[Api.session].config /\ p_session_inprogress' # Api.session /\ Api.session \in Sessions
    BY <1>19, FreeSessionDoes DEF SetsSession, NoSession, None, Sessions
  <2>2. \A s \in Sessions \ {Api.session} :
          session'[s] = session[s] /\ (p_session_inprogress' = s <=> p_session_inprogress = s)
    BY <1>19, FreeSessionDoes DEF SetsSession, None, Sessions
  <2> QED
    BY <2>1, <2>2 DEF IInv, Progress, InProgress
<1>20. CASE Join
  BY <1>20, JoinDoes DEF IInv, Progress, InProgress
<1>21. ASSUME NEW s \in Sessions, EncoderDone(s)
      PROVE  InProgress'
  BY <1>21, EncoderKeeps DEF IInv, Progress, InProgress
<1>22. ASSUME NEW s \in Sessions, EncoderError(s)
      PROVE  InProgress'
  BY <1>22, EncoderKeeps DEF IInv, Progress, InProgress
<1>23. ASSUME NEW s \in Sessions, EncoderChanges(s)
      PROVE  InProgress'
  BY <1>23, EncoderKeeps DEF IInv, Progress, InProgress
<1>24. ASSUME NEW s \in Sessions, FinishJob(s)
      PROVE  InProgress'
  BY <1>24, EncoderKeeps DEF IInv, Progress, InProgress
<1>25. ASSUME NEW s \in Sessions, CreateSession(s)
      PROVE  InProgress'
  <2>1. session'[s].active /\ ~session'[s].config
    BY <1>25, CreateSessionDoes, NewSession DEF SetsSession
  <2>2. p_session_inprogress # s
    BY <1>25, CreateSessionDoes DEF IInv, Progress, InProgress
  <2>3. \A r \in Sessions \ {s} : session'[r] = session[r]
    BY <1>25, CreateSessionDoes DEF SetsSession
  <2> QED
    BY <1>25, <2>1, <2>2, <2>3, CreateSessionDoes DEF IInv, Progress, InProgress
<1>26. ASSUME NEW s \in Sessions, StopSession(s)
      PROVE  InProgress'
  BY <1>26, StopSessionDoes DEF IInv, Progress, InProgress
<1>27. ASSUME NEW s \in Sessions, DestroySession(s)
      PROVE  InProgress'
  BY <1>27, DestroySessionDoes DEF IInv, Progress, InProgress
<1>28. ASSUME NEW s \in Sessions, NEW j \in Jobs, StartJob(s, j)
      PROVE  InProgress'
  BY <1>28, StartJobDoes DEF IInv, Progress, InProgress
<1>29. ASSUME NEW j \in Jobs, AbortJob(j)
      PROVE  InProgress'
  BY <1>29, AbortJobDoes DEF IInv, Progress, InProgress
<1>30. CASE Release
  BY <1>30, ReleaseDoes DEF IInv, Progress, InProgress
<1>31. CASE UNCHANGED vars
  BY <1>31 DEF IInv, Progress, InProgress, vars, queues, clients, history
<1> QED
  BY <1>1, <1>2, <1>3, <1>4, <1>5, <1>6, <1>7, <1>8, <1>9, <1>10, <1>11, <1>12, <1>13, <1>14,
     <1>15, <1>16, <1>17, <1>18, <1>19, <1>20, <1>21, <1>22, <1>23, <1>24, <1>25, <1>26, <1>27,
     <1>28, <1>29, <1>30, <1>31
     DEF Next, Manager, InCall, Working, Encoder, Threads

\* Every step keeps the threads where the session in progress lets them be.
LEMMA ProgressAtStep ==
  ASSUME IInv, [Next]_vars
  PROVE  ProgressAt'
<1>1. ASSUME NEW th \in Threads, SendCommand(th)
      PROVE  ProgressAt'
  <2>1. ProgressAt /\ UNCHANGED p_session_inprogress
    BY <1>1, CommandKeeps DEF IInv, Progress
  <2>2. /\ task'[th].pc \in {task[th].pc, After[task[th].pc], AfterError(task[th].pc)}
        /\ task[th].pc \in Changing /\ task'[th].session = task[th].session
    BY <1>1, SendCommandDoes DEF SetsPc, SetsPhase
  <2>3. \A o \in Threads \ {th} : task'[o] = task[o]
    BY <1>1, CommandKeeps
  <2>4. Mgr.pc = "feed" => session'[Mgr.session].encoding = session[Mgr.session].encoding
    BY <1>1, CommandKeeps DEF IInv, Calls, AtWork, WithLockMgr
  <2>5. CASE th = "mgr"
    <3>1. Api' = Api
      BY <2>3, <2>5 DEF Api, Threads
    <3>2. CASE Mgr.pc \in {"idleOther", "loadOther"}
      <4>1. Mgr'.pc \in {"idleOther", "loadOther", "forget", "failed"} /\ Mgr'.session = Mgr.session
        BY <2>2, <2>5, <3>2, AfterNames DEF AfterError, Mgr
      <4> QED
        BY <2>1, <3>1, <3>2, <4>1 DEF ProgressAt, Configuring
    <3>3. CASE Mgr.pc \in {"toIdle", "toExec"}
      <4>1. Mgr'.pc \in {"toIdle", "toExec", "configured", "failed"} /\ Mgr'.session = Mgr.session
        BY <2>2, <2>5, <3>3, AfterNames DEF AfterError, Mgr
      <4> QED
        BY <2>1, <3>1, <3>3, <4>1 DEF ProgressAt, Configuring
    <3> QED
      BY <1>1, <2>2, <2>5, <3>2, <3>3, CommandKeeps, ChangingNames DEF Mgr, WithLockMgr
  <2>6. CASE th = "api"
    <3>1. Mgr' = Mgr
      BY <2>3, <2>6 DEF Mgr, Threads
    <3>2. CASE Api.pc \in {"toIdle", "toExec"}
      <4>1. Api'.pc \in {"toIdle", "toExec", "configured", "failed"}
        BY <2>2, <2>6, <3>2, AfterNames DEF AfterError, Api
      <4> QED
        BY <2>1, <2>4, <3>1, <3>2, <4>1 DEF ProgressAt, Configuring
    <3>3. CASE Api.pc \in {"idleSelf", "loadSelf"}
      <4>1. Api'.pc \in {"idleSelf", "loadSelf", "free"}
        BY <2>2, <2>6, <3>3, AfterNames DEF AfterError, Api
      <4> QED
        BY <2>1, <2>4, <3>1, <3>3, <4>1 DEF ProgressAt, Configuring
    <3> QED
      BY <1>1, <2>2, <2>6, <3>2, <3>3, CommandKeeps, ChangingNames
         DEF Api, WithLockApi, Configuring, Aborting, Freeing
  <2> QED
    BY <2>5, <2>6 DEF Threads
<1>2. ASSUME NEW th \in Threads, CheckCommand(th)
      PROVE  ProgressAt'
  <2>1. ProgressAt /\ UNCHANGED p_session_inprogress
    BY <1>2, CommandKeeps DEF IInv, Progress
  <2>2. /\ task'[th].pc \in {task[th].pc, After[task[th].pc], AfterError(task[th].pc)}
        /\ task[th].pc \in Changing /\ task'[th].session = task[th].session
    BY <1>2, CheckCommandDoes DEF SetsPc, SetsPhase
  <2>3. \A o \in Threads \ {th} : task'[o] = task[o]
    BY <1>2, CommandKeeps
  <2>4. Mgr.pc = "feed" => session'[Mgr.session].encoding = session[Mgr.session].encoding
    BY <1>2, CommandKeeps DEF IInv, Calls, AtWork, WithLockMgr
  <2>5. CASE th = "mgr"
    <3>1. Api' = Api
      BY <2>3, <2>5 DEF Api, Threads
    <3>2. CASE Mgr.pc \in {"idleOther", "loadOther"}
      <4>1. Mgr'.pc \in {"idleOther", "loadOther", "forget", "failed"} /\ Mgr'.session = Mgr.session
        BY <2>2, <2>5, <3>2, AfterNames DEF AfterError, Mgr
      <4> QED
        BY <2>1, <3>1, <3>2, <4>1 DEF ProgressAt, Configuring
    <3>3. CASE Mgr.pc \in {"toIdle", "toExec"}
      <4>1. Mgr'.pc \in {"toIdle", "toExec", "configured", "failed"} /\ Mgr'.session = Mgr.session
        BY <2>2, <2>5, <3>3, AfterNames DEF AfterError, Mgr
      <4> QED
        BY <2>1, <3>1, <3>3, <4>1 DEF ProgressAt, Configuring
    <3> QED
      BY <1>2, <2>2, <2>5, <3>2, <3>3, CommandKeeps, ChangingNames DEF Mgr, WithLockMgr
  <2>6. CASE th = "api"
    <3>1. Mgr' = Mgr
      BY <2>3, <2>6 DEF Mgr, Threads
    <3>2. CASE Api.pc \in {"toIdle", "toExec"}
      <4>1. Api'.pc \in {"toIdle", "toExec", "configured", "failed"}
        BY <2>2, <2>6, <3>2, AfterNames DEF AfterError, Api
      <4> QED
        BY <2>1, <2>4, <3>1, <3>2, <4>1 DEF ProgressAt, Configuring
    <3>3. CASE Api.pc \in {"idleSelf", "loadSelf"}
      <4>1. Api'.pc \in {"idleSelf", "loadSelf", "free"}
        BY <2>2, <2>6, <3>3, AfterNames DEF AfterError, Api
      <4> QED
        BY <2>1, <2>4, <3>1, <3>3, <4>1 DEF ProgressAt, Configuring
    <3> QED
      BY <1>2, <2>2, <2>6, <3>2, <3>3, CommandKeeps, ChangingNames
         DEF Api, WithLockApi, Configuring, Aborting, Freeing
  <2> QED
    BY <2>5, <2>6 DEF Threads
<1>3. ASSUME NEW th \in Threads, EndCommand(th)
      PROVE  ProgressAt'
  <2>1. ProgressAt /\ UNCHANGED p_session_inprogress
    BY <1>3, CommandKeeps DEF IInv, Progress
  <2>2. /\ task'[th].pc \in {task[th].pc, After[task[th].pc], AfterError(task[th].pc)}
        /\ task[th].pc \in Changing /\ task'[th].session = task[th].session
    BY <1>3, EndCommandDoes DEF SetsPc, SetsPhase
  <2>3. \A o \in Threads \ {th} : task'[o] = task[o]
    BY <1>3, CommandKeeps
  <2>4. Mgr.pc = "feed" => session'[Mgr.session].encoding = session[Mgr.session].encoding
    BY <1>3, CommandKeeps DEF IInv, Calls, AtWork, WithLockMgr
  <2>5. CASE th = "mgr"
    <3>1. Api' = Api
      BY <2>3, <2>5 DEF Api, Threads
    <3>2. CASE Mgr.pc \in {"idleOther", "loadOther"}
      <4>1. Mgr'.pc \in {"idleOther", "loadOther", "forget", "failed"} /\ Mgr'.session = Mgr.session
        BY <2>2, <2>5, <3>2, AfterNames DEF AfterError, Mgr
      <4> QED
        BY <2>1, <3>1, <3>2, <4>1 DEF ProgressAt, Configuring
    <3>3. CASE Mgr.pc \in {"toIdle", "toExec"}
      <4>1. Mgr'.pc \in {"toIdle", "toExec", "configured", "failed"} /\ Mgr'.session = Mgr.session
        BY <2>2, <2>5, <3>3, AfterNames DEF AfterError, Mgr
      <4> QED
        BY <2>1, <3>1, <3>3, <4>1 DEF ProgressAt, Configuring
    <3> QED
      BY <1>3, <2>2, <2>5, <3>2, <3>3, CommandKeeps, ChangingNames DEF Mgr, WithLockMgr
  <2>6. CASE th = "api"
    <3>1. Mgr' = Mgr
      BY <2>3, <2>6 DEF Mgr, Threads
    <3>2. CASE Api.pc \in {"toIdle", "toExec"}
      <4>1. Api'.pc \in {"toIdle", "toExec", "configured", "failed"}
        BY <2>2, <2>6, <3>2, AfterNames DEF AfterError, Api
      <4> QED
        BY <2>1, <2>4, <3>1, <3>2, <4>1 DEF ProgressAt, Configuring
    <3>3. CASE Api.pc \in {"idleSelf", "loadSelf"}
      <4>1. Api'.pc \in {"idleSelf", "loadSelf", "free"}
        BY <2>2, <2>6, <3>3, AfterNames DEF AfterError, Api
      <4> QED
        BY <2>1, <2>4, <3>1, <3>3, <4>1 DEF ProgressAt, Configuring
    <3> QED
      BY <1>3, <2>2, <2>6, <3>2, <3>3, CommandKeeps, ChangingNames
         DEF Api, WithLockApi, Configuring, Aborting, Freeing
  <2> QED
    BY <2>5, <2>6 DEF Threads
<1>4. ASSUME NEW th \in Threads, ConfigMain(th)
      PROVE  ProgressAt'
  BY <1>4, ConfigMainDoes, ChangingNames, AfterNames
     DEF IInv, Calls, Holders, Progress, ProgressAt, Mgr, Api, Threads, WithLockMgr, WithLockApi,
         Configuring, Aborting, Freeing, SetsPc
<1>5. ASSUME NEW th \in Threads, Configured(th)
      PROVE  ProgressAt'
  <2>1. CASE th = "mgr"
    BY <1>5, <2>1, ConfiguredDoes
       DEF IInv, Calls, Holders, Progress, ProgressAt, Mgr, Api, Threads, WithLockMgr, WithLockApi,
           Configuring, SetsPc
  <2>2. CASE th = "api"
    <3>1. Mgr.pc \notin WithLockMgr /\ Mgr' = Mgr
      BY <1>5, <2>2, ConfiguredDoes
         DEF IInv, Calls, Holders, Mgr, Api, Threads, WithLockApi, Configuring, SetsTask
    <3>2. Api'.pc = "idle"
      BY <1>5, <2>2, ConfiguredDoes DEF Api, SetsTask
    <3> QED
      BY <3>1, <3>2 DEF ProgressAt, WithLockMgr, Configuring
  <2> QED
    BY <2>1, <2>2 DEF Threads
<1>6. CASE TakePost \/ ReadOngoing
  BY <1>6, WakingDoes, ChangingNames, AfterNames
     DEF IInv, Calls, Holders, Progress, ProgressAt, Mgr, Api, Threads, WithLockMgr, WithLockApi,
         Configuring, Aborting, Freeing, SetsPc
<1>7. CASE TakeJob
  <2>1. /\ Api' = Api /\ UNCHANGED p_session_inprogress /\ ProgressAt
        /\ Api.pc \notin Configuring
    BY <1>7, TakeJobDoes
       DEF IInv, Calls, Holders, Progress, BeginsJob, SetsPc, SetsTask, Api, Threads, WithLockApi
  <2>2. CASE \E j \in Jobs : BeginsJob(j)
    <3>1. PICK j \in Jobs : BeginsJob(j)
      BY <2>2
    <3>2. owner[j] \in Sessions /\ Mgr'.session = owner[j]
      BY <3>1 DEF BeginsJob, SetsTask, Mgr
    <3>3. session[owner[j]].config <=> p_session_inprogress = owner[j]
      BY <3>2 DEF IInv, Progress, InProgress
    <3>4. \/ Mgr'.pc = "params" /\ p_session_inprogress = owner[j]
          \/ Mgr'.pc = "idleOther" /\ p_session_inprogress # None /\ p_session_inprogress # owner[j]
          \/ Mgr'.pc = "config" /\ p_session_inprogress = None
      BY <3>1, <3>3 DEF BeginsJob, SetsTask, Mgr
    <3> QED
      BY <2>1, <3>2, <3>4 DEF ProgressAt, Configuring
  <2>3. CASE SetsPc("mgr", "idle") \/ SetsPc("mgr", "gone")
    <3>1. Mgr'.pc \in {"idle", "gone"}
      BY <2>3 DEF SetsPc, Mgr
    <3> QED
      BY <2>1, <3>1 DEF ProgressAt, Configuring
  <2> QED
    BY <1>7, <2>2, <2>3, TakeJobDoes
<1>8. CASE ForgetOther
  <2>1. Mgr'.pc = "config" /\ p_session_inprogress' = None
    BY <1>8, ForgetOtherDoes DEF Mgr, SetsPc
  <2> QED
    BY <2>1 DEF ProgressAt, Configuring
<1>9. CASE JobParams
  <2>1. /\ Mgr.pc = "params" /\ Api.pc \notin Configuring /\ Api' = Api
        /\ UNCHANGED p_session_inprogress /\ p_session_inprogress = Mgr.session
        /\ Mgr'.session = Mgr.session
    BY <1>9, JobParamsDoes
       DEF IInv, Calls, Holders, Progress, ProgressAt, WithLockMgr, WithLockApi, SetsPc, Mgr, Api, Threads
  <2>2. Mgr'.pc = "failed" \/ (Mgr'.pc = "feed" /\ session'[Mgr.session].encoding)
    BY <1>9, JobParamsDoes DEF SetsEncoding, SetsPc, Mgr
  <2> QED
    BY <2>1, <2>2 DEF ProgressAt, Configuring
<1>10. CASE Feed
  BY <1>10, FeedDoes, ChangingNames, AfterNames
     DEF IInv, Calls, Holders, Progress, ProgressAt, Mgr, Api, Threads, WithLockMgr, WithLockApi,
         Configuring, Aborting, Freeing, SetsTask, SetsPc
<1>11. CASE JobFailed
  <2>1. /\ Mgr'.pc = "idle" /\ Api' = Api /\ UNCHANGED p_session_inprogress
        /\ Api.pc \in Configuring => p_session_inprogress = None
    BY <1>11, JobFailedDoes DEF IInv, Progress, ProgressAt, SetsTask, Mgr, Api, Threads
  <2> QED
    BY <2>1 DEF ProgressAt, Configuring
<1>12. CASE ConfigureNew
  BY <1>12, ConfigureNewDoes, ChangingNames, AfterNames
     DEF IInv, Calls, Holders, Progress, ProgressAt, Mgr, Api, Threads, WithLockMgr, WithLockApi,
         Configuring, Aborting, Freeing, SetsPc, SetsTask
<1>13. CASE CreateFailed
  BY <1>13, CreateFailedDoes, ChangingNames, AfterNames
     DEF IInv, Calls, Holders, Progress, ProgressAt, Mgr, Api, Threads, WithLockMgr, WithLockApi,
         Configuring, Aborting, Freeing, SetsTask
<1>14. CASE FindJob
  BY <1>14, FindJobDoes, ChangingNames, AfterNames
     DEF IInv, Calls, Holders, Progress, ProgressAt, Mgr, Api, Threads, WithLockMgr, WithLockApi,
         Configuring, Aborting, Freeing, SetsPc, SetsTask
<1>15. CASE DropJobs
  BY <1>15, DropJobsDoes, ChangingNames, AfterNames
     DEF IInv, Calls, Holders, Progress, ProgressAt, Mgr, Api, Threads, WithLockMgr, WithLockApi,
         Configuring, Aborting, Freeing, SetsPc
<1>16. CASE BeginAbort
  <2>1. Mgr' = Mgr /\ UNCHANGED p_session_inprogress /\ ProgressAt
    BY <1>16, BeginAbortDoes DEF IInv, Progress, EndsAbort, SetsPc, SetsTask, Mgr, Threads
  <2>2. Api'.pc \in {"abortSend", "idleSelf", "idle"}
    BY <1>16, BeginAbortDoes DEF EndsAbort, SetsPc, SetsTask, Api
  <2>3. Mgr.pc \notin WithLockMgr
    BY <1>16, BeginAbortDoes DEF IInv, Calls, Holders, WithLockApi, Aborting
  <2> QED
    BY <2>1, <2>2, <2>3 DEF ProgressAt, Configuring, WithLockMgr
<1>17. CASE SendAbort
  BY <1>17, SendAbortDoes, ChangingNames, AfterNames
     DEF IInv, Calls, Holders, Progress, ProgressAt, Mgr, Api, Threads, WithLockMgr, WithLockApi,
         Configuring, Aborting, Freeing, SetsPc
<1>18. CASE EndAbort
  BY <1>18, EndAbortDoes, ChangingNames, AfterNames
     DEF IInv, Calls, Holders, Progress, ProgressAt, Mgr, Api, Threads, WithLockMgr, WithLockApi,
         Configuring, Aborting, Freeing, EndsAbort, SetsAbort, SetsPc, SetsTask
<1>19. CASE FreeSession
  BY <1>19, FreeSessionDoes, ChangingNames, AfterNames
     DEF IInv, Calls, Holders, Progress, ProgressAt, Mgr, Api, Threads, WithLockMgr, WithLockApi,
         Configuring, Aborting, Freeing, SetsSession, SetsTask
<1>20. CASE Join
  BY <1>20, JoinDoes, ChangingNames, AfterNames
     DEF IInv, Calls, Holders, Progress, ProgressAt, Mgr, Api, Threads, WithLockMgr, WithLockApi,
         Configuring, Aborting, Freeing, SetsPc
<1>21. ASSUME NEW s \in Sessions, EncoderDone(s)
      PROVE  ProgressAt'
  BY <1>21, EncoderDoneDoes, ChangingNames, AfterNames
     DEF IInv, Calls, Holders, Progress, ProgressAt, Mgr, Api, Threads, WithLockMgr, WithLockApi,
         Configuring, Aborting, Freeing
<1>22. ASSUME NEW s \in Sessions, EncoderError(s)
      PROVE  ProgressAt'
  <2>1. /\ Mgr.pc = "feed" => Mgr.session \in Sessions
        /\ ProgressAt /\ Mgr' = Mgr /\ Api' = Api /\ UNCHANGED p_session_inprogress
    BY <1>22, EncoderKeeps DEF IInv, Calls, AtWork, Progress, ProgressAt, WithLockMgr, Mgr, Api
  <2>2. \A r \in Sessions : session'[r].encoding = session[r].encoding
    BY <1>22, EncoderErrorDoes DEF SetsAbort, SetsError
  <2> QED
    BY <2>1, <2>2 DEF ProgressAt
<1>23. ASSUME NEW s \in Sessions, EncoderChanges(s)
      PROVE  ProgressAt'
  <2>1. /\ Mgr.pc = "feed" => Mgr.session \in Sessions
        /\ ProgressAt /\ Mgr' = Mgr /\ Api' = Api /\ UNCHANGED p_session_inprogress
    BY <1>23, EncoderKeeps DEF IInv, Calls, AtWork, Progress, ProgressAt, WithLockMgr, Mgr, Api
  <2>2. \A r \in Sessions : session'[r].encoding = session[r].encoding
    BY <1>23, EncoderChangesDoes DEF SetsAbort, SetsPending
  <2> QED
    BY <2>1, <2>2 DEF ProgressAt
<1>24. ASSUME NEW s \in Sessions, FinishJob(s)
      PROVE  ProgressAt'
  <2>1. /\ Mgr.pc = "feed" => Mgr.session \in Sessions
        /\ ProgressAt /\ Mgr' = Mgr /\ Api' = Api /\ UNCHANGED p_session_inprogress
    BY <1>24, EncoderKeeps DEF IInv, Calls, AtWork, Progress, ProgressAt, WithLockMgr, Mgr, Api
  <2>2. Mgr.pc = "feed" => Mgr.session # s
    BY <1>24, <2>1, FinishJobDoes DEF IInv, Handles, HandlesAt
  <2>3. \A r \in Sessions \ {s} : session'[r] = session[r]
    BY <1>24, FinishJobDoes DEF SetsReturned
  <2> QED
    BY <2>1, <2>2, <2>3 DEF ProgressAt
<1>25. ASSUME NEW s \in Sessions, CreateSession(s)
      PROVE  ProgressAt'
  <2>1. /\ Mgr.pc = "feed" => Mgr.session \in Sessions /\ session[Mgr.session].active
        /\ ProgressAt /\ Mgr' = Mgr /\ Api'.pc = "create" /\ UNCHANGED p_session_inprogress
    BY <1>25, CreateSessionDoes
       DEF IInv, Calls, AtWork, Progress, ProgressAt, WithLockMgr, Mgr, Api, SetsTask, Threads
  <2>2. \A r \in Sessions : session[r].active => session'[r] = session[r]
    BY <1>25, CreateSessionDoes DEF SetsSession
  <2> QED
    BY <2>1, <2>2 DEF ProgressAt, Configuring
<1>26. ASSUME NEW s \in Sessions, StopSession(s)
      PROVE  ProgressAt'
  BY <1>26, StopSessionDoes, ChangingNames, AfterNames
     DEF IInv, Calls, Holders, Progress, ProgressAt, Mgr, Api, Threads, WithLockMgr, WithLockApi,
         Configuring, Aborting, Freeing
<1>27. ASSUME NEW s \in Sessions, DestroySession(s)
      PROVE  ProgressAt'
  BY <1>27, DestroySessionDoes, ChangingNames, AfterNames
     DEF IInv, Calls, Holders, Progress, ProgressAt, Mgr, Api, Threads, WithLockMgr, WithLockApi,
         Configuring, Aborting, Freeing, SetsTask
<1>28. ASSUME NEW s \in Sessions, NEW j \in Jobs, StartJob(s, j)
      PROVE  ProgressAt'
  BY <1>28, StartJobDoes, ChangingNames, AfterNames
     DEF IInv, Calls, Holders, Progress, ProgressAt, Mgr, Api, Threads, WithLockMgr, WithLockApi,
         Configuring, Aborting, Freeing
<1>29. ASSUME NEW j \in Jobs, AbortJob(j)
      PROVE  ProgressAt'
  BY <1>29, AbortJobDoes, ChangingNames, AfterNames
     DEF IInv, Calls, Holders, Progress, ProgressAt, Mgr, Api, Threads, WithLockMgr, WithLockApi,
         Configuring, Aborting, Freeing, SetsTask
<1>30. CASE Release
  BY <1>30, ReleaseDoes, ChangingNames, AfterNames
     DEF IInv, Calls, Holders, Progress, ProgressAt, Mgr, Api, Threads, WithLockMgr, WithLockApi,
         Configuring, Aborting, Freeing, SetsTask
<1>31. CASE UNCHANGED vars
  BY <1>31, ChangingNames, AfterNames
     DEF IInv, Calls, Holders, Progress, ProgressAt, Mgr, Api, Threads, WithLockMgr, WithLockApi,
         Configuring, Aborting, Freeing, vars, queues, clients, history
<1> QED
  BY <1>1, <1>2, <1>3, <1>4, <1>5, <1>6, <1>7, <1>8, <1>9, <1>10, <1>11, <1>12, <1>13, <1>14,
     <1>15, <1>16, <1>17, <1>18, <1>19, <1>20, <1>21, <1>22, <1>23, <1>24, <1>25, <1>26, <1>27,
     <1>28, <1>29, <1>30, <1>31
     DEF Next, Manager, InCall, Working, Encoder, Threads

-----------------------------------------------------------------------------
(* The encoders.                                                           *)

\* The manager and a client's call are not both at work with the lock.
LEMMA Exclusion ==
  ASSUME IInv
  PROVE  /\ Mgr.pc \in WithLockMgr => Api.pc \notin WithLockApi
         /\ job_lock = "free" => Mgr.pc \notin WithLockMgr /\ Api.pc \notin WithLockApi
         /\ Mgr.pc \notin WithLockMgr => Mgr.session = None
         /\ Mgr.pc \in WithLockMgr => Mgr.session \in Sessions
BY DEF IInv, Calls, Holders, AtWork

\* A session a thread is at, with the lock, is there.
LEMMA ThreadActive ==
  ASSUME IInv, NEW th \in Threads
  PROVE  /\ task[th].pc \in Changing => Changed(th) \in Sessions /\ session[Changed(th)].active
         /\ task[th].pc \in WithLockMgr \cup WithLockApi =>
              task[th].session \in Sessions /\ session[task[th].session].active
<1>1. Mgr.pc \in WithLockMgr => session[Mgr.session].active
  BY DEF IInv, Calls, AtWork
<1>2. Api.pc \in WithLockApi => session[Api.session].active
  BY DEF IInv, Calls, InCalls
<1>3. Mgr.pc \in {"idleOther", "loadOther"} => session[p_session_inprogress].active
  BY DEF IInv, Types, OtherTypes, Progress, ProgressAt, InProgress
<1>4. /\ Mgr.pc \in WithLockMgr \cup {"idle", "woken", "ready", "gone"}
      /\ Api.pc \in WithLockApi \cup {"idle", "create", "abortJob", "destroy", "join", "closed"}
  BY DEF IInv, Calls, Holders
<1>5. /\ task[th].pc \in Changing => Changed(th) \in Sessions
      /\ task[th].pc \in WithLockMgr \cup WithLockApi => task[th].session \in Sessions
  BY ThreadSession
<1>6. CASE th = "mgr"
  BY <1>1, <1>3, <1>4, <1>5, <1>6, ChangingNames
     DEF Mgr, Changed, WithLockMgr, WithLockApi, Aborting, Freeing, Configuring
<1>7. CASE th = "api"
  BY <1>2, <1>4, <1>5, <1>7, ChangingNames
     DEF Api, Changed, WithLockMgr, WithLockApi, Aborting, Freeing, Configuring
<1> QED
  BY <1>6, <1>7 DEF Threads

\* Only session s, its encoder and its callback change.
Only(s) ==
  /\ s \in Sessions
  /\ \A r \in Sessions \ {s} : session'[r] = session[r] /\ omx'[r] = omx[r] /\ finishing'[r] = finishing[r]

\* The session of a step that is at a session.
LEMMA OnlyOne ==
  ASSUME IInv
  PROVE  /\ \A th \in Threads : SendCommand(th) \/ CheckCommand(th) \/ EndCommand(th) => Only(Changed(th))
         /\ \A th \in Threads : Configured(th) => Only(task[th].session)
         /\ \A j \in Jobs : TakeJob /\ BeginsJob(j) => Only(owner[j])
         /\ ForgetOther => Only(p_session_inprogress)
         /\ JobParams \/ Feed \/ JobFailed => Only(Mgr.session)
         /\ BeginAbort \/ SendAbort \/ EndAbort \/ FreeSession => Only(Api.session)
         /\ \A s \in Sessions :
              EncoderDone(s) \/ EncoderError(s) \/ EncoderChanges(s) \/ FinishJob(s) \/ CreateSession(s) =>
                Only(s)
<1>1. ASSUME NEW th \in Threads, SendCommand(th) \/ CheckCommand(th) \/ EndCommand(th)
      PROVE  Only(Changed(th))
  <2>1. CASE SendCommand(th)
    BY <2>1, SendCommandDoes DEF Only, SetsPending, SetsCmd
  <2>2. CASE CheckCommand(th)
    BY <2>2, CheckCommandDoes DEF Only, SetsBufs
  <2>3. CASE EndCommand(th)
    BY <2>3, EndCommandDoes DEF Only
  <2> QED
    BY <1>1, <2>1, <2>2, <2>3
<1>2. ASSUME NEW th \in Threads, Configured(th)
      PROVE  Only(task[th].session)
  BY <1>2, ConfiguredDoes DEF Only, SetsConfig
<1>3. ASSUME NEW j \in Jobs, TakeJob, BeginsJob(j)
      PROVE  Only(owner[j])
  BY <1>3, TakeJobDoes DEF Only, BeginsJob, SetsBegun
<1>4. ASSUME ForgetOther
      PROVE  Only(p_session_inprogress)
  BY <1>4, ForgetOtherDoes DEF Only, SetsConfig
<1>5. ASSUME JobParams \/ Feed \/ JobFailed
      PROVE  Only(Mgr.session)
  <2>1. CASE JobParams
    BY <2>1, JobParamsDoes DEF Only, SetsEncoding
  <2>2. CASE Feed
    BY <2>2, FeedDoes DEF Only, SetsJob
  <2>3. CASE JobFailed
    BY <2>3, JobFailedDoes DEF Only, SetsReturned
  <2> QED
    BY <1>5, <2>1, <2>2, <2>3
<1>6. ASSUME BeginAbort \/ SendAbort \/ EndAbort \/ FreeSession
      PROVE  Only(Api.session)
  <2>1. CASE BeginAbort
    BY <2>1, BeginAbortDoes DEF Only, SetsAborting, EndsAbort, SetsAbort
  <2>2. CASE SendAbort
    BY <2>2, SendAbortDoes DEF Only, SetsCmd
  <2>3. CASE EndAbort
    BY <2>3, EndAbortDoes DEF Only, EndsAbort, SetsAbort
  <2>4. CASE FreeSession
    BY <2>4, FreeSessionDoes DEF Only, SetsSession, SetsOmx
  <2> QED
    BY <1>6, <2>1, <2>2, <2>3, <2>4
<1>7. ASSUME NEW s \in Sessions,
             EncoderDone(s) \/ EncoderError(s) \/ EncoderChanges(s) \/ FinishJob(s) \/ CreateSession(s)
      PROVE  Only(s)
  <2>1. CASE EncoderDone(s) \/ EncoderError(s) \/ EncoderChanges(s) \/ FinishJob(s)
    BY <2>1, EncoderKeeps DEF Only
  <2>2. CASE CreateSession(s)
    BY <2>2, CreateSessionDoes DEF Only, SetsSession, SetsOmx
  <2> QED
    BY <1>7, <2>1, <2>2
<1> QED
  BY <1>1, <1>2, <1>3, <1>4, <1>5, <1>6, <1>7

\* A step at a session that is there leaves alone what is not.
LEMMA AbsentKept ==
  ASSUME IInv, NEW s \in Sessions, Only(s), session'[s].active
  PROVE  Absent'
BY DEF IInv, Absent, AbsentAt, Only

\* A session whose encoder or callback is at work is there.
LEMMA BusyIsThere ==
  ASSUME IInv, NEW s \in Sessions,
         omx[s].job # 0 \/ omx[s].cmd # "none" \/ finishing[s] \/ session[s].encoding
  PROVE  session[s].active
BY DEF IInv, Absent, AbsentAt, NoSession, NoOmx

\* Every step leaves alone what is not there.
LEMMA AbsentStep ==
  ASSUME IInv, [Next]_vars
  PROVE  Absent'
<1>1. ASSUME NEW th \in Threads, SendCommand(th)
      PROVE  Absent'
  <2>1. session'[Changed(th)].active
    BY <1>1, CommandKeeps, ThreadActive
  <2> QED
    BY <1>1, <2>1, OnlyOne, AbsentKept DEF Only
<1>2. ASSUME NEW th \in Threads, CheckCommand(th)
      PROVE  Absent'
  <2>1. session'[Changed(th)].active
    BY <1>2, CommandKeeps, ThreadActive
  <2> QED
    BY <1>2, <2>1, OnlyOne, AbsentKept DEF Only
<1>3. ASSUME NEW th \in Threads, EndCommand(th)
      PROVE  Absent'
  <2>1. session'[Changed(th)].active
    BY <1>3, CommandKeeps, ThreadActive
  <2> QED
    BY <1>3, <2>1, OnlyOne, AbsentKept DEF Only
<1>4. ASSUME NEW th \in Threads, ConfigMain(th)
      PROVE  Absent'
  BY <1>4, ConfigMainDoes DEF IInv, Absent, AbsentAt
<1>5. ASSUME NEW th \in Threads, Configured(th)
      PROVE  Absent'
  <2>1. session'[task[th].session].active
    BY <1>5, ConfiguredDoes, ThreadActive DEF SetsConfig, WithLockMgr
  <2> QED
    BY <1>5, <2>1, OnlyOne, AbsentKept DEF Only
<1>6. CASE TakePost \/ ReadOngoing
  BY <1>6, WakingDoes DEF IInv, Absent, AbsentAt
<1>7. CASE TakeJob
  <2>1. CASE \E j \in Jobs : BeginsJob(j)
    <3>1. PICK j \in Jobs : BeginsJob(j)
      BY <2>1
    <3>2. Only(owner[j]) /\ session'[owner[j]].active
      BY <1>7, <3>1, OnlyOne DEF BeginsJob, SetsBegun, IInv, Answers, Waiting
    <3> QED
      BY <3>2, AbsentKept DEF Only
  <2>2. CASE UNCHANGED session
    BY <1>7, <2>2, TakeJobDoes DEF IInv, Absent, AbsentAt
  <2> QED
    BY <1>7, <2>1, <2>2, TakeJobDoes
<1>8. CASE ForgetOther
  <2>1. session'[p_session_inprogress].active
    BY <1>8, ForgetOtherDoes DEF SetsConfig, IInv, Progress, InProgress
  <2> QED
    BY <1>8, <2>1, OnlyOne, AbsentKept DEF Only
<1>9. CASE JobParams
  <2>1. session'[Mgr.session].active
    BY <1>9, JobParamsDoes, ThreadActive DEF SetsEncoding, WithLockMgr, Mgr, Threads
  <2> QED
    BY <1>9, <2>1, OnlyOne, AbsentKept DEF Only
<1>10. CASE Feed
  <2>1. session'[Mgr.session].active
    BY <1>10, FeedDoes, ThreadActive DEF WithLockMgr, Mgr, Threads
  <2> QED
    BY <1>10, <2>1, OnlyOne, AbsentKept DEF Only
<1>11. CASE JobFailed
  <2>1. session'[Mgr.session].active
    BY <1>11, JobFailedDoes, ThreadActive DEF SetsReturned, WithLockMgr, Mgr, Threads
  <2> QED
    BY <1>11, <2>1, OnlyOne, AbsentKept DEF Only
<1>12. CASE ConfigureNew
  BY <1>12, ConfigureNewDoes DEF IInv, Absent, AbsentAt
<1>13. CASE CreateFailed
  BY <1>13, CreateFailedDoes DEF IInv, Absent, AbsentAt
<1>14. CASE FindJob
  BY <1>14, FindJobDoes DEF IInv, Absent, AbsentAt
<1>15. CASE DropJobs
  BY <1>15, DropJobsDoes DEF IInv, Absent, AbsentAt
<1>16. CASE BeginAbort
  <2>1. session'[Api.session].active
    BY <1>16, BeginAbortDoes, ThreadActive
       DEF SetsAborting, EndsAbort, SetsAbort, WithLockApi, Aborting, Api, Threads
  <2> QED
    BY <1>16, <2>1, OnlyOne, AbsentKept DEF Only
<1>17. CASE SendAbort
  <2>1. session'[Api.session].active
    BY <1>17, SendAbortDoes, ThreadActive DEF WithLockApi, Aborting, Api, Threads
  <2> QED
    BY <1>17, <2>1, OnlyOne, AbsentKept DEF Only
<1>18. CASE EndAbort
  <2>1. session'[Api.session].active
    BY <1>18, EndAbortDoes, ThreadActive DEF EndsAbort, SetsAbort, WithLockApi, Aborting, Api, Threads
  <2> QED
    BY <1>18, <2>1, OnlyOne, AbsentKept DEF Only
<1>19. CASE FreeSession
  <2>1. session'[Api.session] = NoSession /\ omx'[Api.session] = NoOmx /\ Only(Api.session)
    BY <1>19, FreeSessionDoes, OnlyOne DEF SetsSession, SetsOmx
  <2>2. ~finishing'[Api.session]
    BY <1>19, FreeSessionDoes DEF IInv, Aborts, AbortsAt, Freeing
  <2> QED
    BY <2>1, <2>2 DEF IInv, Absent, AbsentAt, Only
<1>20. CASE Join
  BY <1>20, JoinDoes DEF IInv, Absent, AbsentAt
<1>21. ASSUME NEW s \in Sessions, EncoderDone(s)
      PROVE  Absent'
  <2>1. session'[s].active
    BY <1>21, EncoderDoneDoes, EncoderKeeps, BusyIsThere
  <2> QED
    BY <1>21, <2>1, OnlyOne, AbsentKept DEF Only
<1>22. ASSUME NEW s \in Sessions, EncoderError(s)
      PROVE  Absent'
  <2>1. session'[s].active
    BY <1>22, EncoderErrorDoes, EncoderKeeps, BusyIsThere
  <2> QED
    BY <1>22, <2>1, OnlyOne, AbsentKept DEF Only
<1>23. ASSUME NEW s \in Sessions, EncoderChanges(s)
      PROVE  Absent'
  <2>1. session'[s].active
    BY <1>23, EncoderChangesDoes, EncoderKeeps, BusyIsThere
  <2> QED
    BY <1>23, <2>1, OnlyOne, AbsentKept DEF Only
<1>24. ASSUME NEW s \in Sessions, FinishJob(s)
      PROVE  Absent'
  <2>1. session'[s].active
    BY <1>24, FinishJobDoes, EncoderKeeps, BusyIsThere
  <2> QED
    BY <1>24, <2>1, OnlyOne, AbsentKept DEF Only
<1>25. ASSUME NEW s \in Sessions, CreateSession(s)
      PROVE  Absent'
  <2>1. session'[s].active
    BY <1>25, CreateSessionDoes, NewSession DEF SetsSession
  <2> QED
    BY <1>25, <2>1, OnlyOne, AbsentKept DEF Only
<1>26. ASSUME NEW s \in Sessions, StopSession(s)
      PROVE  Absent'
  BY <1>26, StopSessionDoes DEF IInv, Absent, AbsentAt
<1>27. ASSUME NEW s \in Sessions, DestroySession(s)
      PROVE  Absent'
  BY <1>27, DestroySessionDoes DEF IInv, Absent, AbsentAt
<1>28. ASSUME NEW s \in Sessions, NEW j \in Jobs, StartJob(s, j)
      PROVE  Absent'
  BY <1>28, StartJobDoes DEF IInv, Absent, AbsentAt
<1>29. ASSUME NEW j \in Jobs, AbortJob(j)
      PROVE  Absent'
  BY <1>29, AbortJobDoes DEF IInv, Absent, AbsentAt
<1>30. CASE Release
  BY <1>30, ReleaseDoes DEF IInv, Absent, AbsentAt
<1>31. CASE UNCHANGED vars
  BY <1>31 DEF IInv, Absent, AbsentAt, vars, queues, clients, history
<1> QED
  BY <1>1, <1>2, <1>3, <1>4, <1>5, <1>6, <1>7, <1>8, <1>9, <1>10, <1>11, <1>12, <1>13, <1>14,
     <1>15, <1>16, <1>17, <1>18, <1>19, <1>20, <1>21, <1>22, <1>23, <1>24, <1>25, <1>26, <1>27,
     <1>28, <1>29, <1>30, <1>31
     DEF Next, Manager, InCall, Working, Encoder, Threads

\* The manager takes its encoder from the session in progress.
OtherMoves ==
  LET s == p_session_inprogress
  IN  /\ s \in Sessions /\ Mgr.session \in Sessions /\ s # Mgr.session /\ Api.pc \notin WithLockApi
      /\ Api' = Api /\ Mgr'.session = Mgr.session /\ Mgr'.job = Mgr.job
      /\ \/ Moves("mgr", s, "idleOther", omx[s].state = "Executing", "Idle", omx[s].bufs, "loadOther", "failed")
         \/ Moves("mgr", s, "loadOther", omx[s].state = "Idle", "Loaded", FALSE, "forget", "failed")

\* The encoder of a session is brought to Executing, by either thread.
SetMoves(th) ==
  LET s == task[th].session
  IN  /\ s \in Sessions /\ session[s].active /\ p_session_inprogress = None
      /\ IF th = "mgr" THEN Api.pc \notin WithLockApi ELSE Mgr.pc \notin WithLockMgr /\ Mgr.session = None
      /\ \A o \in Threads \ {th} : task'[o] = task[o]
      /\ task'[th].session = task[th].session /\ task'[th].job = task[th].job
      /\ \/ Moves(th, s, "toIdle", omx[s].state # "Idle", "Idle", TRUE, "toExec", "failed")
         \/ Moves(th, s, "toExec", omx[s].state # "Executing", "Executing", omx[s].bufs, "configured", "failed")

\* The encoder of a session that is destroyed is brought back to Loaded.
SelfMoves ==
  LET s == Api.session
  IN  /\ s \in Sessions /\ session[s].active /\ Mgr.session = None /\ Mgr.pc \notin WithLockMgr
      /\ Mgr' = Mgr /\ Api'.session = Api.session /\ Api'.job = Api.job
      /\ \/ Moves("api", s, "idleSelf", omx[s].state = "Executing", "Idle", omx[s].bufs, "loadSelf", "loadSelf")
         \/ Moves("api", s, "loadSelf", omx[s].state = "Idle", "Loaded", FALSE, "free", "free")

\* A step of a change is one of these.
LEMMA Commands ==
  ASSUME IInv, NEW th \in Threads, SendCommand(th) \/ CheckCommand(th) \/ EndCommand(th)
  PROVE  (th = "mgr" /\ OtherMoves) \/ SetMoves(th) \/ (th = "api" /\ SelfMoves)
<1>1. /\ task[th].pc \in Changing /\ \A o \in Threads \ {th} : task'[o] = task[o]
      /\ task'[th].session = task[th].session /\ task'[th].job = task[th].job
      /\ th = "mgr" => task[th].pc \in WithLockMgr
      /\ th = "api" => task[th].pc \in WithLockApi
  BY CommandKeeps
<1>2. /\ Changed(th) \in Sessions /\ session[Changed(th)].active
      /\ task[th].session \in Sessions /\ session[task[th].session].active
  BY <1>1, ThreadActive DEF Threads
<1>3. th = "mgr" => Api.pc \notin WithLockApi /\ Api' = Api
  BY <1>1, Exclusion DEF Mgr, Api, Threads
<1>4. th = "api" => Mgr.pc \notin WithLockMgr /\ Mgr.session = None /\ Mgr' = Mgr
  BY <1>1, Exclusion DEF Mgr, Api, Threads
<1>5. CASE task[th].pc \in {"idleOther", "loadOther"}
  <2>1. th = "mgr"
    BY <1>1, <1>5 DEF WithLockApi, Configuring, Aborting, Freeing, Threads
  <2>2. Changed(th) = p_session_inprogress /\ p_session_inprogress # Mgr.session
    BY <1>5, <2>1 DEF Changed, IInv, Progress, ProgressAt, Mgr
  <2>3. CASE task[th].pc = "idleOther"
    BY <1>1, <1>2, <1>3, <2>1, <2>2, <2>3, IdleOtherMoves DEF OtherMoves, Mgr
  <2>4. CASE task[th].pc = "loadOther"
    BY <1>1, <1>2, <1>3, <2>1, <2>2, <2>4, LoadOtherMoves DEF OtherMoves, Mgr
  <2> QED
    BY <1>5, <2>3, <2>4
<1>6. CASE task[th].pc \in {"toIdle", "toExec"}
  <2>1. Changed(th) = task[th].session
    BY <1>6 DEF Changed
  <2>2. p_session_inprogress = None
    BY <1>6 DEF IInv, Progress, ProgressAt, Mgr, Api, Threads, Configuring
  <2>3. CASE task[th].pc = "toIdle"
    BY <1>1, <1>2, <1>3, <1>4, <2>1, <2>2, <2>3, ToIdleMoves DEF SetMoves, Threads
  <2>4. CASE task[th].pc = "toExec"
    BY <1>1, <1>2, <1>3, <1>4, <2>1, <2>2, <2>4, ToExecMoves DEF SetMoves, Threads
  <2> QED
    BY <1>6, <2>3, <2>4
<1>7. CASE task[th].pc \in {"idleSelf", "loadSelf"}
  <2>1. th = "api"
    BY <1>1, <1>7 DEF WithLockMgr, Threads
  <2>2. Changed(th) = Api.session
    BY <1>7, <2>1 DEF Changed, Api
  <2>3. CASE task[th].pc = "idleSelf"
    BY <1>1, <1>2, <1>4, <2>1, <2>2, <2>3, IdleSelfMoves DEF SelfMoves, Api
  <2>4. CASE task[th].pc = "loadSelf"
    BY <1>1, <1>2, <1>4, <2>1, <2>2, <2>4, LoadSelfMoves DEF SelfMoves, Api
  <2> QED
    BY <1>7, <2>3, <2>4
<1> QED
  BY <1>1, <1>5, <1>6, <1>7, ChangingNames

\* A session that is not concerned keeps its place.
LEMMA RestingKept ==
  ASSUME IInv, NEW r \in Sessions, session'[r] = session[r], omx'[r] = omx[r],
         p_session_inprogress' # r => p_session_inprogress # r, BeingSet(r) => BeingSet(r)'
  PROVE  RestingAt(r)'
BY DEF IInv, Encoders, Resting, RestingAt

\* Every step keeps Loaded the encoders that are not in progress.
LEMMA RestingStep ==
  ASSUME IInv, [Next]_vars
  PROVE  Resting'
<1>1. ASSUME NEW th \in Threads, SendCommand(th) \/ CheckCommand(th) \/ EndCommand(th)
      PROVE  Resting'
  <2>1. p_session_inprogress' = p_session_inprogress
    BY <1>1, CommandKeeps
  <2>2. CASE th = "mgr" /\ OtherMoves
    <3>1. /\ Api' = Api /\ Mgr'.session = Mgr.session /\ Mgr.pc \in {"idleOther", "loadOther"}
          /\ \A r \in Sessions \ {p_session_inprogress} : session'[r] = session[r] /\ omx'[r] = omx[r]
      BY <2>2 DEF OtherMoves, Moves, Mgr
    <3>2. \A r \in Sessions \ {p_session_inprogress} : RestingAt(r)'
      BY <2>1, <3>1, RestingKept DEF BeingSet
    <3> QED
      BY <2>1, <3>2 DEF Resting, RestingAt
  <2>3. CASE SetMoves(th)
    <3>0. PICK s \in Sessions : s = task[th].session
      BY <2>3 DEF SetMoves
    <3>1. /\ p_session_inprogress = None /\ task'[th].session = s
          /\ \A o \in Threads \ {th} : task'[o] = task[o]
          /\ \A r \in Sessions \ {s} : session'[r] = session[r] /\ omx'[r] = omx[r]
      BY <2>3, <3>0 DEF SetMoves, Moves
    <3>2. \A r \in Sessions \ {s} : RestingAt(r)'
      BY <2>1, <3>0, <3>1, RestingKept DEF BeingSet, Threads, Mgr, Api
    <3>3. ~session[s].error
      BY <3>1 DEF IInv, Encoders, Erring, ErringAt, None, Sessions
    <3>4. task'[th].pc \in {"toIdle", "toExec", "configured"}
      BY <2>3, <3>0, <3>3 DEF SetMoves, Moves
    <3>5. BeingSet(s)'
      BY <3>1, <3>4 DEF BeingSet, Threads, Mgr, Api
    <3> QED
      BY <3>2, <3>5 DEF Resting, RestingAt
  <2>4. CASE th = "api" /\ SelfMoves
    <3>0. PICK s \in Sessions : s = Api.session
      BY <2>4 DEF SelfMoves
    <3>1. /\ session[s].active /\ Mgr.session = None /\ Mgr' = Mgr /\ Api'.session = s
          /\ Api.pc \in {"idleSelf", "loadSelf"}
          /\ \A r \in Sessions \ {s} : session'[r] = session[r] /\ omx'[r] = omx[r]
      BY <2>4, <3>0 DEF SelfMoves, Moves, Api
    <3>2. \A r \in Sessions \ {s} : RestingAt(r)'
      BY <2>1, <3>0, <3>1, RestingKept DEF BeingSet
    <3>3. ASSUME p_session_inprogress # s
          PROVE  RestingAt(s)'
      <4>1. ~BeingSet(s)
        BY <3>1 DEF BeingSet, None, Sessions
      <4>2. omx[s].state = "Loaded" /\ omx[s].cmd = "none" /\ omx[s].job = 0
        BY <3>1, <3>3, <4>1 DEF IInv, Encoders, Resting, RestingAt
      <4>3. omx'[s].state = "Loaded" /\ omx'[s].cmd = "none" /\ omx'[s].job = 0
        BY <2>4, <3>0, <4>2 DEF SelfMoves, Moves
      <4> QED
        BY <4>3 DEF RestingAt
    <3>4. p_session_inprogress = s => RestingAt(s)'
      BY <2>1 DEF RestingAt
    <3> QED
      BY <3>2, <3>3, <3>4 DEF Resting
  <2> QED
    BY <1>1, <2>2, <2>3, <2>4, Commands
<1>2. ASSUME NEW th \in Threads, ConfigMain(th)
      PROVE  Resting'
  <2>1. UNCHANGED <<session, omx, p_session_inprogress>>
    BY <1>2, ConfigMainDoes
  <2>2. \A r \in Sessions : BeingSet(r) => BeingSet(r)'
    BY <1>2, ConfigMainDoes DEF BeingSet, Mgr, Api, Threads, SetsPc
  <2> QED
    BY <2>1, <2>2, RestingKept DEF Resting
<1>3. ASSUME NEW th \in Threads, Configured(th)
      PROVE  Resting'
  <2>1. PICK s \in Sessions : s = task[th].session /\ Only(s)
    BY <1>3, OnlyOne DEF Only
  <2>2. \A r \in Sessions \ {s} : p_session_inprogress' # r => p_session_inprogress # r
    <3>1. p_session_inprogress = None
      BY <1>3, ConfiguredDoes DEF IInv, Progress, ProgressAt, Configuring, Threads, Mgr, Api
    <3> QED
      BY <3>1 DEF None, Sessions
  <2>3. \A r \in Sessions \ {s} : BeingSet(r) => BeingSet(r)'
    BY <1>3, <2>1, ConfiguredDoes DEF BeingSet, Mgr, Api, Threads, SetsPc, SetsTask
  <2>4. \A r \in Sessions \ {s} : RestingAt(r)'
    BY <2>1, <2>2, <2>3, RestingKept DEF Only
  <2>5. RestingAt(s)'
    BY <1>3, <2>1, ConfiguredDoes DEF RestingAt
  <2> QED
    BY <2>4, <2>5 DEF Resting
<1>4. CASE TakePost \/ ReadOngoing
  <2>1. UNCHANGED <<session, omx, p_session_inprogress>>
    BY <1>4, WakingDoes
  <2>2. \A r \in Sessions : BeingSet(r) => BeingSet(r)'
    BY <1>4, WakingDoes DEF BeingSet, Mgr, Api, Threads, SetsPc
  <2> QED
    BY <2>1, <2>2, RestingKept DEF Resting
<1>5. CASE TakeJob
  <2>1. UNCHANGED <<omx, p_session_inprogress>> /\ Mgr.pc = "ready"
    BY <1>5, TakeJobDoes
  <2>2. \A r \in Sessions : session'[r].active = session[r].active
    BY <1>5, TakeJobDoes DEF BeginsJob, SetsBegun
  <2>3. \A r \in Sessions : BeingSet(r) => BeingSet(r)'
    BY <1>5, TakeJobDoes DEF BeginsJob, BeingSet, Mgr, Api, Threads, SetsPc, SetsTask
  <2> QED
    BY <2>1, <2>2, <2>3 DEF IInv, Encoders, Resting, RestingAt
<1>6. CASE ForgetOther
  <2>0. Mgr.pc = "forget" /\ UNCHANGED omx
    BY <1>6, ForgetOtherDoes
  <2>1. PICK s \in Sessions : s = p_session_inprogress /\ Only(s)
    BY <1>6, OnlyOne, ForgetOtherDoes
  <2>2. \A r \in Sessions : BeingSet(r) => BeingSet(r)'
    BY <1>6, ForgetOtherDoes DEF BeingSet, Mgr, Api, Threads, SetsPc
  <2>3. \A r \in Sessions \ {s} : RestingAt(r)'
    BY <2>1, <2>2, RestingKept DEF Only
  <2>4. omx[s].state = "Loaded" /\ omx[s].cmd = "none"
    BY <2>0, <2>1 DEF IInv, Changes, Unsetting, Only, None, Sessions
  <2>5. omx[s].job = 0
    BY <2>1, <2>4 DEF IInv, Running, RunningAt, Only
  <2>6. RestingAt(s)'
    BY <2>0, <2>1, <2>4, <2>5 DEF RestingAt
  <2> QED
    BY <2>3, <2>6 DEF Resting
<1>7. CASE JobParams
  <2>1. PICK s \in Sessions : s = Mgr.session /\ Only(s)
    BY <1>7, OnlyOne DEF Only
  <2>2. \A r \in Sessions \ {s} : p_session_inprogress' # r => p_session_inprogress # r
    BY <1>7, <2>1, JobParamsDoes
  <2>3. \A r \in Sessions \ {s} : BeingSet(r) => BeingSet(r)'
    BY <1>7, <2>1, JobParamsDoes DEF BeingSet, Mgr, Api, Threads, SetsPc
  <2>4. \A r \in Sessions \ {s} : RestingAt(r)'
    BY <2>1, <2>2, <2>3, RestingKept DEF Only
  <2>5. RestingAt(s)'
    BY <1>7, <2>1, JobParamsDoes DEF RestingAt, IInv, Progress, ProgressAt
  <2> QED
    BY <2>4, <2>5 DEF Resting
<1>8. CASE Feed
  <2>1. PICK s \in Sessions : s = Mgr.session /\ Only(s)
    BY <1>8, OnlyOne DEF Only
  <2>2. \A r \in Sessions \ {s} : p_session_inprogress' # r => p_session_inprogress # r
    BY <1>8, <2>1, FeedDoes
  <2>3. \A r \in Sessions \ {s} : BeingSet(r) => BeingSet(r)'
    BY <1>8, <2>1, FeedDoes DEF BeingSet, Mgr, Api, Threads, SetsPc, SetsTask
  <2>4. \A r \in Sessions \ {s} : RestingAt(r)'
    BY <2>1, <2>2, <2>3, RestingKept DEF Only
  <2>5. RestingAt(s)'
    BY <1>8, <2>1, FeedDoes DEF RestingAt, IInv, Progress, ProgressAt
  <2> QED
    BY <2>4, <2>5 DEF Resting
<1>9. CASE JobFailed
  <2>1. PICK s \in Sessions : s = Mgr.session /\ Only(s)
    BY <1>9, OnlyOne DEF Only
  <2>2. \A r \in Sessions \ {s} : p_session_inprogress' # r => p_session_inprogress # r
    BY <1>9, <2>1, JobFailedDoes
  <2>3. \A r \in Sessions \ {s} : BeingSet(r) => BeingSet(r)'
    BY <1>9, <2>1, JobFailedDoes DEF BeingSet, Mgr, Api, Threads, SetsTask
  <2>4. \A r \in Sessions \ {s} : RestingAt(r)'
    BY <2>1, <2>2, <2>3, RestingKept DEF Only
  <2>5. RestingAt(s)'
    <3>1. session'[s].active = session[s].active /\ omx'[s] = omx[s] /\ p_session_inprogress' = p_session_inprogress
      BY <1>9, <2>1, JobFailedDoes DEF SetsReturned
    <3>2. BeingSet(s) => BeingSet(s)'
      BY <1>9, <2>1, JobFailedDoes DEF BeingSet, Mgr, Api, Threads, SetsTask
    <3> QED
      BY <2>1, <3>1, <3>2 DEF Only, IInv, Encoders, Resting, RestingAt
  <2> QED
    BY <2>4, <2>5 DEF Resting
<1>10. CASE ConfigureNew
  <2>1. UNCHANGED <<session, omx, p_session_inprogress>>
    BY <1>10, ConfigureNewDoes
  <2>2. \A r \in Sessions : BeingSet(r) => BeingSet(r)'
    BY <1>10, ConfigureNewDoes DEF BeingSet, Mgr, Api, Threads, SetsPc, SetsTask
  <2> QED
    BY <2>1, <2>2, RestingKept DEF Resting
<1>11. CASE CreateFailed
  <2>1. UNCHANGED <<session, omx, p_session_inprogress>>
    BY <1>11, CreateFailedDoes
  <2>2. \A r \in Sessions : BeingSet(r) => BeingSet(r)'
    BY <1>11, CreateFailedDoes DEF BeingSet, Mgr, Api, Threads, SetsTask
  <2> QED
    BY <2>1, <2>2, RestingKept DEF Resting
<1>12. CASE FindJob
  <2>1. UNCHANGED <<session, omx, p_session_inprogress>>
    BY <1>12, FindJobDoes
  <2>2. \A r \in Sessions : BeingSet(r) => BeingSet(r)'
    BY <1>12, FindJobDoes DEF BeingSet, Mgr, Api, Threads, SetsPc, SetsTask
  <2> QED
    BY <2>1, <2>2, RestingKept DEF Resting
<1>13. CASE DropJobs
  <2>1. UNCHANGED <<session, omx, p_session_inprogress>>
    BY <1>13, DropJobsDoes
  <2>2. \A r \in Sessions : BeingSet(r) => BeingSet(r)'
    BY <1>13, DropJobsDoes DEF BeingSet, Mgr, Api, Threads, SetsPc
  <2> QED
    BY <2>1, <2>2, RestingKept DEF Resting
<1>14. CASE BeginAbort
  <2>1. PICK s \in Sessions : s = Api.session /\ Only(s)
    BY <1>14, OnlyOne DEF Only
  <2>2. \A r \in Sessions \ {s} : p_session_inprogress' # r => p_session_inprogress # r
    BY <1>14, <2>1, BeginAbortDoes
  <2>3. \A r \in Sessions \ {s} : BeingSet(r) => BeingSet(r)'
    BY <1>14, <2>1, BeginAbortDoes DEF BeingSet, Mgr, Api, Threads, SetsPc, EndsAbort, SetsTask
  <2>4. \A r \in Sessions \ {s} : RestingAt(r)'
    BY <2>1, <2>2, <2>3, RestingKept DEF Only
  <2>5. RestingAt(s)'
    <3>1. session'[s].active = session[s].active /\ omx'[s] = omx[s] /\ p_session_inprogress' = p_session_inprogress
      BY <1>14, <2>1, BeginAbortDoes DEF SetsAborting, EndsAbort, SetsAbort
    <3>2. BeingSet(s) => BeingSet(s)'
      BY <1>14, <2>1, BeginAbortDoes DEF BeingSet, Mgr, Api, Threads, SetsPc, EndsAbort, SetsTask
    <3> QED
      BY <2>1, <3>1, <3>2 DEF Only, IInv, Encoders, Resting, RestingAt
  <2> QED
    BY <2>4, <2>5 DEF Resting
<1>15. CASE SendAbort
  <2>1. PICK s \in Sessions : s = Api.session /\ Only(s)
    BY <1>15, OnlyOne DEF Only
  <2>2. \A r \in Sessions \ {s} : p_session_inprogress' # r => p_session_inprogress # r
    BY <1>15, <2>1, SendAbortDoes
  <2>3. \A r \in Sessions \ {s} : BeingSet(r) => BeingSet(r)'
    BY <1>15, <2>1, SendAbortDoes DEF BeingSet, Mgr, Api, Threads, SetsPc
  <2>4. \A r \in Sessions \ {s} : RestingAt(r)'
    BY <2>1, <2>2, <2>3, RestingKept DEF Only
  <2>5. RestingAt(s)'
    BY <1>15, <2>1, SendAbortDoes DEF RestingAt, IInv, Aborts
  <2> QED
    BY <2>4, <2>5 DEF Resting
<1>16. CASE EndAbort
  <2>1. PICK s \in Sessions : s = Api.session /\ Only(s)
    BY <1>16, OnlyOne DEF Only
  <2>2. \A r \in Sessions \ {s} : p_session_inprogress' # r => p_session_inprogress # r
    BY <1>16, <2>1, EndAbortDoes
  <2>3. \A r \in Sessions \ {s} : BeingSet(r) => BeingSet(r)'
    BY <1>16, <2>1, EndAbortDoes DEF BeingSet, Mgr, Api, Threads, SetsPc, EndsAbort, SetsTask
  <2>4. \A r \in Sessions \ {s} : RestingAt(r)'
    BY <2>1, <2>2, <2>3, RestingKept DEF Only
  <2>5. RestingAt(s)'
    <3>1. session'[s].active = session[s].active /\ omx'[s] = omx[s] /\ p_session_inprogress' = p_session_inprogress
      BY <1>16, <2>1, EndAbortDoes DEF EndsAbort, SetsAbort
    <3>2. BeingSet(s) => BeingSet(s)'
      BY <1>16, <2>1, EndAbortDoes DEF BeingSet, Mgr, Api, Threads, SetsPc, EndsAbort, SetsTask
    <3> QED
      BY <2>1, <3>1, <3>2 DEF Only, IInv, Encoders, Resting, RestingAt
  <2> QED
    BY <2>4, <2>5 DEF Resting
<1>17. CASE FreeSession
  <2>1. PICK s \in Sessions : s = Api.session /\ Only(s)
    BY <1>17, OnlyOne DEF Only
  <2>2. \A r \in Sessions \ {s} : p_session_inprogress' # r => p_session_inprogress # r
    BY <1>17, <2>1, FreeSessionDoes
  <2>3. \A r \in Sessions \ {s} : BeingSet(r) => BeingSet(r)'
    BY <1>17, <2>1, FreeSessionDoes DEF BeingSet, Mgr, Api, Threads, SetsTask
  <2>4. \A r \in Sessions \ {s} : RestingAt(r)'
    BY <2>1, <2>2, <2>3, RestingKept DEF Only
  <2>5. RestingAt(s)'
    BY <1>17, <2>1, FreeSessionDoes DEF RestingAt, SetsSession, NoSession
  <2> QED
    BY <2>4, <2>5 DEF Resting
<1>18. CASE Join
  <2>1. UNCHANGED <<session, omx, p_session_inprogress>>
    BY <1>18, JoinDoes
  <2>2. \A r \in Sessions : BeingSet(r) => BeingSet(r)'
    BY <1>18, JoinDoes DEF BeingSet, Mgr, Api, Threads, SetsPc
  <2> QED
    BY <2>1, <2>2, RestingKept DEF Resting
<1>19. ASSUME NEW s \in Sessions, EncoderDone(s)
      PROVE  Resting'
  <2>1. Only(s)
    BY <1>19, OnlyOne
  <2>2. \A r \in Sessions \ {s} : p_session_inprogress' # r => p_session_inprogress # r
    BY <1>19, <2>1, EncoderDoneDoes
  <2>3. \A r \in Sessions \ {s} : BeingSet(r) => BeingSet(r)'
    BY <1>19, <2>1, EncoderDoneDoes DEF BeingSet, Mgr, Api, Threads, vars
  <2>4. \A r \in Sessions \ {s} : RestingAt(r)'
    BY <2>1, <2>2, <2>3, RestingKept DEF Only
  <2>5. RestingAt(s)'
    BY <1>19, EncoderDoneDoes DEF RestingAt, IInv, Running, RunningAt
  <2> QED
    BY <2>4, <2>5 DEF Resting
<1>20. ASSUME NEW s \in Sessions, EncoderError(s)
      PROVE  Resting'
  <2>1. Only(s)
    BY <1>20, OnlyOne
  <2>2. \A r \in Sessions \ {s} : p_session_inprogress' # r => p_session_inprogress # r
    BY <1>20, <2>1, EncoderErrorDoes
  <2>3. \A r \in Sessions \ {s} : BeingSet(r) => BeingSet(r)'
    BY <1>20, <2>1, EncoderErrorDoes DEF BeingSet, Mgr, Api, Threads, vars
  <2>4. \A r \in Sessions \ {s} : RestingAt(r)'
    BY <2>1, <2>2, <2>3, RestingKept DEF Only
  <2>5. RestingAt(s)'
    BY <1>20, EncoderErrorDoes DEF RestingAt, IInv, Running, RunningAt
  <2> QED
    BY <2>4, <2>5 DEF Resting
<1>21. ASSUME NEW s \in Sessions, EncoderChanges(s)
      PROVE  Resting'
  <2>1. Only(s)
    BY <1>21, OnlyOne
  <2>2. \A r \in Sessions \ {s} : p_session_inprogress' # r => p_session_inprogress # r
    BY <1>21, <2>1, EncoderChangesDoes
  <2>3. \A r \in Sessions \ {s} : BeingSet(r) => BeingSet(r)'
    BY <1>21, <2>1, EncoderChangesDoes DEF BeingSet, Mgr, Api, Threads, vars
  <2>4. \A r \in Sessions \ {s} : RestingAt(r)'
    BY <2>1, <2>2, <2>3, RestingKept DEF Only
  <2>5. RestingAt(s)'
    <3>1. session[s].active /\ omx[s].cmd # "none"
      BY <1>21, EncoderChangesDoes, BusyIsThere
    <3>2. p_session_inprogress = s \/ BeingSet(s)
      BY <3>1 DEF IInv, Encoders, Resting, RestingAt
    <3>3. p_session_inprogress' = p_session_inprogress /\ task' = task
      BY <1>21, EncoderChangesDoes
    <3> QED
      BY <3>2, <3>3 DEF RestingAt, BeingSet, Mgr, Api
  <2> QED
    BY <2>4, <2>5 DEF Resting
<1>22. ASSUME NEW s \in Sessions, FinishJob(s)
      PROVE  Resting'
  <2>1. Only(s)
    BY <1>22, OnlyOne
  <2>2. \A r \in Sessions \ {s} : p_session_inprogress' # r => p_session_inprogress # r
    BY <1>22, <2>1, FinishJobDoes
  <2>3. \A r \in Sessions \ {s} : BeingSet(r) => BeingSet(r)'
    BY <1>22, <2>1, FinishJobDoes DEF BeingSet, Mgr, Api, Threads, vars
  <2>4. \A r \in Sessions \ {s} : RestingAt(r)'
    BY <2>1, <2>2, <2>3, RestingKept DEF Only
  <2>5. RestingAt(s)'
    <3>1. session'[s].active = session[s].active /\ omx'[s] = omx[s] /\ p_session_inprogress' = p_session_inprogress
      BY <1>22, <2>1, FinishJobDoes DEF SetsReturned
    <3>2. BeingSet(s) => BeingSet(s)'
      BY <1>22, <2>1, FinishJobDoes DEF BeingSet, Mgr, Api, Threads, vars
    <3> QED
      BY <2>1, <3>1, <3>2 DEF Only, IInv, Encoders, Resting, RestingAt
  <2> QED
    BY <2>4, <2>5 DEF Resting
<1>23. ASSUME NEW s \in Sessions, CreateSession(s)
      PROVE  Resting'
  <2>1. Only(s)
    BY <1>23, OnlyOne
  <2>2. \A r \in Sessions \ {s} : p_session_inprogress' # r => p_session_inprogress # r
    BY <1>23, <2>1, CreateSessionDoes
  <2>3. \A r \in Sessions \ {s} : BeingSet(r) => BeingSet(r)'
    BY <1>23, <2>1, CreateSessionDoes DEF BeingSet, Mgr, Api, Threads, SetsTask
  <2>4. \A r \in Sessions \ {s} : RestingAt(r)'
    BY <2>1, <2>2, <2>3, RestingKept DEF Only
  <2>5. RestingAt(s)'
    BY <1>23, CreateSessionDoes, NewSession DEF RestingAt, SetsOmx
  <2> QED
    BY <2>4, <2>5 DEF Resting
<1>24. ASSUME NEW s \in Sessions, StopSession(s)
      PROVE  Resting'
  <2>1. UNCHANGED <<session, omx, p_session_inprogress>>
    BY <1>24, StopSessionDoes
  <2>2. \A r \in Sessions : BeingSet(r) => BeingSet(r)'
    BY <1>24, StopSessionDoes DEF BeingSet, Mgr, Api, Threads, vars
  <2> QED
    BY <2>1, <2>2, RestingKept DEF Resting
<1>25. ASSUME NEW s \in Sessions, DestroySession(s)
      PROVE  Resting'
  <2>1. UNCHANGED <<session, omx, p_session_inprogress>>
    BY <1>25, DestroySessionDoes
  <2>2. \A r \in Sessions : BeingSet(r) => BeingSet(r)'
    BY <1>25, DestroySessionDoes DEF BeingSet, Mgr, Api, Threads, SetsTask
  <2> QED
    BY <2>1, <2>2, RestingKept DEF Resting
<1>26. ASSUME NEW s \in Sessions, NEW j \in Jobs, StartJob(s, j)
      PROVE  Resting'
  <2>1. UNCHANGED <<session, omx, p_session_inprogress>>
    BY <1>26, StartJobDoes
  <2>2. \A r \in Sessions : BeingSet(r) => BeingSet(r)'
    BY <1>26, StartJobDoes DEF BeingSet, Mgr, Api, Threads, vars
  <2> QED
    BY <2>1, <2>2, RestingKept DEF Resting
<1>27. ASSUME NEW j \in Jobs, AbortJob(j)
      PROVE  Resting'
  <2>1. UNCHANGED <<session, omx, p_session_inprogress>>
    BY <1>27, AbortJobDoes
  <2>2. \A r \in Sessions : BeingSet(r) => BeingSet(r)'
    BY <1>27, AbortJobDoes DEF BeingSet, Mgr, Api, Threads, SetsTask
  <2> QED
    BY <2>1, <2>2, RestingKept DEF Resting
<1>28. CASE Release
  <2>1. UNCHANGED <<session, omx, p_session_inprogress>>
    BY <1>28, ReleaseDoes
  <2>2. \A r \in Sessions : BeingSet(r) => BeingSet(r)'
    BY <1>28, ReleaseDoes DEF BeingSet, Mgr, Api, Threads, SetsTask
  <2> QED
    BY <2>1, <2>2, RestingKept DEF Resting
<1>29. CASE UNCHANGED vars
  BY <1>29
     DEF IInv, Encoders, Resting, RestingAt, BeingSet, Mgr, Api, vars, queues, clients, history
<1> QED
  BY <1>1, <1>2, <1>3, <1>4, <1>5, <1>6, <1>7, <1>8, <1>9, <1>10, <1>11, <1>12, <1>13, <1>14,
     <1>15, <1>16, <1>17, <1>18, <1>19, <1>20, <1>21, <1>22, <1>23, <1>24, <1>25, <1>26, <1>27,
     <1>28, <1>29
     DEF Next, Manager, InCall, Working, Encoder, Threads

\* A session that is not concerned keeps its buffers.
LEMMA ServingKept ==
  ASSUME IInv, NEW r \in Sessions, omx'[r] = omx[r],
         p_session_inprogress' = r => p_session_inprogress = r /\ (BeingUnset(r) => BeingUnset(r)')
  PROVE  ServingAt(r)'
BY DEF IInv, Encoders, Serving, ServingAt

\* Every step leaves the encoder in progress its buffers.
LEMMA ServingStep ==
  ASSUME IInv, [Next]_vars
  PROVE  Serving'
<1>1. ASSUME NEW th \in Threads, SendCommand(th) \/ CheckCommand(th) \/ EndCommand(th)
      PROVE  Serving'
  <2>1. p_session_inprogress' = p_session_inprogress
    BY <1>1, CommandKeeps
  <2>2. CASE th = "mgr" /\ OtherMoves
    <3>1. PICK s \in Sessions : s = p_session_inprogress
      BY <2>2 DEF OtherMoves
    <3>2. \A r \in Sessions \ {s} : omx'[r] = omx[r]
      BY <2>2, <3>1 DEF OtherMoves, Moves
    <3>3. \A r \in Sessions \ {s} : ServingAt(r)'
      BY <2>1, <3>1, <3>2, ServingKept
    <3>4. ~BeingUnset(s) \/ (Mgr.pc = "loadOther" /\ Mgr.phase = "waiting")
      BY <2>2 DEF OtherMoves, Moves, BeingUnset, WithLockApi, Freeing, Mgr
    <3>5. ServingAt(s) /\ (Mgr.pc = "loadOther" => omx[s].state # "Executing")
      BY <3>1 DEF IInv, Encoders, Serving, Changes, Unsetting, None, Sessions
    <3>6. ServingAt(s)'
      <4>1. CASE Mgr.pc = "idleOther"
        BY <2>1, <2>2, <3>1, <3>4, <3>5, <4>1 DEF OtherMoves, Moves, ServingAt, Mgr
      <4>2. CASE Mgr.pc = "loadOther"
        BY <2>1, <2>2, <3>1, <3>4, <3>5, <4>2 DEF OtherMoves, Moves, ServingAt, BeingUnset, Mgr
      <4> QED
        BY <2>2, <4>1, <4>2 DEF OtherMoves, Moves, Mgr
    <3> QED
      BY <3>3, <3>6 DEF Serving
  <2>3. CASE SetMoves(th)
    <3>1. PICK s \in Sessions : s = task[th].session
      BY <2>3 DEF SetMoves
    <3>2. /\ p_session_inprogress = None
          /\ \A r \in Sessions \ {s} : omx'[r] = omx[r]
          /\ omx'[s].state = omx[s].state /\ (omx[s].bufs => omx'[s].bufs)
      BY <2>3, <3>1 DEF SetMoves, Moves
    <3>3. \A r \in Sessions : p_session_inprogress' # r
      BY <2>1, <3>2 DEF None, Sessions
    <3> QED
      BY <3>2, <3>3 DEF IInv, Encoders, Serving, ServingAt
  <2>4. CASE th = "api" /\ SelfMoves
    <3>1. PICK s \in Sessions : s = Api.session
      BY <2>4 DEF SelfMoves
    <3>2. /\ \A r \in Sessions \ {s} : omx'[r] = omx[r]
          /\ Mgr' = Mgr /\ Api'.session = s
      BY <2>4, <3>1 DEF SelfMoves, Moves
    <3>3. \A r \in Sessions \ {s} : ServingAt(r)'
      BY <2>1, <3>1, <3>2, ServingKept DEF BeingUnset
    <3>4. ServingAt(s) /\ Ending(s)
      BY <3>1 DEF IInv, Encoders, Serving, Changes
    <3>5. ServingAt(s)'
      <4>1. CASE Api.pc = "idleSelf"
        <5>1. ~BeingUnset(s)
          BY <2>4, <4>1 DEF SelfMoves, BeingUnset, WithLockMgr
        <5> QED
          BY <2>1, <2>4, <3>1, <3>2, <3>4, <4>1, <5>1 DEF SelfMoves, Moves, ServingAt, BeingUnset, Api
      <4>2. CASE Api.pc = "loadSelf"
        BY <2>1, <2>4, <3>1, <3>2, <3>4, <4>2 DEF SelfMoves, Moves, ServingAt, BeingUnset, Ending, Api
      <4> QED
        BY <2>4, <4>1, <4>2 DEF SelfMoves, Moves, Api
    <3> QED
      BY <3>3, <3>5 DEF Serving
  <2> QED
    BY <1>1, <2>2, <2>3, <2>4, Commands
<1>2. ASSUME NEW th \in Threads, ConfigMain(th)
      PROVE  Serving'
  <2>1. UNCHANGED <<omx>>
    BY <1>2, ConfigMainDoes
  <2>2. \A r \in Sessions : p_session_inprogress' = r => p_session_inprogress = r /\ (BeingUnset(r) => BeingUnset(r)')
    BY <1>2, ConfigMainDoes DEF BeingUnset, Mgr, Api, Threads, SetsPc
  <2> QED
    BY <2>1, <2>2, ServingKept DEF Serving
<1>3. ASSUME NEW th \in Threads, Configured(th)
      PROVE  Serving'
  <2>1. PICK s \in Sessions : s = task[th].session /\ Only(s)
    BY <1>3, OnlyOne DEF Only
  <2>2. p_session_inprogress' = s /\ UNCHANGED omx
    BY <1>3, <2>1, ConfiguredDoes
  <2>3. \A r \in Sessions \ {s} : ServingAt(r)'
    BY <2>2, ServingKept
  <2>4. omx[s].state = "Executing" /\ omx[s].cmd = "none" /\ omx[s].bufs
    BY <1>3, <2>1, ConfiguredDoes DEF IInv, Changes, Setting, Mgr, Api, Threads
  <2>5. ServingAt(s)'
    BY <2>2, <2>4 DEF ServingAt
  <2> QED
    BY <2>3, <2>5 DEF Serving
<1>4. CASE TakePost \/ ReadOngoing
  <2>1. UNCHANGED <<omx>>
    BY <1>4, WakingDoes
  <2>2. \A r \in Sessions : p_session_inprogress' = r => p_session_inprogress = r /\ (BeingUnset(r) => BeingUnset(r)')
    BY <1>4, WakingDoes DEF BeingUnset, Mgr, Api, Threads, SetsPc
  <2> QED
    BY <2>1, <2>2, ServingKept DEF Serving
<1>5. CASE TakeJob
  <2>1. UNCHANGED <<omx, p_session_inprogress>> /\ Mgr.pc = "ready"
    BY <1>5, TakeJobDoes
  <2>2. \A r \in Sessions : BeingUnset(r) => BeingUnset(r)'
    BY <1>5, TakeJobDoes DEF BeginsJob, BeingUnset, Mgr, Api, Threads, SetsPc, SetsTask
  <2> QED
    BY <2>1, <2>2, ServingKept DEF Serving
<1>6. CASE ForgetOther
  <2>1. UNCHANGED omx /\ p_session_inprogress' = None
    BY <1>6, ForgetOtherDoes
  <2> QED
    BY <2>1, ServingKept DEF Serving, None, Sessions
<1>7. CASE JobParams
  <2>1. UNCHANGED <<omx>>
    BY <1>7, JobParamsDoes
  <2>2. \A r \in Sessions : p_session_inprogress' = r => p_session_inprogress = r /\ (BeingUnset(r) => BeingUnset(r)')
    BY <1>7, JobParamsDoes DEF BeingUnset, Mgr, Api, Threads, SetsPc
  <2> QED
    BY <2>1, <2>2, ServingKept DEF Serving
<1>8. CASE Feed
  <2>1. PICK s \in Sessions : s = Mgr.session /\ Only(s)
    BY <1>8, OnlyOne DEF Only
  <2>2. \A r \in Sessions \ {s} : p_session_inprogress' = r => p_session_inprogress = r /\ (BeingUnset(r) => BeingUnset(r)')
    BY <1>8, <2>1, FeedDoes DEF BeingUnset, Mgr, Api, Threads, SetsPc, SetsTask
  <2>3. \A r \in Sessions \ {s} : ServingAt(r)'
    BY <2>1, <2>2, ServingKept DEF Only
  <2>4. ServingAt(s)'
    <3>1. /\ omx'[s].state = omx[s].state /\ omx'[s].cmd = omx[s].cmd /\ omx'[s].bufs = omx[s].bufs
          /\ p_session_inprogress' = p_session_inprogress
      BY <1>8, <2>1, FeedDoes DEF SetsJob
    <3>2. BeingUnset(s) => BeingUnset(s)'
      BY <1>8, <2>1, FeedDoes DEF BeingUnset, Mgr, Api, Threads, SetsPc, SetsTask
    <3> QED
      BY <2>1, <3>1, <3>2 DEF IInv, Encoders, Serving, ServingAt
  <2> QED
    BY <2>3, <2>4 DEF Serving
<1>9. CASE JobFailed
  <2>1. UNCHANGED <<omx>>
    BY <1>9, JobFailedDoes
  <2>2. \A r \in Sessions : p_session_inprogress' = r => p_session_inprogress = r /\ (BeingUnset(r) => BeingUnset(r)')
    BY <1>9, JobFailedDoes DEF BeingUnset, Mgr, Api, Threads, SetsTask
  <2> QED
    BY <2>1, <2>2, ServingKept DEF Serving
<1>10. CASE ConfigureNew
  <2>1. UNCHANGED <<omx>>
    BY <1>10, ConfigureNewDoes
  <2>2. \A r \in Sessions : p_session_inprogress' = r => p_session_inprogress = r /\ (BeingUnset(r) => BeingUnset(r)')
    BY <1>10, ConfigureNewDoes DEF BeingUnset, Mgr, Api, Threads, SetsPc, SetsTask
  <2> QED
    BY <2>1, <2>2, ServingKept DEF Serving
<1>11. CASE CreateFailed
  <2>1. UNCHANGED <<omx>>
    BY <1>11, CreateFailedDoes
  <2>2. \A r \in Sessions : p_session_inprogress' = r => p_session_inprogress = r /\ (BeingUnset(r) => BeingUnset(r)')
    BY <1>11, CreateFailedDoes DEF BeingUnset, Mgr, Api, Threads, SetsTask
  <2> QED
    BY <2>1, <2>2, ServingKept DEF Serving
<1>12. CASE FindJob
  <2>1. UNCHANGED <<omx>>
    BY <1>12, FindJobDoes
  <2>2. \A r \in Sessions : p_session_inprogress' = r => p_session_inprogress = r /\ (BeingUnset(r) => BeingUnset(r)')
    BY <1>12, FindJobDoes DEF BeingUnset, Mgr, Api, Threads, SetsPc, SetsTask
  <2> QED
    BY <2>1, <2>2, ServingKept DEF Serving
<1>13. CASE DropJobs
  <2>1. UNCHANGED <<omx>>
    BY <1>13, DropJobsDoes
  <2>2. \A r \in Sessions : p_session_inprogress' = r => p_session_inprogress = r /\ (BeingUnset(r) => BeingUnset(r)')
    BY <1>13, DropJobsDoes DEF BeingUnset, Mgr, Api, Threads, SetsPc
  <2> QED
    BY <2>1, <2>2, ServingKept DEF Serving
<1>14. CASE BeginAbort
  <2>1. UNCHANGED <<omx>>
    BY <1>14, BeginAbortDoes
  <2>2. \A r \in Sessions : p_session_inprogress' = r => p_session_inprogress = r /\ (BeingUnset(r) => BeingUnset(r)')
    BY <1>14, BeginAbortDoes DEF BeingUnset, Mgr, Api, Threads, SetsPc, EndsAbort, SetsTask
  <2> QED
    BY <2>1, <2>2, ServingKept DEF Serving
<1>15. CASE SendAbort
  <2>1. PICK s \in Sessions : s = Api.session /\ Only(s)
    BY <1>15, OnlyOne DEF Only
  <2>2. \A r \in Sessions \ {s} : p_session_inprogress' = r => p_session_inprogress = r /\ (BeingUnset(r) => BeingUnset(r)')
    BY <1>15, <2>1, SendAbortDoes DEF BeingUnset, Mgr, Api, Threads, SetsPc
  <2>3. \A r \in Sessions \ {s} : ServingAt(r)'
    BY <2>1, <2>2, ServingKept DEF Only
  <2>4. ServingAt(s)'
    <3>1. /\ omx'[s].state = omx[s].state /\ omx'[s].cmd = "Idle" /\ omx'[s].bufs = omx[s].bufs
          /\ p_session_inprogress' = p_session_inprogress
      BY <1>15, <2>1, SendAbortDoes DEF SetsCmd
    <3>2. BeingUnset(s) => BeingUnset(s)'
      BY <1>15, <2>1, SendAbortDoes DEF BeingUnset, Mgr, Api, Threads, SetsPc
    <3> QED
      BY <2>1, <3>1, <3>2 DEF IInv, Encoders, Serving, ServingAt
  <2> QED
    BY <2>3, <2>4 DEF Serving
<1>16. CASE EndAbort
  <2>1. UNCHANGED <<omx>>
    BY <1>16, EndAbortDoes
  <2>2. \A r \in Sessions : p_session_inprogress' = r => p_session_inprogress = r /\ (BeingUnset(r) => BeingUnset(r)')
    BY <1>16, EndAbortDoes DEF BeingUnset, Mgr, Api, Threads, SetsPc, EndsAbort, SetsTask
  <2> QED
    BY <2>1, <2>2, ServingKept DEF Serving
<1>17. CASE FreeSession
  <2>1. PICK s \in Sessions : s = Api.session /\ Only(s)
    BY <1>17, OnlyOne DEF Only
  <2>2. Api.pc = "free" /\ p_session_inprogress' # s
    BY <1>17, <2>1, FreeSessionDoes DEF None, Sessions
  <2>3. \A r \in Sessions \ {s} : p_session_inprogress' = r => p_session_inprogress = r /\ ~BeingUnset(r)
    <3>1. Mgr.pc \notin {"forget", "loadOther"}
      BY <2>2, Exclusion DEF WithLockMgr, WithLockApi, Freeing
    <3> QED
      BY <1>17, <2>1, <3>1, FreeSessionDoes DEF BeingUnset, None, Sessions
  <2>4. \A r \in Sessions \ {s} : ServingAt(r)'
    BY <2>1, <2>3, ServingKept DEF Only
  <2>5. ServingAt(s)'
    BY <1>17, <2>1, <2>2, FreeSessionDoes DEF ServingAt, SetsOmx, NoOmx
  <2> QED
    BY <2>4, <2>5 DEF Serving
<1>18. CASE Join
  <2>1. UNCHANGED <<omx>>
    BY <1>18, JoinDoes
  <2>2. \A r \in Sessions : p_session_inprogress' = r => p_session_inprogress = r /\ (BeingUnset(r) => BeingUnset(r)')
    BY <1>18, JoinDoes DEF BeingUnset, Mgr, Api, Threads, SetsPc
  <2> QED
    BY <2>1, <2>2, ServingKept DEF Serving
<1>19. ASSUME NEW s \in Sessions, EncoderDone(s)
      PROVE  Serving'
  <2>1. Only(s)
    BY <1>19, OnlyOne
  <2>2. \A r \in Sessions \ {s} : p_session_inprogress' = r => p_session_inprogress = r /\ (BeingUnset(r) => BeingUnset(r)')
    BY <1>19, <2>1, EncoderDoneDoes DEF BeingUnset, Mgr, Api, Threads
  <2>3. \A r \in Sessions \ {s} : ServingAt(r)'
    BY <2>1, <2>2, ServingKept DEF Only
  <2>4. ServingAt(s)'
    <3>1. /\ omx'[s].state = omx[s].state /\ omx'[s].cmd = omx[s].cmd /\ omx'[s].bufs = omx[s].bufs
          /\ p_session_inprogress' = p_session_inprogress
      BY <1>19, <2>1, EncoderDoneDoes DEF SetsJob
    <3>2. BeingUnset(s) => BeingUnset(s)'
      BY <1>19, <2>1, EncoderDoneDoes DEF BeingUnset, Mgr, Api, Threads, SetsPc, SetsTask
    <3> QED
      BY <2>1, <3>1, <3>2 DEF IInv, Encoders, Serving, ServingAt
  <2> QED
    BY <2>3, <2>4 DEF Serving
<1>20. ASSUME NEW s \in Sessions, EncoderError(s)
      PROVE  Serving'
  <2>1. Only(s)
    BY <1>20, OnlyOne
  <2>2. \A r \in Sessions \ {s} : p_session_inprogress' = r => p_session_inprogress = r /\ (BeingUnset(r) => BeingUnset(r)')
    BY <1>20, <2>1, EncoderErrorDoes DEF BeingUnset, Mgr, Api, Threads
  <2>3. \A r \in Sessions \ {s} : ServingAt(r)'
    BY <2>1, <2>2, ServingKept DEF Only
  <2>4. ServingAt(s)'
    <3>1. /\ omx'[s].state = omx[s].state /\ omx'[s].cmd = omx[s].cmd /\ omx'[s].bufs = omx[s].bufs
          /\ p_session_inprogress' = p_session_inprogress
      BY <1>20, <2>1, EncoderErrorDoes DEF SetsJob
    <3>2. BeingUnset(s) => BeingUnset(s)'
      BY <1>20, <2>1, EncoderErrorDoes DEF BeingUnset, Mgr, Api, Threads, SetsPc, SetsTask
    <3> QED
      BY <2>1, <3>1, <3>2 DEF IInv, Encoders, Serving, ServingAt
  <2> QED
    BY <2>3, <2>4 DEF Serving
<1>21. ASSUME NEW s \in Sessions, EncoderChanges(s)
      PROVE  Serving'
  <2>1. Only(s)
    BY <1>21, OnlyOne
  <2>2. \A r \in Sessions \ {s} : p_session_inprogress' = r => p_session_inprogress = r /\ (BeingUnset(r) => BeingUnset(r)')
    BY <1>21, <2>1, EncoderChangesDoes DEF BeingUnset, Mgr, Api, Threads
  <2>3. \A r \in Sessions \ {s} : ServingAt(r)'
    BY <2>1, <2>2, ServingKept DEF Only
  <2>4. ServingAt(s)'
    <3>1. /\ omx'[s].state = omx[s].cmd /\ omx'[s].cmd = "none" /\ omx'[s].bufs = omx[s].bufs
          /\ omx[s].cmd # "none" /\ (omx[s].cmd = "Loaded" => ~omx[s].bufs) /\ session[s].active
          /\ UNCHANGED <<p_session_inprogress, task>>
      BY <1>21, EncoderChangesDoes, BusyIsThere DEF SetsState
    <3>2. omx[s].cmd \in {"Loaded", "Idle", "Executing"}
      BY <3>1 DEF IInv, Types, OmxType, OmxRecord, EncoderStates
    <3>3. BeingUnset(s)' <=> BeingUnset(s)
      BY <3>1 DEF BeingUnset, Mgr, Api
    <3>4. CASE p_session_inprogress = s
      BY <3>1, <3>2, <3>3, <3>4 DEF IInv, Encoders, Serving, ServingAt
    <3>5. CASE p_session_inprogress # s
      <4>1. BeingSet(s)
        BY <3>1, <3>5 DEF IInv, Encoders, Resting, RestingAt
      <4>2. PICK t \in {Mgr, Api} : t.session = s /\ t.pc \in {"toIdle", "toExec", "configured"} /\ Setting(t)
        BY <4>1 DEF BeingSet, IInv, Changes
      <4>3. omx[s].cmd = "Executing" => omx[s].bufs
        BY <3>1, <4>2 DEF Setting, Reaching
      <4> QED
        BY <3>1, <3>5, <4>3 DEF ServingAt
    <3> QED
      BY <3>4, <3>5
  <2> QED
    BY <2>3, <2>4 DEF Serving
<1>22. ASSUME NEW s \in Sessions, FinishJob(s)
      PROVE  Serving'
  <2>1. UNCHANGED <<omx>>
    BY <1>22, FinishJobDoes
  <2>2. \A r \in Sessions : p_session_inprogress' = r => p_session_inprogress = r /\ (BeingUnset(r) => BeingUnset(r)')
    BY <1>22, FinishJobDoes DEF BeingUnset, Mgr, Api, Threads
  <2> QED
    BY <2>1, <2>2, ServingKept DEF Serving
<1>23. ASSUME NEW s \in Sessions, CreateSession(s)
      PROVE  Serving'
  <2>1. Only(s)
    BY <1>23, OnlyOne
  <2>2. \A r \in Sessions \ {s} : p_session_inprogress' = r => p_session_inprogress = r /\ (BeingUnset(r) => BeingUnset(r)')
    BY <1>23, <2>1, CreateSessionDoes DEF BeingUnset, Mgr, Api, Threads, SetsTask
  <2>3. \A r \in Sessions \ {s} : ServingAt(r)'
    BY <2>1, <2>2, ServingKept DEF Only
  <2>4. ServingAt(s)'
    <3>1. p_session_inprogress' # s
      BY <1>23, CreateSessionDoes DEF IInv, Progress, InProgress
    <3> QED
      BY <1>23, <3>1, CreateSessionDoes, NewSession DEF ServingAt, SetsOmx
  <2> QED
    BY <2>3, <2>4 DEF Serving
<1>24. ASSUME NEW s \in Sessions, StopSession(s)
      PROVE  Serving'
  <2>1. UNCHANGED <<omx>>
    BY <1>24, StopSessionDoes
  <2>2. \A r \in Sessions : p_session_inprogress' = r => p_session_inprogress = r /\ (BeingUnset(r) => BeingUnset(r)')
    BY <1>24, StopSessionDoes DEF BeingUnset, Mgr, Api, Threads
  <2> QED
    BY <2>1, <2>2, ServingKept DEF Serving
<1>25. ASSUME NEW s \in Sessions, DestroySession(s)
      PROVE  Serving'
  <2>1. UNCHANGED <<omx>>
    BY <1>25, DestroySessionDoes
  <2>2. \A r \in Sessions : p_session_inprogress' = r => p_session_inprogress = r /\ (BeingUnset(r) => BeingUnset(r)')
    BY <1>25, DestroySessionDoes DEF BeingUnset, Mgr, Api, Threads, SetsTask
  <2> QED
    BY <2>1, <2>2, ServingKept DEF Serving
<1>26. ASSUME NEW s \in Sessions, NEW j \in Jobs, StartJob(s, j)
      PROVE  Serving'
  <2>1. UNCHANGED <<omx>>
    BY <1>26, StartJobDoes
  <2>2. \A r \in Sessions : p_session_inprogress' = r => p_session_inprogress = r /\ (BeingUnset(r) => BeingUnset(r)')
    BY <1>26, StartJobDoes DEF BeingUnset, Mgr, Api, Threads
  <2> QED
    BY <2>1, <2>2, ServingKept DEF Serving
<1>27. ASSUME NEW j \in Jobs, AbortJob(j)
      PROVE  Serving'
  <2>1. UNCHANGED <<omx>>
    BY <1>27, AbortJobDoes
  <2>2. \A r \in Sessions : p_session_inprogress' = r => p_session_inprogress = r /\ (BeingUnset(r) => BeingUnset(r)')
    BY <1>27, AbortJobDoes DEF BeingUnset, Mgr, Api, Threads, SetsTask
  <2> QED
    BY <2>1, <2>2, ServingKept DEF Serving
<1>28. CASE Release
  <2>1. UNCHANGED <<omx>>
    BY <1>28, ReleaseDoes
  <2>2. \A r \in Sessions : p_session_inprogress' = r => p_session_inprogress = r /\ (BeingUnset(r) => BeingUnset(r)')
    BY <1>28, ReleaseDoes DEF BeingUnset, Mgr, Api, Threads, SetsTask
  <2> QED
    BY <2>1, <2>2, ServingKept DEF Serving
<1>29. CASE UNCHANGED vars
  BY <1>29
     DEF IInv, Encoders, Serving, ServingAt, BeingUnset, Mgr, Api, vars, queues, clients, history
<1> QED
  BY <1>1, <1>2, <1>3, <1>4, <1>5, <1>6, <1>7, <1>8, <1>9, <1>10, <1>11, <1>12, <1>13, <1>14,
     <1>15, <1>16, <1>17, <1>18, <1>19, <1>20, <1>21, <1>22, <1>23, <1>24, <1>25, <1>26, <1>27,
     <1>28, <1>29
     DEF Next, Manager, InCall, Working, Encoder, Threads

Freed(s) == Api.session = s /\ Api.pc \in Freeing

\* An error stays with the session in progress.
LEMMA ErringKept ==
  ASSUME IInv, NEW r \in Sessions, session'[r].error = session[r].error,
         session[r].error => /\ p_session_inprogress' = p_session_inprogress
                             /\ BeingUnset(r)' => BeingUnset(r) \/ Freed(r)'
                             /\ Freed(r) => Freed(r)'
  PROVE  ErringAt(r)'
BY DEF IInv, Encoders, Erring, ErringAt, Freed

\* An error is reported of an encoder at work.
LEMMA WorkingIsServed ==
  ASSUME IInv, NEW s \in Sessions, omx[s].job # 0
  PROVE  /\ p_session_inprogress = s /\ omx[s].state = "Executing"
         /\ Mgr.pc \notin {"loadOther", "forget"}
         /\ Api.session = s => Api.pc \notin Freeing
<1>1. p_session_inprogress = s /\ omx[s].state = "Executing"
  BY DEF IInv, Running, RunningAt
<1>2. Unsetting(s)
  BY <1>1 DEF IInv, Changes, None, Sessions
<1>3. Api.session = s /\ Api.pc \in Freeing => session[s].abort = "DONE"
  BY DEF IInv, Aborts
<1>4. session[s].abort # "DONE"
  BY DEF IInv, Aborts, AbortsAt
<1> QED
  BY <1>1, <1>2, <1>3, <1>4 DEF Unsetting

\* Every step leaves an error with the session in progress.
LEMMA ErringStep ==
  ASSUME IInv, [Next]_vars
  PROVE  Erring'
<1>1. ASSUME NEW th \in Threads, SendCommand(th) \/ CheckCommand(th) \/ EndCommand(th)
      PROVE  Erring'
  <2>1. p_session_inprogress' = p_session_inprogress /\ \A r \in Sessions : session'[r].error = session[r].error
    BY <1>1, CommandKeeps
  <2>2. CASE th = "mgr" /\ OtherMoves
    <3>1. PICK s \in Sessions : s = p_session_inprogress
      BY <2>2 DEF OtherMoves
    <3>2. \A r \in Sessions : session[r].error => r = s /\ ~BeingUnset(s)
      BY <2>2, <3>1 DEF IInv, Encoders, Erring, ErringAt, OtherMoves, WithLockApi
    <3>3. \A r \in Sessions \ {s} : ErringAt(r)'
      BY <2>1, <3>2 DEF ErringAt
    <3>4. ASSUME session[s].error
          PROVE  ~BeingUnset(s)'
      <4>1. Mgr'.pc # "forget"
        <5>1. Mgr.pc = "loadOther" /\ Mgr.phase = "start" => omx[s].state = "Idle"
          BY <3>1, <3>2, <3>4
             DEF IInv, Encoders, Serving, ServingAt, Changes, Unsetting, None, Sessions
        <5>2. ~(Mgr.pc = "loadOther" /\ Mgr.phase = "waiting")
          BY <3>2, <3>4 DEF BeingUnset
        <5> QED
          BY <2>2, <3>1, <3>4, <5>1, <5>2 DEF OtherMoves, Moves, Mgr
      <4>2. ~(Mgr'.pc = "loadOther" /\ Mgr'.phase = "waiting")
        BY <2>2, <3>1, <3>4 DEF OtherMoves, Moves, Mgr
      <4>3. Api'.pc \notin {"loadSelf", "free"}
        BY <2>2 DEF OtherMoves, WithLockApi, Freeing
      <4> QED
        BY <4>1, <4>2, <4>3 DEF BeingUnset
    <3>5. ErringAt(s)'
      BY <2>1, <3>1, <3>4 DEF ErringAt
    <3> QED
      BY <3>3, <3>5 DEF Erring
  <2>3. CASE SetMoves(th)
    <3>1. \A r \in Sessions : ~session[r].error
      BY <2>3 DEF SetMoves, IInv, Encoders, Erring, ErringAt, None, Sessions
    <3> QED
      BY <2>1, <3>1 DEF Erring, ErringAt
  <2>4. CASE th = "api" /\ SelfMoves
    <3>1. Mgr' = Mgr /\ Api'.session = Api.session /\ Api.pc \in Freeing /\ Api'.pc \in Freeing
      BY <2>4 DEF SelfMoves, Moves, Freeing, Api
    <3>2. \A r \in Sessions : Freed(r)' <=> Freed(r)
      BY <3>1 DEF Freed
    <3>3. \A r \in Sessions : BeingUnset(r)' => BeingUnset(r) \/ Freed(r)'
      BY <3>1 DEF BeingUnset, Freed
    <3> QED
      BY <2>1, <3>2, <3>3, ErringKept DEF Erring
  <2> QED
    BY <1>1, <2>2, <2>3, <2>4, Commands
<1>2. ASSUME NEW th \in Threads, ConfigMain(th)
      PROVE  Erring'
  <2>1. UNCHANGED <<p_session_inprogress>>
    BY <1>2, ConfigMainDoes
  <2>2. \A r \in Sessions : session'[r].error = session[r].error /\ (BeingUnset(r)' => BeingUnset(r)) /\ (Freed(r) => Freed(r)')
    BY <1>2, ConfigMainDoes DEF BeingUnset, Freed, Freeing, Mgr, Api, Threads, SetsPc
  <2> QED
    BY <2>1, <2>2, ErringKept DEF Erring
<1>3. ASSUME NEW th \in Threads, Configured(th)
      PROVE  Erring'
  <2>1. p_session_inprogress = None
    BY <1>3, ConfiguredDoes DEF IInv, Progress, ProgressAt, Configuring, Threads, Mgr, Api
  <2>2. \A r \in Sessions : ~session[r].error
    BY <2>1 DEF IInv, Encoders, Erring, ErringAt, None, Sessions
  <2>3. \A r \in Sessions : ~session'[r].error
    BY <1>3, <2>2, ConfiguredDoes DEF SetsConfig
  <2> QED
    BY <2>3 DEF Erring, ErringAt
<1>4. CASE TakePost \/ ReadOngoing
  <2>1. UNCHANGED <<p_session_inprogress>>
    BY <1>4, WakingDoes
  <2>2. \A r \in Sessions : session'[r].error = session[r].error /\ (BeingUnset(r)' => BeingUnset(r)) /\ (Freed(r) => Freed(r)')
    BY <1>4, WakingDoes DEF BeingUnset, Freed, Freeing, Mgr, Api, Threads, SetsPc
  <2> QED
    BY <2>1, <2>2, ErringKept DEF Erring
<1>5. CASE TakeJob
  <2>1. UNCHANGED p_session_inprogress /\ Mgr.pc = "ready"
    BY <1>5, TakeJobDoes
  <2>2. \A r \in Sessions : session'[r].error = session[r].error
    BY <1>5, TakeJobDoes DEF BeginsJob, SetsBegun
  <2>3. \A r \in Sessions : (BeingUnset(r)' => BeingUnset(r)) /\ (Freed(r) => Freed(r)')
    BY <1>5, TakeJobDoes DEF BeginsJob, BeingUnset, Freed, Mgr, Api, Threads, SetsPc, SetsTask
  <2> QED
    BY <2>1, <2>2, <2>3, ErringKept DEF Erring
<1>6. CASE ForgetOther
  <2>1. Mgr.pc = "forget"
    BY <1>6, ForgetOtherDoes
  <2>2. Api.pc \notin Freeing
    BY <2>1, Exclusion DEF WithLockMgr, WithLockApi
  <2>3. \A r \in Sessions : ~session[r].error
    BY <2>1, <2>2 DEF IInv, Encoders, Erring, ErringAt, BeingUnset
  <2>4. \A r \in Sessions : ~session'[r].error
    BY <1>6, <2>3, ForgetOtherDoes DEF SetsConfig
  <2> QED
    BY <2>4 DEF Erring, ErringAt
<1>7. CASE JobParams
  <2>1. UNCHANGED <<p_session_inprogress>>
    BY <1>7, JobParamsDoes
  <2>2. \A r \in Sessions : session'[r].error = session[r].error /\ (BeingUnset(r)' => BeingUnset(r)) /\ (Freed(r) => Freed(r)')
    BY <1>7, JobParamsDoes DEF BeingUnset, Freed, Freeing, Mgr, Api, Threads, SetsPc, SetsEncoding
  <2> QED
    BY <2>1, <2>2, ErringKept DEF Erring
<1>8. CASE Feed
  <2>1. UNCHANGED <<p_session_inprogress>>
    BY <1>8, FeedDoes
  <2>2. \A r \in Sessions : session'[r].error = session[r].error /\ (BeingUnset(r)' => BeingUnset(r)) /\ (Freed(r) => Freed(r)')
    BY <1>8, FeedDoes DEF BeingUnset, Freed, Freeing, Mgr, Api, Threads, SetsPc, SetsTask
  <2> QED
    BY <2>1, <2>2, ErringKept DEF Erring
<1>9. CASE JobFailed
  <2>1. UNCHANGED <<p_session_inprogress>>
    BY <1>9, JobFailedDoes
  <2>2. \A r \in Sessions : session'[r].error = session[r].error /\ (BeingUnset(r)' => BeingUnset(r)) /\ (Freed(r) => Freed(r)')
    BY <1>9, JobFailedDoes DEF BeingUnset, Freed, Freeing, Mgr, Api, Threads, SetsTask, SetsReturned
  <2> QED
    BY <2>1, <2>2, ErringKept DEF Erring
<1>10. CASE ConfigureNew
  <2>1. UNCHANGED <<p_session_inprogress>>
    BY <1>10, ConfigureNewDoes
  <2>2. \A r \in Sessions : session'[r].error = session[r].error /\ (BeingUnset(r)' => BeingUnset(r)) /\ (Freed(r) => Freed(r)')
    BY <1>10, ConfigureNewDoes DEF BeingUnset, Freed, Freeing, Mgr, Api, Threads, SetsPc, SetsTask
  <2> QED
    BY <2>1, <2>2, ErringKept DEF Erring
<1>11. CASE CreateFailed
  <2>1. UNCHANGED <<p_session_inprogress>>
    BY <1>11, CreateFailedDoes
  <2>2. \A r \in Sessions : session'[r].error = session[r].error /\ (BeingUnset(r)' => BeingUnset(r)) /\ (Freed(r) => Freed(r)')
    BY <1>11, CreateFailedDoes DEF BeingUnset, Freed, Freeing, Mgr, Api, Threads, SetsTask
  <2> QED
    BY <2>1, <2>2, ErringKept DEF Erring
<1>12. CASE FindJob
  <2>1. UNCHANGED <<p_session_inprogress>>
    BY <1>12, FindJobDoes
  <2>2. \A r \in Sessions : session'[r].error = session[r].error /\ (BeingUnset(r)' => BeingUnset(r)) /\ (Freed(r) => Freed(r)')
    BY <1>12, FindJobDoes DEF BeingUnset, Freed, Freeing, Mgr, Api, Threads, SetsPc, SetsTask
  <2> QED
    BY <2>1, <2>2, ErringKept DEF Erring
<1>13. CASE DropJobs
  <2>1. UNCHANGED <<p_session_inprogress>>
    BY <1>13, DropJobsDoes
  <2>2. \A r \in Sessions : session'[r].error = session[r].error /\ (BeingUnset(r)' => BeingUnset(r)) /\ (Freed(r) => Freed(r)')
    BY <1>13, DropJobsDoes DEF BeingUnset, Freed, Freeing, Mgr, Api, Threads, SetsPc
  <2> QED
    BY <2>1, <2>2, ErringKept DEF Erring
<1>14. CASE BeginAbort
  <2>1. UNCHANGED <<p_session_inprogress>>
    BY <1>14, BeginAbortDoes
  <2>2. \A r \in Sessions : session'[r].error = session[r].error /\ (BeingUnset(r)' => BeingUnset(r)) /\ (Freed(r) => Freed(r)')
    BY <1>14, BeginAbortDoes DEF BeingUnset, Freed, Freeing, Mgr, Api, Threads, SetsPc, EndsAbort, SetsTask, SetsAborting, SetsAbort
  <2> QED
    BY <2>1, <2>2, ErringKept DEF Erring
<1>15. CASE SendAbort
  <2>1. UNCHANGED <<p_session_inprogress>>
    BY <1>15, SendAbortDoes
  <2>2. \A r \in Sessions : session'[r].error = session[r].error /\ (BeingUnset(r)' => BeingUnset(r)) /\ (Freed(r) => Freed(r)')
    BY <1>15, SendAbortDoes DEF BeingUnset, Freed, Freeing, Mgr, Api, Threads, SetsPc
  <2> QED
    BY <2>1, <2>2, ErringKept DEF Erring
<1>16. CASE EndAbort
  <2>1. UNCHANGED <<p_session_inprogress>>
    BY <1>16, EndAbortDoes
  <2>2. \A r \in Sessions : session'[r].error = session[r].error /\ (BeingUnset(r)' => BeingUnset(r)) /\ (Freed(r) => Freed(r)')
    BY <1>16, EndAbortDoes DEF BeingUnset, Freed, Freeing, Mgr, Api, Threads, SetsPc, EndsAbort, SetsTask, SetsAbort
  <2> QED
    BY <2>1, <2>2, ErringKept DEF Erring
<1>17. CASE FreeSession
  <2>1. PICK s \in Sessions : s = Api.session /\ Only(s)
    BY <1>17, OnlyOne DEF Only
  <2>2. Mgr.pc \notin WithLockMgr /\ Mgr' = Mgr /\ Api'.pc = "idle"
    BY <1>17, FreeSessionDoes, Exclusion DEF WithLockApi, Freeing, SetsTask, Mgr, Api, Threads
  <2>3. \A r \in Sessions \ {s} : session[r].error => p_session_inprogress' = p_session_inprogress
    BY <1>17, <2>1, FreeSessionDoes DEF IInv, Encoders, Erring, ErringAt
  <2>4. \A r \in Sessions \ {s} : ErringAt(r)'
    BY <2>1, <2>2, <2>3, ErringKept DEF Only, BeingUnset, Freed, WithLockMgr
  <2>5. ErringAt(s)'
    BY <1>17, <2>1, FreeSessionDoes DEF ErringAt, SetsSession, NoSession
  <2> QED
    BY <2>4, <2>5 DEF Erring
<1>18. CASE Join
  <2>1. UNCHANGED <<p_session_inprogress>>
    BY <1>18, JoinDoes
  <2>2. \A r \in Sessions : session'[r].error = session[r].error /\ (BeingUnset(r)' => BeingUnset(r)) /\ (Freed(r) => Freed(r)')
    BY <1>18, JoinDoes DEF BeingUnset, Freed, Freeing, Mgr, Api, Threads, SetsPc
  <2> QED
    BY <2>1, <2>2, ErringKept DEF Erring
<1>19. ASSUME NEW s \in Sessions, EncoderDone(s)
      PROVE  Erring'
  <2>1. UNCHANGED <<p_session_inprogress>>
    BY <1>19, EncoderDoneDoes
  <2>2. \A r \in Sessions : session'[r].error = session[r].error /\ (BeingUnset(r)' => BeingUnset(r)) /\ (Freed(r) => Freed(r)')
    BY <1>19, EncoderDoneDoes DEF BeingUnset, Freed, Freeing, Mgr, Api, Threads
  <2> QED
    BY <2>1, <2>2, ErringKept DEF Erring
<1>20. ASSUME NEW s \in Sessions, EncoderError(s)
      PROVE  Erring'
  <2>1. Only(s) /\ UNCHANGED <<p_session_inprogress, task>> /\ omx[s].job # 0
    BY <1>20, OnlyOne, EncoderErrorDoes
  <2>2. \A r \in Sessions : (BeingUnset(r)' <=> BeingUnset(r)) /\ (Freed(r)' <=> Freed(r))
    BY <2>1 DEF BeingUnset, Freed, Mgr, Api
  <2>3. \A r \in Sessions \ {s} : ErringAt(r)'
    BY <2>1, <2>2, ErringKept DEF Only
  <2>4. p_session_inprogress = s /\ ~BeingUnset(s)
    BY <2>1, WorkingIsServed DEF BeingUnset, Freeing
  <2>5. ErringAt(s)'
    BY <2>1, <2>2, <2>4 DEF ErringAt
  <2> QED
    BY <2>3, <2>5 DEF Erring
<1>21. ASSUME NEW s \in Sessions, EncoderChanges(s)
      PROVE  Erring'
  <2>1. UNCHANGED <<p_session_inprogress>>
    BY <1>21, EncoderChangesDoes
  <2>2. \A r \in Sessions : session'[r].error = session[r].error /\ (BeingUnset(r)' => BeingUnset(r)) /\ (Freed(r) => Freed(r)')
    BY <1>21, EncoderChangesDoes DEF BeingUnset, Freed, Freeing, Mgr, Api, Threads, SetsAbort, SetsPending
  <2> QED
    BY <2>1, <2>2, ErringKept DEF Erring
<1>22. ASSUME NEW s \in Sessions, FinishJob(s)
      PROVE  Erring'
  <2>1. UNCHANGED <<p_session_inprogress>>
    BY <1>22, FinishJobDoes
  <2>2. \A r \in Sessions : session'[r].error = session[r].error /\ (BeingUnset(r)' => BeingUnset(r)) /\ (Freed(r) => Freed(r)')
    BY <1>22, FinishJobDoes DEF BeingUnset, Freed, Freeing, Mgr, Api, Threads, SetsReturned
  <2> QED
    BY <2>1, <2>2, ErringKept DEF Erring
<1>23. ASSUME NEW s \in Sessions, CreateSession(s)
      PROVE  Erring'
  <2>1. Only(s)
    BY <1>23, OnlyOne
  <2>2. \A r \in Sessions \ {s} : (BeingUnset(r)' => BeingUnset(r)) /\ (Freed(r) => Freed(r)')
    BY <1>23, <2>1, CreateSessionDoes DEF BeingUnset, Freed, Freeing, Mgr, Api, Threads, SetsTask
  <2>3. \A r \in Sessions \ {s} : ErringAt(r)'
    BY <1>23, <2>1, <2>2, ErringKept, CreateSessionDoes DEF Only
  <2>4. ErringAt(s)'
    BY <1>23, CreateSessionDoes, NewSession DEF ErringAt, SetsSession
  <2> QED
    BY <2>3, <2>4 DEF Erring
<1>24. ASSUME NEW s \in Sessions, StopSession(s)
      PROVE  Erring'
  <2>1. UNCHANGED <<p_session_inprogress>>
    BY <1>24, StopSessionDoes
  <2>2. \A r \in Sessions : session'[r].error = session[r].error /\ (BeingUnset(r)' => BeingUnset(r)) /\ (Freed(r) => Freed(r)')
    BY <1>24, StopSessionDoes DEF BeingUnset, Freed, Freeing, Mgr, Api, Threads
  <2> QED
    BY <2>1, <2>2, ErringKept DEF Erring
<1>25. ASSUME NEW s \in Sessions, DestroySession(s)
      PROVE  Erring'
  <2>1. UNCHANGED <<p_session_inprogress>>
    BY <1>25, DestroySessionDoes
  <2>2. \A r \in Sessions : session'[r].error = session[r].error /\ (BeingUnset(r)' => BeingUnset(r)) /\ (Freed(r) => Freed(r)')
    BY <1>25, DestroySessionDoes DEF BeingUnset, Freed, Freeing, Mgr, Api, Threads, SetsTask
  <2> QED
    BY <2>1, <2>2, ErringKept DEF Erring
<1>26. ASSUME NEW s \in Sessions, NEW j \in Jobs, StartJob(s, j)
      PROVE  Erring'
  <2>1. UNCHANGED <<p_session_inprogress>>
    BY <1>26, StartJobDoes
  <2>2. \A r \in Sessions : session'[r].error = session[r].error /\ (BeingUnset(r)' => BeingUnset(r)) /\ (Freed(r) => Freed(r)')
    BY <1>26, StartJobDoes DEF BeingUnset, Freed, Freeing, Mgr, Api, Threads
  <2> QED
    BY <2>1, <2>2, ErringKept DEF Erring
<1>27. ASSUME NEW j \in Jobs, AbortJob(j)
      PROVE  Erring'
  <2>1. UNCHANGED <<p_session_inprogress>>
    BY <1>27, AbortJobDoes
  <2>2. \A r \in Sessions : session'[r].error = session[r].error /\ (BeingUnset(r)' => BeingUnset(r)) /\ (Freed(r) => Freed(r)')
    BY <1>27, AbortJobDoes DEF BeingUnset, Freed, Freeing, Mgr, Api, Threads, SetsTask
  <2> QED
    BY <2>1, <2>2, ErringKept DEF Erring
<1>28. CASE Release
  <2>1. UNCHANGED <<p_session_inprogress>>
    BY <1>28, ReleaseDoes
  <2>2. \A r \in Sessions : session'[r].error = session[r].error /\ (BeingUnset(r)' => BeingUnset(r)) /\ (Freed(r) => Freed(r)')
    BY <1>28, ReleaseDoes DEF BeingUnset, Freed, Freeing, Mgr, Api, Threads, SetsTask
  <2> QED
    BY <2>1, <2>2, ErringKept DEF Erring
<1>29. CASE UNCHANGED vars
  BY <1>29
     DEF IInv, Encoders, Erring, ErringAt, BeingUnset, Mgr, Api, vars, queues, clients, history
<1> QED
  BY <1>1, <1>2, <1>3, <1>4, <1>5, <1>6, <1>7, <1>8, <1>9, <1>10, <1>11, <1>12, <1>13, <1>14,
     <1>15, <1>16, <1>17, <1>18, <1>19, <1>20, <1>21, <1>22, <1>23, <1>24, <1>25, <1>26, <1>27,
     <1>28, <1>29
     DEF Next, Manager, InCall, Working, Encoder, Threads

-----------------------------------------------------------------------------
(* The jobs at the encoders.                                               *)

AbortedAt(s) == Api.session = s /\ Api.pc \in Aborting

\* A job stays at its encoder.
LEMMA RunningKept ==
  ASSUME IInv, NEW r \in Sessions, omx'[r].job = omx[r].job,
         omx[r].job # 0 =>
           /\ omx'[r].state = omx[r].state /\ p_session_inprogress' = p_session_inprogress
           /\ session'[r].encoding = session[r].encoding /\ session'[r].current = session[r].current
           /\ owner'[omx[r].job] = owner[omx[r].job]
           /\ omx[r].job \in ongoing_job_q => omx[r].job \in ongoing_job_q' \/ AbortedAt(r)'
           /\ AbortedAt(r) => AbortedAt(r)'
  PROVE  RunningAt(r)'
BY DEF IInv, Running, RunningAt, AbortedAt

\* No two encoders work on a job, and the manager is not at it any more.
LEMMA RunningAlone ==
  ASSUME IInv, NEW s \in Sessions, omx[s].job # 0
  PROVE  /\ session[s].current = omx[s].job /\ omx[s].job \in Jobs /\ owner[omx[s].job] = s
         /\ \A r \in Sessions \ {s} : omx[r].job # omx[s].job
         /\ Mgr.pc \in WithLockMgr => Mgr.session # s /\ Mgr.job # omx[s].job
<1>1. session[s].current = omx[s].job /\ omx[s].job \in Jobs /\ owner[omx[s].job] = s
  BY DEF IInv, Running, RunningAt, Types, OmxType, OmxRecord
<1>2. \A r \in Sessions \ {s} : omx[r].job # omx[s].job
  BY <1>1 DEF IInv, Running, RunningAt
<1>3. Mgr.pc \in WithLockMgr => Mgr.session # s /\ Mgr.job # omx[s].job
  BY <1>1 DEF IInv, Handles, HandlesAt, Calls, AtWork
<1> QED
  BY <1>1, <1>2, <1>3

\* A session whose abort ends has no job at its encoder.
LEMMA NoJobAtEnd ==
  ASSUME IInv, Api.session \in Sessions,
         \/ Api.pc = "abort" /\ ~(session[Api.session].abort = "NONE" /\ session[Api.session].encoding)
         \/ Api.pc = "abortWait" /\ session[Api.session].abort # "INIT"
  PROVE  omx[Api.session].job = 0
<1> DEFINE s == Api.session
<1>1. session[s].abort \in {"NONE", "INIT", "DONE"}
  BY DEF IInv, Types, SessionType, SessionRecord
<1>2. omx[s].job # 0 => session[s].encoding
  BY DEF IInv, Running, RunningAt
<1>3. /\ session[s].abort = "INIT" => Api.pc \in {"abortSend", "abortWait"}
      /\ session[s].abort = "DONE" => omx[s].job = 0
      /\ Api.pc = "abortWait" => session[s].abort # "NONE"
  BY DEF IInv, Aborts, AbortsAt
<1> QED
  BY <1>1, <1>2, <1>3

RunningEach == \A s \in Sessions : RunningAt(s)

\* Every step keeps known what the encoders work on.
LEMMA RunningStep ==
  ASSUME IInv, [Next]_vars
  PROVE  RunningEach'
<1>1. ASSUME NEW th \in Threads, SendCommand(th) \/ CheckCommand(th) \/ EndCommand(th)
      PROVE  RunningEach'
  <2>1. /\ UNCHANGED <<p_session_inprogress, ongoing_job_q, owner>>
        /\ \A r \in Sessions : /\ session'[r].encoding = session[r].encoding
                               /\ session'[r].current = session[r].current
    BY <1>1, CommandKeeps
  <2>2. PICK s \in Sessions : /\ \A r \in Sessions \ {s} : omx'[r] = omx[r]
                             /\ omx'[s].state = omx[s].state /\ omx'[s].job = omx[s].job
    <3>1. CASE th = "mgr" /\ OtherMoves
      BY <3>1 DEF OtherMoves, Moves
    <3>2. CASE SetMoves(th)
      BY <3>2 DEF SetMoves, Moves
    <3>3. CASE th = "api" /\ SelfMoves
      BY <3>3 DEF SelfMoves, Moves
    <3> QED
      BY <1>1, <3>1, <3>2, <3>3, Commands
  <2>3. \A r \in Sessions : omx'[r].state = omx[r].state /\ omx'[r].job = omx[r].job
    BY <2>2
  <2>4. \A r \in Sessions : AbortedAt(r) => AbortedAt(r)'
    BY <1>1, CommandKeeps, ChangingNames DEF AbortedAt, Aborting, Api, Threads
  <2> QED
    BY <2>1, <2>3, <2>4, RunningKept DEF RunningEach
<1>2. ASSUME NEW th \in Threads, ConfigMain(th)
      PROVE  RunningEach'
  <2>1. UNCHANGED <<session, omx, p_session_inprogress, ongoing_job_q, owner>>
    BY <1>2, ConfigMainDoes
  <2>2. \A r \in Sessions : AbortedAt(r) => AbortedAt(r)'
    BY <1>2, ConfigMainDoes DEF AbortedAt, Aborting, Mgr, Api, Threads, SetsPc
  <2> QED
    BY <2>1, <2>2, RunningKept DEF RunningEach
<1>3. ASSUME NEW th \in Threads, Configured(th)
      PROVE  RunningEach'
  <2>1. p_session_inprogress = None
    BY <1>3, ConfiguredDoes DEF IInv, Progress, ProgressAt, Configuring, Threads, Mgr, Api
  <2>2. \A r \in Sessions : omx[r].job = 0
    BY <2>1 DEF IInv, Running, RunningAt, None, Sessions
  <2> QED
    BY <1>3, <2>2, ConfiguredDoes DEF RunningEach, RunningAt
<1>4. CASE TakePost \/ ReadOngoing
  <2>1. UNCHANGED <<session, omx, p_session_inprogress, ongoing_job_q, owner>>
    BY <1>4, WakingDoes
  <2>2. \A r \in Sessions : AbortedAt(r) => AbortedAt(r)'
    BY <1>4, WakingDoes DEF AbortedAt, Aborting, Mgr, Api, Threads, SetsPc
  <2> QED
    BY <2>1, <2>2, RunningKept DEF RunningEach
<1>5. CASE TakeJob
  <2>1. UNCHANGED <<omx, p_session_inprogress, owner>> /\ ongoing_job_q \subseteq ongoing_job_q' /\ Api' = Api
    BY <1>5, TakeJobDoes DEF BeginsJob, SetsPc, SetsTask, Api, Threads
  <2>2. ASSUME NEW r \in Sessions, omx[r].job # 0
        PROVE  session'[r] = session[r]
    <3>1. CASE UNCHANGED session
      BY <3>1
    <3>2. CASE \E j \in Jobs : BeginsJob(j)
      <4>1. PICK j \in Jobs : BeginsJob(j)
        BY <3>2
      <4>2. owner[j] # r
        BY <2>2, <4>1 DEF BeginsJob, IInv, Handles, HandlesAt
      <4> QED
        BY <4>1, <4>2 DEF BeginsJob, SetsBegun
    <3> QED
      BY <1>5, <3>1, <3>2, TakeJobDoes
  <2> QED
    BY <2>1, <2>2, RunningKept DEF RunningEach, AbortedAt
<1>6. CASE ForgetOther
  <2>1. \A r \in Sessions : omx[r].job = 0
    BY <1>6, ForgetOtherDoes, WorkingIsServed
  <2> QED
    BY <1>6, <2>1, ForgetOtherDoes DEF RunningEach, RunningAt
<1>7. CASE JobParams
  <2>1. PICK s \in Sessions : s = Mgr.session /\ Only(s)
    BY <1>7, OnlyOne DEF Only
  <2>2. \A r \in Sessions \ {s} : p_session_inprogress' = p_session_inprogress /\ owner' = owner /\ ongoing_job_q' = ongoing_job_q /\ (AbortedAt(r) => AbortedAt(r)')
    BY <1>7, <2>1, JobParamsDoes DEF AbortedAt, Aborting, Mgr, Api, Threads, SetsPc
  <2>3. \A r \in Sessions \ {s} : RunningAt(r)'
    BY <2>1, <2>2, RunningKept DEF Only
  <2>4. RunningAt(s)'
    <3>1. omx[s].job = 0
      BY <1>7, <2>1, JobParamsDoes DEF IInv, Handles, HandlesAt
    <3>2. omx'[s].job = 0
      BY <1>7, <2>1, <3>1, JobParamsDoes
    <3> QED
      BY <3>2 DEF RunningAt
  <2> QED
    BY <2>3, <2>4 DEF RunningEach
<1>8. CASE Feed
  <2>1. PICK s \in Sessions : s = Mgr.session /\ Only(s)
    BY <1>8, OnlyOne DEF Only
  <2>2. /\ UNCHANGED <<session, p_session_inprogress, owner, ongoing_job_q>> /\ Api' = Api
        /\ Mgr.pc = "feed" /\ Mgr.pc \in WithLockMgr
    BY <1>8, FeedDoes DEF SetsTask, SetsPc, Api, Threads, WithLockMgr
  <2>3. \A r \in Sessions \ {s} : RunningAt(r)'
    BY <2>1, <2>2, RunningKept DEF Only, AbortedAt
  <2>4. CASE UNCHANGED omx
    BY <2>2, <2>4, RunningKept DEF RunningEach, AbortedAt
  <2>5. CASE omx[s].state = "Executing" /\ SetsJob(s, Mgr.job)
    <3>1. /\ p_session_inprogress = s /\ session[s].encoding
          /\ session[s].current = Mgr.job /\ owner[Mgr.job] = s /\ Mgr.job \in ongoing_job_q
      BY <2>1, <2>2 DEF IInv, Progress, ProgressAt, Calls, AtWork, Running
    <3>2. omx'[s].job = Mgr.job /\ omx'[s].state = "Executing"
      BY <2>5 DEF SetsJob
    <3>3. RunningAt(s)'
      BY <2>2, <3>1, <3>2 DEF RunningAt
    <3> QED
      BY <2>3, <3>3 DEF RunningEach
  <2> QED
    BY <1>8, <2>1, <2>4, <2>5, FeedDoes
<1>9. CASE JobFailed
  <2>1. PICK s \in Sessions : s = Mgr.session /\ Only(s)
    BY <1>9, OnlyOne DEF Only
  <2>2. /\ UNCHANGED <<omx, p_session_inprogress, owner>> /\ Api' = Api /\ Mgr.pc \in WithLockMgr
        /\ ongoing_job_q' = ongoing_job_q \ {session[s].current}
    BY <1>9, <2>1, JobFailedDoes DEF SaysEnd, SetsTask, Api, Threads, WithLockMgr
  <2>3. omx[s].job = 0 /\ session[s].current = Mgr.job
    BY <2>1, <2>2 DEF IInv, Handles, HandlesAt, Calls, AtWork
  <2>4. \A r \in Sessions \ {s} : omx[r].job # 0 /\ omx[r].job \in ongoing_job_q => omx[r].job \in ongoing_job_q'
    BY <2>2, <2>3, RunningAlone
  <2>5. \A r \in Sessions \ {s} : RunningAt(r)'
    BY <2>1, <2>2, <2>4, RunningKept DEF Only, AbortedAt
  <2> QED
    BY <2>2, <2>3, <2>5 DEF RunningEach, RunningAt
<1>10. CASE ConfigureNew
  <2>1. UNCHANGED <<session, omx, p_session_inprogress, ongoing_job_q, owner>>
    BY <1>10, ConfigureNewDoes
  <2>2. \A r \in Sessions : AbortedAt(r) => AbortedAt(r)'
    BY <1>10, ConfigureNewDoes DEF AbortedAt, Aborting, Mgr, Api, Threads, SetsPc, SetsTask
  <2> QED
    BY <2>1, <2>2, RunningKept DEF RunningEach
<1>11. CASE CreateFailed
  <2>1. UNCHANGED <<session, omx, p_session_inprogress, ongoing_job_q, owner>>
    BY <1>11, CreateFailedDoes
  <2>2. \A r \in Sessions : AbortedAt(r) => AbortedAt(r)'
    BY <1>11, CreateFailedDoes DEF AbortedAt, Aborting, Mgr, Api, Threads, SetsTask
  <2> QED
    BY <2>1, <2>2, RunningKept DEF RunningEach
<1>12. CASE FindJob
  <2>1. /\ UNCHANGED <<session, omx, p_session_inprogress, owner>>
        /\ Api.pc = "abortJob" /\ Api.job \in Jobs /\ owner[Api.job] = Api.session
    BY <1>12, FindJobDoes DEF IInv, Calls, InCalls
  <2>2. \/ ongoing_job_q' = ongoing_job_q
        \/ ongoing_job_q' = ongoing_job_q \ {Api.job} /\ Api'.pc = "abort" /\ Api'.session = Api.session
    BY <1>12, FindJobDoes DEF SetsPc, Api
  <2>3. \A r \in Sessions : omx[r].job \in ongoing_job_q /\ omx[r].job # 0 =>
          omx[r].job \in ongoing_job_q' \/ AbortedAt(r)'
    BY <2>1, <2>2, RunningAlone DEF AbortedAt, Aborting
  <2>4. \A r \in Sessions : ~AbortedAt(r)
    BY <2>1 DEF AbortedAt, Aborting
  <2> QED
    BY <2>1, <2>3, <2>4, RunningKept DEF RunningEach
<1>13. CASE DropJobs
  <2>1. /\ UNCHANGED <<session, omx, p_session_inprogress, owner>> /\ Api.pc = "destroy"
        /\ ongoing_job_q' = WithoutSession(ongoing_job_q, Api.session)
        /\ Api'.pc = "abort" /\ Api'.session = Api.session
    BY <1>13, DropJobsDoes DEF SetsPc, Api
  <2>2. \A r \in Sessions : omx[r].job \in ongoing_job_q /\ omx[r].job # 0 =>
          omx[r].job \in ongoing_job_q' \/ AbortedAt(r)'
    BY <2>1, RunningAlone DEF AbortedAt, Aborting, WithoutSession
  <2>3. \A r \in Sessions : ~AbortedAt(r)
    BY <2>1 DEF AbortedAt, Aborting
  <2> QED
    BY <2>1, <2>2, <2>3, RunningKept DEF RunningEach
<1>14. CASE BeginAbort
  <2>1. PICK s \in Sessions : s = Api.session /\ Only(s)
    BY <1>14, OnlyOne DEF Only
  <2>2. /\ UNCHANGED <<omx, p_session_inprogress, owner, ongoing_job_q>> /\ Api.pc = "abort"
        /\ session'[s].encoding = session[s].encoding /\ session'[s].current = session[s].current
    BY <1>14, <2>1, BeginAbortDoes DEF SetsAborting, EndsAbort, SetsAbort
  <2>3. \A r \in Sessions \ {s} : ~AbortedAt(r)
    BY <2>1 DEF AbortedAt
  <2>4. \A r \in Sessions \ {s} : RunningAt(r)'
    BY <2>1, <2>2, <2>3, RunningKept DEF Only
  <2>5. CASE session[s].abort = "NONE" /\ session[s].encoding
    <3>1. AbortedAt(s)'
      BY <1>14, <2>1, <2>5, BeginAbortDoes DEF AbortedAt, Aborting, SetsPc, Api
    <3>2. RunningAt(s)'
      BY <2>2, <3>1, RunningKept
    <3> QED
      BY <2>4, <3>2 DEF RunningEach
  <2>6. CASE ~(session[s].abort = "NONE" /\ session[s].encoding)
    <3>1. omx[s].job = 0
      BY <2>1, <2>2, <2>6, NoJobAtEnd
    <3> QED
      BY <2>2, <2>4, <3>1 DEF RunningEach, RunningAt
  <2> QED
    BY <2>5, <2>6
<1>15. CASE SendAbort
  <2>1. PICK s \in Sessions : s = Api.session /\ Only(s)
    BY <1>15, OnlyOne DEF Only
  <2>2. /\ UNCHANGED <<session, p_session_inprogress, owner, ongoing_job_q>>
        /\ omx'[s].job = omx[s].job /\ omx'[s].state = omx[s].state
    BY <1>15, <2>1, SendAbortDoes DEF SetsCmd
  <2>3. \A r \in Sessions : AbortedAt(r) => AbortedAt(r)'
    BY <1>15, SendAbortDoes DEF AbortedAt, Aborting, SetsPc, Api
  <2> QED
    BY <2>1, <2>2, <2>3, RunningKept DEF RunningEach, Only
<1>16. CASE EndAbort
  <2>1. PICK s \in Sessions : s = Api.session /\ Only(s)
    BY <1>16, OnlyOne DEF Only
  <2>2. UNCHANGED <<omx, p_session_inprogress, owner, ongoing_job_q>>
    BY <1>16, EndAbortDoes
  <2>3. \A r \in Sessions \ {s} : ~AbortedAt(r)
    BY <2>1 DEF AbortedAt
  <2>4. \A r \in Sessions \ {s} : RunningAt(r)'
    BY <2>1, <2>2, <2>3, RunningKept DEF Only
  <2>5. omx[s].job = 0
    BY <1>16, <2>1, EndAbortDoes, NoJobAtEnd
  <2> QED
    BY <2>2, <2>4, <2>5 DEF RunningEach, RunningAt
<1>17. CASE FreeSession
  <2>1. PICK s \in Sessions : s = Api.session /\ Only(s)
    BY <1>17, OnlyOne DEF Only
  <2>2. \A r \in Sessions \ {s} : omx[r].job # 0 => p_session_inprogress' = p_session_inprogress
    BY <1>17, <2>1, FreeSessionDoes DEF IInv, Running, RunningAt
  <2>3. UNCHANGED <<owner, ongoing_job_q>> /\ \A r \in Sessions : ~AbortedAt(r)
    BY <1>17, FreeSessionDoes DEF AbortedAt, Aborting
  <2>4. \A r \in Sessions \ {s} : RunningAt(r)'
    BY <2>1, <2>2, <2>3, RunningKept DEF Only
  <2>5. RunningAt(s)'
    BY <1>17, <2>1, FreeSessionDoes DEF SetsOmx, NoOmx, RunningAt
  <2> QED
    BY <2>4, <2>5 DEF RunningEach
<1>18. CASE Join
  <2>1. UNCHANGED <<session, omx, p_session_inprogress, ongoing_job_q, owner>>
    BY <1>18, JoinDoes
  <2>2. \A r \in Sessions : AbortedAt(r) => AbortedAt(r)'
    BY <1>18, JoinDoes DEF AbortedAt, Aborting, Mgr, Api, Threads, SetsPc
  <2> QED
    BY <2>1, <2>2, RunningKept DEF RunningEach
<1>19. ASSUME NEW s \in Sessions, EncoderDone(s)
      PROVE  RunningEach'
  <2>1. /\ Only(s) /\ omx[s].job # 0 /\ omx'[s].job = 0
        /\ UNCHANGED <<p_session_inprogress, owner, task>>
        /\ ongoing_job_q' = ongoing_job_q \/ ongoing_job_q' = ongoing_job_q \ {session[s].current}
    BY <1>19, OnlyOne, EncoderDoneDoes DEF SetsJob, SaysEnd
  <2>2. \A r \in Sessions \ {s} : omx[r].job # 0 /\ omx[r].job \in ongoing_job_q => omx[r].job \in ongoing_job_q'
    BY <2>1, RunningAlone
  <2>3. \A r \in Sessions \ {s} : RunningAt(r)'
    BY <2>1, <2>2, RunningKept DEF Only, AbortedAt, Api
  <2> QED
    BY <2>1, <2>3 DEF RunningEach, RunningAt
<1>20. ASSUME NEW s \in Sessions, EncoderError(s)
      PROVE  RunningEach'
  <2>1. /\ Only(s) /\ omx[s].job # 0 /\ omx'[s].job = 0
        /\ UNCHANGED <<p_session_inprogress, owner, task>>
        /\ ongoing_job_q' = ongoing_job_q \/ ongoing_job_q' = ongoing_job_q \ {session[s].current}
    BY <1>20, OnlyOne, EncoderErrorDoes DEF SetsJob, SaysEnd
  <2>2. \A r \in Sessions \ {s} : omx[r].job # 0 /\ omx[r].job \in ongoing_job_q => omx[r].job \in ongoing_job_q'
    BY <2>1, RunningAlone
  <2>3. \A r \in Sessions \ {s} : RunningAt(r)'
    BY <2>1, <2>2, RunningKept DEF Only, AbortedAt, Api
  <2> QED
    BY <2>1, <2>3 DEF RunningEach, RunningAt
<1>21. ASSUME NEW s \in Sessions, EncoderChanges(s)
      PROVE  RunningEach'
  <2>1. Only(s)
    BY <1>21, OnlyOne
  <2>2. \A r \in Sessions \ {s} : p_session_inprogress' = p_session_inprogress /\ owner' = owner /\ ongoing_job_q' = ongoing_job_q /\ (AbortedAt(r) => AbortedAt(r)')
    BY <1>21, <2>1, EncoderChangesDoes DEF AbortedAt, Aborting, Mgr, Api, Threads
  <2>3. \A r \in Sessions \ {s} : RunningAt(r)'
    BY <2>1, <2>2, RunningKept DEF Only
  <2>4. RunningAt(s)'
    <3>1. omx[s].job = 0
      BY <1>21, EncoderChangesDoes
    <3>2. omx'[s].job = 0
      BY <1>21, <2>1, <3>1, EncoderChangesDoes DEF SetsState
    <3> QED
      BY <3>2 DEF RunningAt
  <2> QED
    BY <2>3, <2>4 DEF RunningEach
<1>22. ASSUME NEW s \in Sessions, FinishJob(s)
      PROVE  RunningEach'
  <2>1. Only(s)
    BY <1>22, OnlyOne
  <2>2. \A r \in Sessions \ {s} : p_session_inprogress' = p_session_inprogress /\ owner' = owner /\ ongoing_job_q' = ongoing_job_q /\ (AbortedAt(r) => AbortedAt(r)')
    BY <1>22, <2>1, FinishJobDoes DEF AbortedAt, Aborting, Mgr, Api, Threads
  <2>3. \A r \in Sessions \ {s} : RunningAt(r)'
    BY <2>1, <2>2, RunningKept DEF Only
  <2>4. RunningAt(s)'
    <3>1. omx[s].job = 0
      BY <1>22, FinishJobDoes DEF IInv, Handles, HandlesAt
    <3>2. omx'[s].job = 0
      BY <1>22, <2>1, <3>1, FinishJobDoes
    <3> QED
      BY <3>2 DEF RunningAt
  <2> QED
    BY <2>3, <2>4 DEF RunningEach
<1>23. ASSUME NEW s \in Sessions, CreateSession(s)
      PROVE  RunningEach'
  <2>1. Only(s)
    BY <1>23, OnlyOne
  <2>2. \A r \in Sessions \ {s} : p_session_inprogress' = p_session_inprogress /\ owner' = owner /\ ongoing_job_q' = ongoing_job_q /\ (AbortedAt(r) => AbortedAt(r)')
    BY <1>23, <2>1, CreateSessionDoes DEF AbortedAt, Aborting, Mgr, Api, Threads, SetsTask
  <2>3. \A r \in Sessions \ {s} : RunningAt(r)'
    BY <2>1, <2>2, RunningKept DEF Only
  <2>4. RunningAt(s)'
    BY <1>23, CreateSessionDoes, NewSession DEF SetsOmx, RunningAt
  <2> QED
    BY <2>3, <2>4 DEF RunningEach
<1>24. ASSUME NEW s \in Sessions, StopSession(s)
      PROVE  RunningEach'
  <2>1. UNCHANGED <<session, omx, p_session_inprogress, ongoing_job_q, owner>>
    BY <1>24, StopSessionDoes
  <2>2. \A r \in Sessions : AbortedAt(r) => AbortedAt(r)'
    BY <1>24, StopSessionDoes DEF AbortedAt, Aborting, Mgr, Api, Threads
  <2> QED
    BY <2>1, <2>2, RunningKept DEF RunningEach
<1>25. ASSUME NEW s \in Sessions, DestroySession(s)
      PROVE  RunningEach'
  <2>1. UNCHANGED <<session, omx, p_session_inprogress, ongoing_job_q, owner>>
    BY <1>25, DestroySessionDoes
  <2>2. \A r \in Sessions : AbortedAt(r) => AbortedAt(r)'
    BY <1>25, DestroySessionDoes DEF AbortedAt, Aborting, Mgr, Api, Threads, SetsTask
  <2> QED
    BY <2>1, <2>2, RunningKept DEF RunningEach
<1>26. ASSUME NEW s \in Sessions, NEW j \in Jobs, StartJob(s, j)
      PROVE  RunningEach'
  <2>1. UNCHANGED <<session, omx, p_session_inprogress, ongoing_job_q, task>> /\ owner[j] = None
        /\ owner' = [owner EXCEPT ![j] = s]
    BY <1>26, StartJobDoes
  <2>2. \A r \in Sessions : omx[r].job # 0 => owner'[omx[r].job] = owner[omx[r].job]
    BY <2>1, RunningAlone DEF None, Sessions, IInv, Types, OtherTypes
  <2> QED
    BY <2>1, <2>2, RunningKept DEF RunningEach, AbortedAt, Api
<1>27. ASSUME NEW j \in Jobs, AbortJob(j)
      PROVE  RunningEach'
  <2>1. UNCHANGED <<session, omx, p_session_inprogress, ongoing_job_q, owner>>
    BY <1>27, AbortJobDoes
  <2>2. \A r \in Sessions : AbortedAt(r) => AbortedAt(r)'
    BY <1>27, AbortJobDoes DEF AbortedAt, Aborting, Mgr, Api, Threads, SetsTask
  <2> QED
    BY <2>1, <2>2, RunningKept DEF RunningEach
<1>28. CASE Release
  <2>1. UNCHANGED <<session, omx, p_session_inprogress, ongoing_job_q, owner>>
    BY <1>28, ReleaseDoes
  <2>2. \A r \in Sessions : AbortedAt(r) => AbortedAt(r)'
    BY <1>28, ReleaseDoes DEF AbortedAt, Aborting, Mgr, Api, Threads, SetsTask
  <2> QED
    BY <2>1, <2>2, RunningKept DEF RunningEach
<1>29. CASE UNCHANGED vars
  BY <1>29 DEF IInv, Running, RunningEach, RunningAt, Api, vars, queues, clients, history
<1> QED
  BY <1>1, <1>2, <1>3, <1>4, <1>5, <1>6, <1>7, <1>8, <1>9, <1>10, <1>11, <1>12, <1>13, <1>14,
     <1>15, <1>16, <1>17, <1>18, <1>19, <1>20, <1>21, <1>22, <1>23, <1>24, <1>25, <1>26, <1>27,
     <1>28, <1>29
     DEF Next, Manager, InCall, Working, Encoder, Threads

ManagerRuns == Mgr.pc \in WithLockMgr => Mgr.job \in ongoing_job_q

\* Every step keeps the manager's job known to be ongoing.
LEMMA ManagerRunsStep ==
  ASSUME IInv, [Next]_vars
  PROVE  ManagerRuns'
<1>1. ASSUME NEW th \in Threads, SendCommand(th) \/ CheckCommand(th) \/ EndCommand(th)
      PROVE  ManagerRuns'
  <2>1. /\ ongoing_job_q' = ongoing_job_q
        /\ Mgr'.pc \in WithLockMgr => Mgr.pc \in WithLockMgr /\ Mgr'.job = Mgr.job
    BY <1>1, CommandKeeps DEF Mgr, Threads
  <2> QED
    BY <2>1 DEF IInv, Running, ManagerRuns
<1>2. ASSUME NEW th \in Threads, ConfigMain(th)
      PROVE  ManagerRuns'
  <2>1. /\ ongoing_job_q' = ongoing_job_q
        /\ Mgr'.pc \in WithLockMgr => Mgr.pc \in WithLockMgr /\ Mgr'.job = Mgr.job
    BY <1>2, ConfigMainDoes DEF Mgr, Threads, WithLockMgr, SetsPc
  <2> QED
    BY <2>1 DEF IInv, Running, ManagerRuns
<1>3. ASSUME NEW th \in Threads, Configured(th)
      PROVE  ManagerRuns'
  <2>1. /\ ongoing_job_q' = ongoing_job_q
        /\ Mgr'.pc \in WithLockMgr => Mgr.pc \in WithLockMgr /\ Mgr'.job = Mgr.job
    BY <1>3, ConfiguredDoes DEF Mgr, Threads, WithLockMgr, SetsPc, SetsTask
  <2> QED
    BY <2>1 DEF IInv, Running, ManagerRuns
<1>4. CASE TakePost \/ ReadOngoing
  <2>1. /\ ongoing_job_q' = ongoing_job_q
        /\ Mgr'.pc \in WithLockMgr => Mgr.pc \in WithLockMgr /\ Mgr'.job = Mgr.job
    BY <1>4, WakingDoes DEF Mgr, Threads, WithLockMgr, SetsPc
  <2> QED
    BY <2>1 DEF IInv, Running, ManagerRuns
<1>5. CASE TakeJob
  <2>1. CASE \E j \in Jobs : BeginsJob(j)
    BY <2>1 DEF BeginsJob, SetsTask, ManagerRuns, Mgr
  <2>2. CASE SetsPc("mgr", "idle") \/ SetsPc("mgr", "gone")
    BY <2>2 DEF SetsPc, ManagerRuns, WithLockMgr, Mgr
  <2> QED
    BY <1>5, <2>1, <2>2, TakeJobDoes
<1>6. CASE ForgetOther
  <2>1. /\ ongoing_job_q' = ongoing_job_q
        /\ Mgr'.pc \in WithLockMgr => Mgr.pc \in WithLockMgr /\ Mgr'.job = Mgr.job
    BY <1>6, ForgetOtherDoes DEF Mgr, Threads, WithLockMgr, SetsPc
  <2> QED
    BY <2>1 DEF IInv, Running, ManagerRuns
<1>7. CASE JobParams
  <2>1. /\ ongoing_job_q' = ongoing_job_q
        /\ Mgr'.pc \in WithLockMgr => Mgr.pc \in WithLockMgr /\ Mgr'.job = Mgr.job
    BY <1>7, JobParamsDoes DEF Mgr, Threads, WithLockMgr, SetsPc
  <2> QED
    BY <2>1 DEF IInv, Running, ManagerRuns
<1>8. CASE Feed
  <2>1. /\ ongoing_job_q' = ongoing_job_q
        /\ Mgr'.pc \in WithLockMgr => Mgr.pc \in WithLockMgr /\ Mgr'.job = Mgr.job
    BY <1>8, FeedDoes DEF Mgr, Threads, WithLockMgr, SetsPc, SetsTask
  <2> QED
    BY <2>1 DEF IInv, Running, ManagerRuns
<1>9. CASE JobFailed
  <2>1. Mgr'.pc = "idle"
    BY <1>9, JobFailedDoes DEF SetsTask, Mgr
  <2> QED
    BY <2>1 DEF ManagerRuns, WithLockMgr
<1>10. CASE ConfigureNew
  <2>1. /\ ongoing_job_q' = ongoing_job_q
        /\ Mgr'.pc \in WithLockMgr => Mgr.pc \in WithLockMgr /\ Mgr'.job = Mgr.job
    BY <1>10, ConfigureNewDoes DEF Mgr, Threads, WithLockMgr, SetsPc, SetsTask
  <2> QED
    BY <2>1 DEF IInv, Running, ManagerRuns
<1>11. CASE CreateFailed
  <2>1. /\ ongoing_job_q' = ongoing_job_q
        /\ Mgr'.pc \in WithLockMgr => Mgr.pc \in WithLockMgr /\ Mgr'.job = Mgr.job
    BY <1>11, CreateFailedDoes DEF Mgr, Threads, WithLockMgr, SetsTask
  <2> QED
    BY <2>1 DEF IInv, Running, ManagerRuns
<1>12. CASE FindJob
  <2>1. Mgr' = Mgr /\ Mgr.pc \notin WithLockMgr
    BY <1>12, FindJobDoes, Exclusion DEF Mgr, Threads, SetsPc, SetsTask
  <2> QED
    BY <2>1 DEF ManagerRuns
<1>13. CASE DropJobs
  <2>1. Mgr' = Mgr /\ Mgr.pc \notin WithLockMgr
    BY <1>13, DropJobsDoes, Exclusion DEF Mgr, Threads, SetsPc, SetsTask
  <2> QED
    BY <2>1 DEF ManagerRuns
<1>14. CASE BeginAbort
  <2>1. /\ ongoing_job_q' = ongoing_job_q
        /\ Mgr'.pc \in WithLockMgr => Mgr.pc \in WithLockMgr /\ Mgr'.job = Mgr.job
    BY <1>14, BeginAbortDoes DEF Mgr, Threads, WithLockMgr, SetsPc, EndsAbort, SetsTask
  <2> QED
    BY <2>1 DEF IInv, Running, ManagerRuns
<1>15. CASE SendAbort
  <2>1. /\ ongoing_job_q' = ongoing_job_q
        /\ Mgr'.pc \in WithLockMgr => Mgr.pc \in WithLockMgr /\ Mgr'.job = Mgr.job
    BY <1>15, SendAbortDoes DEF Mgr, Threads, WithLockMgr, SetsPc
  <2> QED
    BY <2>1 DEF IInv, Running, ManagerRuns
<1>16. CASE EndAbort
  <2>1. /\ ongoing_job_q' = ongoing_job_q
        /\ Mgr'.pc \in WithLockMgr => Mgr.pc \in WithLockMgr /\ Mgr'.job = Mgr.job
    BY <1>16, EndAbortDoes DEF Mgr, Threads, WithLockMgr, SetsPc, EndsAbort, SetsTask
  <2> QED
    BY <2>1 DEF IInv, Running, ManagerRuns
<1>17. CASE FreeSession
  <2>1. /\ ongoing_job_q' = ongoing_job_q
        /\ Mgr'.pc \in WithLockMgr => Mgr.pc \in WithLockMgr /\ Mgr'.job = Mgr.job
    BY <1>17, FreeSessionDoes DEF Mgr, Threads, WithLockMgr, SetsTask
  <2> QED
    BY <2>1 DEF IInv, Running, ManagerRuns
<1>18. CASE Join
  <2>1. /\ ongoing_job_q' = ongoing_job_q
        /\ Mgr'.pc \in WithLockMgr => Mgr.pc \in WithLockMgr /\ Mgr'.job = Mgr.job
    BY <1>18, JoinDoes DEF Mgr, Threads, WithLockMgr, SetsPc
  <2> QED
    BY <2>1 DEF IInv, Running, ManagerRuns
<1>19. ASSUME NEW s \in Sessions, EncoderDone(s)
      PROVE  ManagerRuns'
  <2>1. /\ omx[s].job # 0 /\ task' = task
        /\ ongoing_job_q' = ongoing_job_q \/ ongoing_job_q' = ongoing_job_q \ {session[s].current}
    BY <1>19, EncoderDoneDoes DEF SaysEnd
  <2>2. Mgr.pc \in WithLockMgr => Mgr.job # session[s].current
    BY <2>1, RunningAlone
  <2> QED
    BY <2>1, <2>2 DEF IInv, Running, ManagerRuns, Mgr
<1>20. ASSUME NEW s \in Sessions, EncoderError(s)
      PROVE  ManagerRuns'
  <2>1. /\ omx[s].job # 0 /\ task' = task
        /\ ongoing_job_q' = ongoing_job_q \/ ongoing_job_q' = ongoing_job_q \ {session[s].current}
    BY <1>20, EncoderErrorDoes DEF SaysEnd
  <2>2. Mgr.pc \in WithLockMgr => Mgr.job # session[s].current
    BY <2>1, RunningAlone
  <2> QED
    BY <2>1, <2>2 DEF IInv, Running, ManagerRuns, Mgr
<1>21. ASSUME NEW s \in Sessions, EncoderChanges(s)
      PROVE  ManagerRuns'
  <2>1. /\ ongoing_job_q' = ongoing_job_q
        /\ Mgr'.pc \in WithLockMgr => Mgr.pc \in WithLockMgr /\ Mgr'.job = Mgr.job
    BY <1>21, EncoderChangesDoes DEF Mgr, Threads, WithLockMgr
  <2> QED
    BY <2>1 DEF IInv, Running, ManagerRuns
<1>22. ASSUME NEW s \in Sessions, FinishJob(s)
      PROVE  ManagerRuns'
  <2>1. /\ ongoing_job_q' = ongoing_job_q
        /\ Mgr'.pc \in WithLockMgr => Mgr.pc \in WithLockMgr /\ Mgr'.job = Mgr.job
    BY <1>22, FinishJobDoes DEF Mgr, Threads, WithLockMgr
  <2> QED
    BY <2>1 DEF IInv, Running, ManagerRuns
<1>23. ASSUME NEW s \in Sessions, CreateSession(s)
      PROVE  ManagerRuns'
  <2>1. /\ ongoing_job_q' = ongoing_job_q
        /\ Mgr'.pc \in WithLockMgr => Mgr.pc \in WithLockMgr /\ Mgr'.job = Mgr.job
    BY <1>23, CreateSessionDoes DEF Mgr, Threads, WithLockMgr, SetsTask
  <2> QED
    BY <2>1 DEF IInv, Running, ManagerRuns
<1>24. ASSUME NEW s \in Sessions, StopSession(s)
      PROVE  ManagerRuns'
  <2>1. /\ ongoing_job_q' = ongoing_job_q
        /\ Mgr'.pc \in WithLockMgr => Mgr.pc \in WithLockMgr /\ Mgr'.job = Mgr.job
    BY <1>24, StopSessionDoes DEF Mgr, Threads, WithLockMgr
  <2> QED
    BY <2>1 DEF IInv, Running, ManagerRuns
<1>25. ASSUME NEW s \in Sessions, DestroySession(s)
      PROVE  ManagerRuns'
  <2>1. /\ ongoing_job_q' = ongoing_job_q
        /\ Mgr'.pc \in WithLockMgr => Mgr.pc \in WithLockMgr /\ Mgr'.job = Mgr.job
    BY <1>25, DestroySessionDoes DEF Mgr, Threads, WithLockMgr, SetsTask
  <2> QED
    BY <2>1 DEF IInv, Running, ManagerRuns
<1>26. ASSUME NEW s \in Sessions, NEW j \in Jobs, StartJob(s, j)
      PROVE  ManagerRuns'
  <2>1. /\ ongoing_job_q' = ongoing_job_q
        /\ Mgr'.pc \in WithLockMgr => Mgr.pc \in WithLockMgr /\ Mgr'.job = Mgr.job
    BY <1>26, StartJobDoes DEF Mgr, Threads, WithLockMgr
  <2> QED
    BY <2>1 DEF IInv, Running, ManagerRuns
<1>27. ASSUME NEW j \in Jobs, AbortJob(j)
      PROVE  ManagerRuns'
  <2>1. /\ ongoing_job_q' = ongoing_job_q
        /\ Mgr'.pc \in WithLockMgr => Mgr.pc \in WithLockMgr /\ Mgr'.job = Mgr.job
    BY <1>27, AbortJobDoes DEF Mgr, Threads, WithLockMgr, SetsTask
  <2> QED
    BY <2>1 DEF IInv, Running, ManagerRuns
<1>28. CASE Release
  <2>1. /\ ongoing_job_q' = ongoing_job_q
        /\ Mgr'.pc \in WithLockMgr => Mgr.pc \in WithLockMgr /\ Mgr'.job = Mgr.job
    BY <1>28, ReleaseDoes DEF Mgr, Threads, WithLockMgr, SetsTask
  <2> QED
    BY <2>1 DEF IInv, Running, ManagerRuns
<1>29. CASE UNCHANGED vars
  BY <1>29 DEF IInv, Running, ManagerRuns, Mgr, vars, queues, clients, history
<1> QED
  BY <1>1, <1>2, <1>3, <1>4, <1>5, <1>6, <1>7, <1>8, <1>9, <1>10, <1>11, <1>12, <1>13, <1>14,
     <1>15, <1>16, <1>17, <1>18, <1>19, <1>20, <1>21, <1>22, <1>23, <1>24, <1>25, <1>26, <1>27,
     <1>28, <1>29
     DEF Next, Manager, InCall, Working, Encoder, Threads

-----------------------------------------------------------------------------
(* What a change of an encoder's state has come to.                        *)

SettingPcs == {"toIdle", "toExec", "configured"}
UnsettingPcs == {"idleOther", "loadOther", "forget"}

\* A thread that does not go on with a configuration leaves it where it was.
LEMMA SettingKept ==
  ASSUME NEW o \in Threads, Setting(task[o]),
         task'[o].pc \in SettingPcs =>
           LET s == task[o].session
           IN  /\ task'[o] = task[o]
               /\ session'[s].pending = session[s].pending
               /\ omx'[s].state = omx[s].state /\ omx'[s].cmd = omx[s].cmd /\ omx'[s].bufs = omx[s].bufs
  PROVE  Setting(task[o])'
BY DEF Setting, Reaching, SettingPcs

\* Where the two threads are in a state that satisfies the invariant.
LEMMA SettingNow ==
  ASSUME IInv, NEW o \in Threads
  PROVE  /\ Setting(task[o])
         /\ task[o].pc \in SettingPcs =>
              /\ p_session_inprogress = None /\ task[o].session \in Sessions
              /\ session[task[o].session].active
              /\ o = "mgr" => Api.pc \notin WithLockApi
              /\ o = "api" => Mgr.pc \notin WithLockMgr /\ Api.session = task[o].session
<1>1. Setting(task[o])
  BY DEF IInv, Changes, Mgr, Api, Threads
<1>2. ASSUME task[o].pc \in SettingPcs
      PROVE  /\ p_session_inprogress = None /\ task[o].session \in Sessions
             /\ session[task[o].session].active
  <2>1. task[o].pc \in WithLockMgr /\ task[o].pc \in Configuring
    BY <1>2 DEF SettingPcs, WithLockMgr, Configuring
  <2>2. p_session_inprogress = None
    BY <2>1 DEF IInv, Progress, ProgressAt, Mgr, Api, Threads
  <2> QED
    BY <2>1, <2>2, ThreadActive
<1>3. ASSUME task[o].pc \in SettingPcs, o = "mgr"
      PROVE  Api.pc \notin WithLockApi
  BY <1>3, Exclusion DEF SettingPcs, WithLockMgr, Mgr
<1>4. ASSUME task[o].pc \in SettingPcs, o = "api"
      PROVE  Mgr.pc \notin WithLockMgr /\ Api.session = task[o].session
  BY <1>4, Exclusion DEF SettingPcs, WithLockApi, Configuring, Api
<1> QED
  BY <1>1, <1>2, <1>3, <1>4

\* Every step keeps what the configuration of a session has come to.
LEMMA SettingStep ==
  ASSUME IInv, NEW o \in Threads, [Next]_vars
  PROVE  Setting(task[o])'
<1>1. ASSUME NEW th \in Threads, SendCommand(th) \/ CheckCommand(th) \/ EndCommand(th)
      PROVE  Setting(task[o])'
  <2>1. /\ \A r \in Threads \ {th} : task'[r] = task[r]
        /\ th = "mgr" => task[th].pc \in WithLockMgr
        /\ th = "api" => task[th].pc \in WithLockApi
    BY <1>1, CommandKeeps
  <2>2. CASE o # th
    <3>1. task[o].pc \notin SettingPcs
      BY <2>1, <2>2, Exclusion DEF SettingPcs, Mgr, Api, Threads, WithLockMgr, WithLockApi, Configuring
    <3> QED
      BY <2>1, <2>2, <3>1, SettingNow, SettingKept
  <2>3. CASE o = th /\ ((th = "mgr" /\ OtherMoves) \/ (th = "api" /\ SelfMoves))
    BY <2>3 DEF OtherMoves, SelfMoves, Moves, Setting
  <2>4. CASE o = th /\ SetMoves(th)
    <3>1. PICK s \in Sessions : s = task[th].session
      BY <2>4 DEF SetMoves
    <3>2. /\ p_session_inprogress = None /\ task'[th].session = s
          /\ omx'[s].state = omx[s].state /\ Setting(task[th])
      BY <2>4, <3>1, SettingNow DEF SetMoves, Moves
    <3>3. ~session[s].error
      BY <3>2 DEF IInv, Encoders, Erring, ErringAt, None, Sessions
    <3>4. CASE Moves(th, s, "toIdle", omx[s].state # "Idle", "Idle", TRUE, "toExec", "failed")
      <4>1. task[th].phase = "start" => omx[s].state = "Loaded"
        BY <3>1, <3>2, <3>4 DEF Setting, Moves
      <4>2. task[th].phase # "start" => Reaching(s, "Idle")
        BY <3>1, <3>2, <3>4 DEF Setting, Moves
      <4>3. task[th].phase = "waiting" => omx[s].bufs
        BY <3>1, <3>2, <3>4 DEF Setting, Moves
      <4> QED
        BY <2>4, <3>2, <3>3, <3>4, <4>1, <4>2, <4>3 DEF Setting, Moves, Reaching
    <3>5. CASE Moves(th, s, "toExec", omx[s].state # "Executing", "Executing", omx[s].bufs, "configured", "failed")
      <4>1. task[th].phase = "start" => omx[s].state = "Idle"
        BY <3>1, <3>2, <3>5 DEF Setting, Moves
      <4>2. task[th].phase # "start" => Reaching(s, "Executing")
        BY <3>1, <3>2, <3>5 DEF Setting, Moves
      <4>3. omx[s].bufs
        BY <3>1, <3>2, <3>5 DEF Setting, Moves
      <4> QED
        BY <2>4, <3>2, <3>3, <3>5, <4>1, <4>2, <4>3 DEF Setting, Moves, Reaching
    <3> QED
      BY <2>4, <3>1, <3>4, <3>5 DEF SetMoves
  <2> QED
    BY <1>1, <2>2, <2>3, <2>4, Commands
<1>2. ASSUME NEW th \in Threads, ConfigMain(th)
      PROVE  Setting(task[o])'
  <2>1. /\ task[th].pc = "config" /\ UNCHANGED <<session, omx>> /\ task'[th].session = task[th].session
        /\ task'[th].phase = "start" /\ task'[th].pc \in {"toIdle", "failed"}
        /\ \A r \in Threads \ {th} : task'[r] = task[r]
    BY <1>2, ConfigMainDoes DEF SetsPc
  <2>2. CASE o # th
    BY <2>1, <2>2, SettingNow, SettingKept
  <2>3. CASE o = th /\ task'[th].pc = "failed"
    BY <2>3 DEF Setting
  <2>4. CASE o = th /\ task'[th].pc = "toIdle"
    <3>1. PICK s \in Sessions : s = task[th].session /\ session[s].active
      BY <2>1, ThreadActive DEF WithLockMgr
    <3>2. p_session_inprogress # s
      <4>1. p_session_inprogress = None
        BY <2>1 DEF IInv, Progress, ProgressAt, Configuring, Mgr, Api, Threads
      <4> QED
        BY <4>1 DEF None, Sessions
    <3>3. ~BeingSet(s)
      <4>1. CASE th = "mgr"
        BY <2>1, <4>1, Exclusion DEF BeingSet, Mgr, Api, WithLockMgr, WithLockApi, Configuring
      <4>2. CASE th = "api"
        BY <2>1, <4>2, Exclusion DEF BeingSet, Mgr, Api, WithLockMgr, WithLockApi, Configuring
      <4> QED
        BY <4>1, <4>2 DEF Threads
    <3>4. omx[s].state = "Loaded" /\ omx[s].cmd = "none"
      BY <3>1, <3>2, <3>3 DEF IInv, Encoders, Resting, RestingAt
    <3> QED
      BY <2>1, <2>4, <3>1, <3>4 DEF Setting
  <2> QED
    BY <2>1, <2>2, <2>3, <2>4
<1>3. ASSUME NEW th \in Threads, Configured(th)
      PROVE  Setting(task[o])'
  <2>1. /\ task[th].pc = "configured" /\ task'[th].pc \notin SettingPcs
        /\ \A r \in Threads \ {th} : task'[r] = task[r]
    BY <1>3, ConfiguredDoes DEF SetsPc, SetsTask, SettingPcs
  <2>2. o # th => task[o].pc \notin SettingPcs
    BY <2>1, Exclusion DEF SettingPcs, Mgr, Api, Threads, WithLockMgr, WithLockApi, Configuring
  <2> QED
    BY <2>1, <2>2, SettingNow, SettingKept
<1>4. CASE TakePost \/ ReadOngoing
  <2>1. task'["api"] = task["api"] /\ task'["mgr"].pc \notin SettingPcs /\ UNCHANGED <<session, omx>>
    BY <1>4, WakingDoes DEF SetsPc, SettingPcs, Threads
  <2> QED
    BY <2>1, SettingNow, SettingKept DEF Threads
<1>5. CASE TakeJob \/ ForgetOther \/ JobParams \/ Feed \/ JobFailed
  <2>1. job_lock = "free" \/ Mgr.pc \in WithLockMgr
    BY <1>5, TakeJobDoes, ForgetOtherDoes, JobParamsDoes, FeedDoes, JobFailedDoes DEF WithLockMgr
  <2>2. /\ task'["api"] = task["api"]
        /\ task'["mgr"].pc \in {"params", "idleOther", "config", "idle", "gone", "feed", "failed"}
    <3>1. CASE TakeJob
      BY <3>1, TakeJobDoes DEF BeginsJob, SetsPc, SetsTask, Threads
    <3>2. CASE ForgetOther \/ JobParams \/ Feed \/ JobFailed
      BY <3>2, ForgetOtherDoes, JobParamsDoes, FeedDoes, JobFailedDoes DEF SetsPc, SetsTask, Threads
    <3> QED
      BY <1>5, <3>1, <3>2
  <2>3. task["api"].pc \notin WithLockApi
    BY <2>1, Exclusion DEF Api
  <2>4. task'[o].pc \notin SettingPcs
    BY <2>2, <2>3 DEF SettingPcs, WithLockApi, Configuring, Threads
  <2> QED
    BY <2>4, SettingNow, SettingKept
<1>6. CASE ConfigureNew \/ CreateFailed \/ FindJob \/ DropJobs \/ BeginAbort \/ SendAbort
             \/ EndAbort \/ FreeSession
  <2>1. job_lock = "free" \/ Api.pc \in WithLockApi
    BY <1>6, ConfigureNewDoes, CreateFailedDoes, FindJobDoes, DropJobsDoes, BeginAbortDoes, SendAbortDoes,
       EndAbortDoes, FreeSessionDoes
       DEF WithLockApi, Aborting, Freeing
  <2>2. /\ task'["mgr"] = task["mgr"]
        /\ task'["api"].pc \in {"config", "idle", "abort", "abortSend", "abortWait", "idleSelf"}
    <3>1. CASE ConfigureNew \/ CreateFailed \/ FindJob \/ DropJobs
      BY <3>1, ConfigureNewDoes, CreateFailedDoes, FindJobDoes, DropJobsDoes DEF SetsPc, SetsTask, Threads
    <3>2. CASE BeginAbort \/ SendAbort \/ EndAbort \/ FreeSession
      BY <3>2, BeginAbortDoes, SendAbortDoes, EndAbortDoes, FreeSessionDoes
         DEF SetsPc, SetsTask, EndsAbort, Threads
    <3> QED
      BY <1>6, <3>1, <3>2
  <2>3. task["mgr"].pc \notin WithLockMgr
    BY <2>1, Exclusion DEF Mgr
  <2>4. task'[o].pc \notin SettingPcs
    BY <2>2, <2>3 DEF SettingPcs, WithLockMgr, Threads
  <2> QED
    BY <2>4, SettingNow, SettingKept
<1>7. CASE Join
  <2>1. task'["mgr"] = task["mgr"] /\ task'["api"].pc \notin SettingPcs /\ UNCHANGED <<session, omx>>
    BY <1>7, JoinDoes DEF SetsTask, SetsPc, SettingPcs, Threads
  <2> QED
    BY <2>1, SettingNow, SettingKept DEF Threads
<1>8. ASSUME NEW s \in Sessions, EncoderDone(s) \/ EncoderError(s)
      PROVE  Setting(task[o])'
  <2>1. omx[s].job # 0 /\ task' = task
    BY <1>8, EncoderDoneDoes, EncoderErrorDoes
  <2>2. p_session_inprogress # None
    BY <2>1, WorkingIsServed DEF None, Sessions
  <2>3. task[o].pc \notin SettingPcs
    BY <2>2, SettingNow
  <2> QED
    BY <2>1, <2>3, SettingNow, SettingKept
<1>9. ASSUME NEW s \in Sessions, EncoderChanges(s)
      PROVE  Setting(task[o])'
  <2>1. Only(s) /\ task' = task /\ Setting(task[o])
    BY <1>9, OnlyOne, EncoderChangesDoes, SettingNow
  <2>2. CASE task[o].pc \notin SettingPcs \/ task[o].session # s
    BY <2>1, <2>2, SettingNow, SettingKept DEF Only
  <2>3. CASE task[o].pc \in SettingPcs /\ task[o].session = s
    <3>1. session[s].abort # "INIT"
      <4>1. session[s].abort = "INIT" => Api.session = s /\ Api.pc \in {"abortSend", "abortWait"}
        BY DEF IInv, Aborts, AbortsAt
      <4>2. Api.pc \notin {"abortSend", "abortWait"}
        BY <2>3, SettingNow DEF Threads, Api, SettingPcs, WithLockApi, Aborting
      <4> QED
        BY <4>1, <4>2
    <3>2. /\ omx'[s].state = omx[s].cmd /\ omx'[s].cmd = "none" /\ omx'[s].bufs = omx[s].bufs
          /\ omx[s].cmd # "none" /\ ~session'[s].pending
      BY <1>9, <3>1, EncoderChangesDoes DEF SetsState, SetsPending
    <3>3. task[o].session = s /\ task'[o] = task[o]
      BY <2>1, <2>3
    <3> QED
      BY <2>1, <3>2, <3>3 DEF Setting, Reaching
  <2> QED
    BY <2>2, <2>3
<1>10. ASSUME NEW s \in Sessions, FinishJob(s)
      PROVE  Setting(task[o])'
  <2>1. /\ UNCHANGED <<omx, task>>
        /\ \A r \in Sessions : session'[r].pending = session[r].pending
    BY <1>10, FinishJobDoes DEF SetsReturned
  <2> QED
    BY <2>1, SettingNow, SettingKept
<1>11. ASSUME NEW s \in Sessions, CreateSession(s)
      PROVE  Setting(task[o])'
  <2>1. /\ task'["mgr"] = task["mgr"] /\ task'["api"].pc \notin SettingPcs
        /\ ~session[s].active /\ Only(s)
    BY <1>11, CreateSessionDoes, OnlyOne DEF SetsTask, SettingPcs, Threads
  <2> QED
    BY <2>1, SettingNow, SettingKept DEF Threads, Only
<1>12. ASSUME NEW s \in Sessions, StopSession(s)
      PROVE  Setting(task[o])'
  <2>1. UNCHANGED <<session, omx, task>>
    BY <1>12, StopSessionDoes
  <2> QED
    BY <2>1, SettingNow, SettingKept
<1>13. ASSUME NEW s \in Sessions, DestroySession(s)
      PROVE  Setting(task[o])'
  <2>1. task'["mgr"] = task["mgr"] /\ task'["api"].pc \notin SettingPcs /\ UNCHANGED <<session, omx>>
    BY <1>13, DestroySessionDoes DEF SetsTask, SetsPc, SettingPcs, Threads
  <2> QED
    BY <2>1, SettingNow, SettingKept DEF Threads
<1>14. ASSUME NEW s \in Sessions, NEW j \in Jobs, StartJob(s, j)
      PROVE  Setting(task[o])'
  <2>1. UNCHANGED <<session, omx, task>>
    BY <1>14, StartJobDoes
  <2> QED
    BY <2>1, SettingNow, SettingKept
<1>15. ASSUME NEW j \in Jobs, AbortJob(j)
      PROVE  Setting(task[o])'
  <2>1. task'["mgr"] = task["mgr"] /\ task'["api"].pc \notin SettingPcs /\ UNCHANGED <<session, omx>>
    BY <1>15, AbortJobDoes DEF SetsTask, SetsPc, SettingPcs, Threads
  <2> QED
    BY <2>1, SettingNow, SettingKept DEF Threads
<1>16. CASE Release
  <2>1. task'["mgr"] = task["mgr"] /\ task'["api"].pc \notin SettingPcs /\ UNCHANGED <<session, omx>>
    BY <1>16, ReleaseDoes DEF SetsTask, SetsPc, SettingPcs, Threads
  <2> QED
    BY <2>1, SettingNow, SettingKept DEF Threads
<1>17. CASE UNCHANGED vars
  BY <1>17, SettingNow, SettingKept DEF vars
<1> QED
  BY <1>1, <1>2, <1>3, <1>4, <1>5, <1>6, <1>7, <1>8, <1>9, <1>10, <1>11, <1>12, <1>13, <1>14,
     <1>15, <1>16, <1>17
     DEF Next, Manager, InCall, Working, Encoder, Threads

UnsettingNow == p_session_inprogress # None => Unsetting(p_session_inprogress)

\* A manager that does not go on with the encoder in progress leaves it.
LEMMA UnsettingKept ==
  ASSUME IInv, p_session_inprogress' = p_session_inprogress,
         Mgr'.pc \in UnsettingPcs =>
           LET s == p_session_inprogress
           IN  /\ Mgr'.pc = Mgr.pc /\ Mgr'.phase = Mgr.phase
               /\ session'[s].pending = session[s].pending
               /\ omx'[s].state = omx[s].state /\ omx'[s].cmd = omx[s].cmd
  PROVE  UnsettingNow'
BY DEF IInv, Changes, UnsettingNow, Unsetting, Reaching, UnsettingPcs

\* With the lock and the session in progress the manager is alone.
LEMMA UnsettingAlone ==
  ASSUME IInv, Mgr.pc \in UnsettingPcs
  PROVE  /\ Mgr.pc \in WithLockMgr /\ Api.pc \notin WithLockApi /\ p_session_inprogress \in Sessions
         /\ session[p_session_inprogress].active
<1>1. Mgr.pc \in WithLockMgr
  BY DEF UnsettingPcs, WithLockMgr
<1>2. p_session_inprogress \in Sessions
  BY DEF UnsettingPcs, IInv, Progress, ProgressAt, Types, OtherTypes
<1> QED
  BY <1>1, <1>2, Exclusion DEF IInv, Progress, InProgress

\* Every step keeps what taking the encoder from the session in progress has come to.
LEMMA UnsettingStep ==
  ASSUME IInv, [Next]_vars
  PROVE  UnsettingNow'
<1>1. ASSUME NEW th \in Threads, SendCommand(th) \/ CheckCommand(th) \/ EndCommand(th)
      PROVE  UnsettingNow'
  <2>1. p_session_inprogress' = p_session_inprogress
    BY <1>1, CommandKeeps
  <2>2. CASE th = "mgr" /\ OtherMoves
    <3>1. PICK s \in Sessions : s = p_session_inprogress
      BY <2>2 DEF OtherMoves
    <3>2. Unsetting(s) /\ ServingAt(s) /\ omx'[s].state = omx[s].state /\ Api.pc \notin WithLockApi
      BY <2>2, <3>1 DEF IInv, Encoders, Serving, Changes, None, Sessions, OtherMoves, Moves
    <3>3. ASSUME Moves("mgr", s, "idleOther", omx[s].state = "Executing", "Idle", omx[s].bufs,
                       "loadOther", "failed")
          PROVE  Unsetting(s)'
      <4>1. Mgr.phase # "start" => Reaching(s, "Idle")
        BY <3>2, <3>3 DEF Unsetting, Moves, Mgr
      <4> QED
        BY <3>2, <3>3, <4>1 DEF Unsetting, Moves, Reaching, Mgr
    <3>4. ASSUME Moves("mgr", s, "loadOther", omx[s].state = "Idle", "Loaded", FALSE, "forget", "failed")
          PROVE  Unsetting(s)'
      <4>1. omx[s].state # "Executing" /\ (Mgr.phase # "start" => Reaching(s, "Loaded"))
        BY <3>2, <3>4 DEF Unsetting, Moves, Mgr
      <4>2. Mgr.phase = "start" => omx[s].state = "Idle"
        <5>1. Mgr.phase = "start" => ~BeingUnset(s)
          BY <3>2, <3>4 DEF BeingUnset, Moves, WithLockApi, Freeing, Mgr
        <5> QED
          BY <3>1, <3>2, <4>1, <5>1 DEF ServingAt
      <4> QED
        BY <3>2, <3>4, <4>1, <4>2 DEF Unsetting, Moves, Reaching, Mgr
    <3>5. Unsetting(s)'
      BY <2>2, <3>1, <3>3, <3>4 DEF OtherMoves
    <3> QED
      BY <2>1, <3>1, <3>5 DEF UnsettingNow
  <2>3. CASE SetMoves(th)
    BY <2>1, <2>3 DEF SetMoves, UnsettingNow
  <2>4. CASE th = "api" /\ SelfMoves
    <3>1. Mgr'.pc \notin UnsettingPcs
      BY <2>4 DEF SelfMoves, UnsettingPcs, WithLockMgr
    <3> QED
      BY <3>1 DEF UnsettingNow, Unsetting, UnsettingPcs
  <2> QED
    BY <1>1, <2>2, <2>3, <2>4, Commands
<1>2. ASSUME NEW th \in Threads, ConfigMain(th)
      PROVE  UnsettingNow'
  <2>1. /\ task[th].pc = "config" /\ task'[th].pc \in {"toIdle", "failed"}
        /\ \A r \in Threads \ {th} : task'[r] = task[r]
        /\ UNCHANGED <<session, omx, p_session_inprogress>>
    BY <1>2, ConfigMainDoes DEF SetsPc
  <2>2. CASE th = "mgr"
    BY <2>1, <2>2, UnsettingKept DEF UnsettingPcs, Mgr
  <2>3. CASE th = "api"
    BY <2>1, <2>3, UnsettingKept DEF Mgr, Threads
  <2> QED
    BY <2>2, <2>3 DEF Threads
<1>3. ASSUME NEW th \in Threads, Configured(th)
      PROVE  UnsettingNow'
  <2>1. /\ task[th].pc = "configured" /\ (th = "mgr" => task'[th].pc = "params")
        /\ \A r \in Threads \ {th} : task'[r] = task[r]
    BY <1>3, ConfiguredDoes DEF SetsPc, SetsTask
  <2>2. Mgr'.pc \notin UnsettingPcs
    <3>1. CASE th = "mgr"
      BY <2>1, <3>1 DEF UnsettingPcs, Mgr
    <3>2. CASE th = "api"
      <4>1. Mgr' = Mgr /\ Mgr.pc \notin WithLockMgr
        BY <2>1, <3>2, Exclusion DEF Mgr, Api, Threads, WithLockApi, Configuring
      <4> QED
        BY <4>1 DEF UnsettingPcs, WithLockMgr
    <3> QED
      BY <3>1, <3>2 DEF Threads
  <2> QED
    BY <2>2 DEF UnsettingNow, Unsetting, UnsettingPcs
<1>4. CASE TakePost \/ ReadOngoing
  <2>1. Mgr'.pc \notin UnsettingPcs
    BY <1>4, WakingDoes DEF SetsPc, UnsettingPcs, Mgr
  <2> QED
    BY <2>1 DEF UnsettingNow, Unsetting, UnsettingPcs
<1>5. CASE TakeJob
  <2>1. Mgr'.pc \notin {"loadOther", "forget"} /\ (Mgr'.pc = "idleOther" => Mgr'.phase = "start")
    BY <1>5, TakeJobDoes DEF BeginsJob, SetsPc, SetsTask, Mgr
  <2> QED
    BY <2>1 DEF UnsettingNow, Unsetting
<1>6. CASE ForgetOther \/ JobParams \/ Feed \/ JobFailed
  <2>1. Mgr'.pc \notin UnsettingPcs
    BY <1>6, ForgetOtherDoes, JobParamsDoes, FeedDoes, JobFailedDoes DEF SetsPc, SetsTask, UnsettingPcs, Mgr
  <2> QED
    BY <2>1 DEF UnsettingNow, Unsetting, UnsettingPcs
<1>7. CASE ConfigureNew \/ CreateFailed \/ FindJob \/ DropJobs \/ BeginAbort \/ SendAbort
             \/ EndAbort \/ FreeSession
  <2>1. job_lock = "free" \/ Api.pc \in WithLockApi
    BY <1>7, ConfigureNewDoes, CreateFailedDoes, FindJobDoes, DropJobsDoes, BeginAbortDoes, SendAbortDoes,
       EndAbortDoes, FreeSessionDoes
       DEF WithLockApi, Aborting, Freeing
  <2>2. Mgr' = Mgr
    <3>1. CASE ConfigureNew \/ CreateFailed \/ FindJob \/ DropJobs
      BY <3>1, ConfigureNewDoes, CreateFailedDoes, FindJobDoes, DropJobsDoes
         DEF SetsPc, SetsTask, Threads, Mgr
    <3>2. CASE BeginAbort \/ SendAbort \/ EndAbort \/ FreeSession
      BY <3>2, BeginAbortDoes, SendAbortDoes, EndAbortDoes, FreeSessionDoes
         DEF SetsPc, SetsTask, EndsAbort, Threads, Mgr
    <3> QED
      BY <1>7, <3>1, <3>2
  <2>3. Mgr'.pc \notin UnsettingPcs
    BY <2>1, <2>2, Exclusion DEF UnsettingPcs, WithLockMgr
  <2> QED
    BY <2>3 DEF UnsettingNow, Unsetting, UnsettingPcs
<1>8. CASE Join
  <2>1. Mgr' = Mgr /\ UNCHANGED <<session, omx, p_session_inprogress>>
    BY <1>8, JoinDoes DEF SetsTask, SetsPc, Threads, Mgr
  <2> QED
    BY <2>1, UnsettingKept
<1>9. ASSUME NEW s \in Sessions, EncoderDone(s) \/ EncoderError(s)
      PROVE  UnsettingNow'
  <2>1. UNCHANGED p_session_inprogress /\ Mgr' = Mgr
    BY <1>9, EncoderDoneDoes, EncoderErrorDoes DEF Mgr
  <2>2. \A r \in Sessions : /\ omx'[r].state = omx[r].state /\ omx'[r].cmd = omx[r].cmd
                            /\ session'[r].pending = session[r].pending
    BY <1>9, EncoderDoneDoes, EncoderErrorDoes DEF SetsJob, SetsAbort, SetsError
  <2> QED
    BY <2>1, <2>2, UnsettingAlone, UnsettingKept
<1>10. ASSUME NEW s \in Sessions, EncoderChanges(s)
      PROVE  UnsettingNow'
  <2>1. Only(s) /\ Mgr' = Mgr /\ p_session_inprogress' = p_session_inprogress
    BY <1>10, OnlyOne, EncoderChangesDoes DEF Mgr
  <2>2. CASE Mgr.pc \notin UnsettingPcs \/ p_session_inprogress # s
    BY <2>1, <2>2, UnsettingAlone, UnsettingKept DEF Only
  <2>3. CASE Mgr.pc \in UnsettingPcs /\ p_session_inprogress = s
    <3>1. session[s].abort # "INIT"
      BY <2>3, UnsettingAlone DEF IInv, Aborts, AbortsAt, WithLockApi, Aborting
    <3>2. /\ omx'[s].state = omx[s].cmd /\ omx'[s].cmd = "none"
          /\ omx[s].cmd # "none" /\ ~session'[s].pending
      BY <1>10, <3>1, EncoderChangesDoes DEF SetsState, SetsPending
    <3>3. omx[s].cmd # "Executing" /\ Unsetting(s)
      BY <2>3 DEF IInv, Encoders, Serving, ServingAt, Changes, None, Sessions
    <3>4. Unsetting(s)'
      BY <2>1, <3>2, <3>3 DEF Unsetting, Reaching
    <3> QED
      BY <2>1, <2>3, <3>4 DEF UnsettingNow
  <2> QED
    BY <2>2, <2>3
<1>11. ASSUME NEW s \in Sessions, FinishJob(s)
      PROVE  UnsettingNow'
  <2>1. UNCHANGED <<omx, p_session_inprogress>> /\ Mgr' = Mgr
        /\ \A r \in Sessions : session'[r].pending = session[r].pending
    BY <1>11, FinishJobDoes DEF SetsReturned, Mgr
  <2> QED
    BY <2>1, UnsettingAlone, UnsettingKept
<1>12. ASSUME NEW s \in Sessions, CreateSession(s)
      PROVE  UnsettingNow'
  <2>1. Mgr' = Mgr /\ UNCHANGED p_session_inprogress /\ ~session[s].active /\ Only(s)
    BY <1>12, CreateSessionDoes, OnlyOne DEF SetsTask, Threads, Mgr
  <2> QED
    BY <2>1, UnsettingAlone, UnsettingKept DEF Only
<1>13. ASSUME NEW s \in Sessions, StopSession(s)
      PROVE  UnsettingNow'
  <2>1. Mgr' = Mgr /\ UNCHANGED <<session, omx, p_session_inprogress>>
    BY <1>13, StopSessionDoes DEF Mgr
  <2> QED
    BY <2>1, UnsettingKept
<1>14. ASSUME NEW s \in Sessions, DestroySession(s)
      PROVE  UnsettingNow'
  <2>1. Mgr' = Mgr /\ UNCHANGED <<session, omx, p_session_inprogress>>
    BY <1>14, DestroySessionDoes DEF SetsTask, SetsPc, Threads, Mgr
  <2> QED
    BY <2>1, UnsettingKept
<1>15. ASSUME NEW s \in Sessions, NEW j \in Jobs, StartJob(s, j)
      PROVE  UnsettingNow'
  <2>1. Mgr' = Mgr /\ UNCHANGED <<session, omx, p_session_inprogress>>
    BY <1>15, StartJobDoes DEF Mgr
  <2> QED
    BY <2>1, UnsettingKept
<1>16. ASSUME NEW j \in Jobs, AbortJob(j)
      PROVE  UnsettingNow'
  <2>1. Mgr' = Mgr /\ UNCHANGED <<session, omx, p_session_inprogress>>
    BY <1>16, AbortJobDoes DEF SetsTask, SetsPc, Threads, Mgr
  <2> QED
    BY <2>1, UnsettingKept
<1>17. CASE Release
  <2>1. Mgr' = Mgr /\ UNCHANGED <<session, omx, p_session_inprogress>>
    BY <1>17, ReleaseDoes DEF SetsTask, SetsPc, Threads, Mgr
  <2> QED
    BY <2>1, UnsettingKept
<1>18. CASE UNCHANGED vars
  BY <1>18, UnsettingKept DEF vars, Mgr
<1> QED
  BY <1>1, <1>2, <1>3, <1>4, <1>5, <1>6, <1>7, <1>8, <1>9, <1>10, <1>11, <1>12, <1>13, <1>14,
     <1>15, <1>16, <1>17, <1>18
     DEF Next, Manager, InCall, Working, Encoder, Threads

EndingNow == Ending(Api.session)

\* An encoder that is told to go back to Loaded is left alone by the others.
LEMMA EndingKept ==
  ASSUME IInv,
         Api'.pc = "loadSelf" =>
           LET s == Api.session
           IN  /\ Api' = Api /\ omx'[s].state = omx[s].state /\ omx'[s].cmd = omx[s].cmd
  PROVE  EndingNow'
BY DEF IInv, Changes, EndingNow, Ending

\* A session that is freed is there, and the manager does not have the lock.
LEMMA EndingAlone ==
  ASSUME IInv, Api.pc = "loadSelf"
  PROVE  Mgr.pc \notin WithLockMgr /\ Api.session \in Sessions /\ session[Api.session].active
<1>1. Api.pc \in WithLockApi
  BY DEF WithLockApi, Freeing
<1> QED
  BY <1>1, Exclusion DEF IInv, Calls, InCalls

\* Every step lets the encoder of a session that is freed rest.
LEMMA EndingStep ==
  ASSUME IInv, [Next]_vars
  PROVE  EndingNow'
<1>1. ASSUME NEW th \in Threads, SendCommand(th) \/ CheckCommand(th) \/ EndCommand(th)
      PROVE  EndingNow'
  <2>1. CASE th = "mgr" /\ OtherMoves
    <3>1. Api'.pc # "loadSelf"
      BY <2>1 DEF OtherMoves, WithLockApi, Freeing
    <3> QED
      BY <3>1, EndingKept
  <2>2. CASE SetMoves(th)
    <3>1. Api'.pc # "loadSelf"
      <4>1. CASE th = "mgr"
        <5>1. Api' = Api /\ Api.pc \notin WithLockApi
          BY <2>2, <4>1 DEF SetMoves, Api, Threads
        <5> QED
          BY <5>1 DEF WithLockApi, Freeing
      <4>2. CASE th = "api"
        BY <2>2, <4>2 DEF SetMoves, Moves, Api
      <4> QED
        BY <4>1, <4>2 DEF Threads
    <3> QED
      BY <3>1, EndingKept
  <2>3. CASE th = "api" /\ SelfMoves
    <3>1. PICK s \in Sessions : s = Api.session
      BY <2>3 DEF SelfMoves
    <3>2. Ending(s) /\ Api'.session = s /\ omx'[s].state = omx[s].state
      BY <2>3, <3>1 DEF IInv, Changes, SelfMoves, Moves
    <3>3. CASE Moves("api", s, "idleSelf", omx[s].state = "Executing", "Idle", omx[s].bufs, "loadSelf", "loadSelf")
      BY <3>2, <3>3 DEF EndingNow, Ending, Moves, Api
    <3>4. CASE Moves("api", s, "loadSelf", omx[s].state = "Idle", "Loaded", FALSE, "free", "free")
      BY <3>2, <3>4 DEF EndingNow, Ending, Moves, Api
    <3> QED
      BY <2>3, <3>1, <3>3, <3>4 DEF SelfMoves
  <2> QED
    BY <1>1, <2>1, <2>2, <2>3, Commands
<1>2. ASSUME NEW th \in Threads, ConfigMain(th)
      PROVE  EndingNow'
  <2>1. UNCHANGED omx /\ (Api' = Api \/ Api'.pc \in {"toIdle", "failed"})
    BY <1>2, ConfigMainDoes DEF SetsPc, Threads, Api
  <2> QED
    BY <2>1, EndingKept
<1>3. ASSUME NEW th \in Threads, Configured(th)
      PROVE  EndingNow'
  <2>1. UNCHANGED omx /\ (Api' = Api \/ Api'.pc = "idle")
    BY <1>3, ConfiguredDoes DEF SetsPc, SetsTask, Threads, Api
  <2> QED
    BY <2>1, EndingKept
<1>4. CASE TakePost \/ ReadOngoing
  <2>1. Api' = Api /\ UNCHANGED omx
    BY <1>4, WakingDoes DEF SetsPc, Threads, Api
  <2> QED
    BY <2>1, EndingKept
<1>5. CASE TakeJob \/ ForgetOther \/ JobParams \/ Feed \/ JobFailed
  <2>1. job_lock = "free" \/ Mgr.pc \in WithLockMgr
    BY <1>5, TakeJobDoes, ForgetOtherDoes, JobParamsDoes, FeedDoes, JobFailedDoes DEF WithLockMgr
  <2>2. Api' = Api
    <3>1. CASE TakeJob
      BY <3>1, TakeJobDoes DEF BeginsJob, SetsPc, SetsTask, Threads, Api
    <3>2. CASE ForgetOther \/ JobParams \/ Feed \/ JobFailed
      BY <3>2, ForgetOtherDoes, JobParamsDoes, FeedDoes, JobFailedDoes DEF SetsPc, SetsTask, Threads, Api
    <3> QED
      BY <1>5, <3>1, <3>2
  <2>3. Api.pc \notin WithLockApi
    BY <2>1, Exclusion
  <2>4. Api'.pc # "loadSelf"
    BY <2>2, <2>3 DEF WithLockApi, Freeing
  <2> QED
    BY <2>4, EndingKept
<1>6. CASE ConfigureNew \/ CreateFailed \/ FindJob \/ DropJobs \/ BeginAbort \/ SendAbort
             \/ EndAbort \/ FreeSession
  <2>1. CASE ConfigureNew \/ CreateFailed \/ FindJob \/ DropJobs
    BY <2>1, ConfigureNewDoes, CreateFailedDoes, FindJobDoes, DropJobsDoes, EndingKept
       DEF SetsPc, SetsTask, Api
  <2>2. CASE BeginAbort \/ SendAbort \/ EndAbort \/ FreeSession
    <3>1. Api'.pc # "loadSelf"
      BY <2>2, BeginAbortDoes, SendAbortDoes, EndAbortDoes, FreeSessionDoes
         DEF SetsPc, SetsTask, EndsAbort, Api
    <3> QED
      BY <3>1, EndingKept
  <2> QED
    BY <1>6, <2>1, <2>2
<1>7. CASE Join
  <2>1. Api'.pc # "loadSelf"
    BY <1>7, JoinDoes DEF SetsTask, SetsPc, Api
  <2> QED
    BY <2>1, EndingKept
<1>8. ASSUME NEW s \in Sessions, EncoderDone(s) \/ EncoderError(s)
      PROVE  EndingNow'
  <2>1. Api' = Api /\ \A r \in Sessions : omx'[r].state = omx[r].state /\ omx'[r].cmd = omx[r].cmd
    BY <1>8, EncoderDoneDoes, EncoderErrorDoes DEF SetsJob, Api
  <2> QED
    BY <2>1, EndingAlone, EndingKept
<1>9. ASSUME NEW s \in Sessions, EncoderChanges(s)
      PROVE  EndingNow'
  <2>1. Api' = Api /\ Only(s) /\ omx'[s].state = omx[s].cmd /\ omx'[s].cmd = "none"
    BY <1>9, OnlyOne, EncoderChangesDoes DEF SetsState, Api
  <2>2. CASE Api.session # s
    BY <2>1, <2>2, EndingAlone, EndingKept DEF Only
  <2>3. CASE Api.session = s
    BY <2>1, <2>3 DEF IInv, Changes, EndingNow, Ending
  <2> QED
    BY <2>2, <2>3
<1>10. ASSUME NEW s \in Sessions, FinishJob(s)
      PROVE  EndingNow'
  <2>1. Api' = Api /\ UNCHANGED omx
    BY <1>10, FinishJobDoes DEF Api
  <2> QED
    BY <2>1, EndingKept
<1>11. ASSUME NEW s \in Sessions, CreateSession(s)
      PROVE  EndingNow'
  <2>1. Api'.pc # "loadSelf"
    BY <1>11, CreateSessionDoes DEF SetsTask, SetsPc, Api
  <2> QED
    BY <2>1, EndingKept
<1>12. ASSUME NEW s \in Sessions, StopSession(s)
      PROVE  EndingNow'
  <2>1. Api' = Api /\ UNCHANGED omx
    BY <1>12, StopSessionDoes DEF Api
  <2> QED
    BY <2>1, EndingKept
<1>13. ASSUME NEW s \in Sessions, DestroySession(s)
      PROVE  EndingNow'
  <2>1. Api'.pc # "loadSelf"
    BY <1>13, DestroySessionDoes DEF SetsTask, SetsPc, Api
  <2> QED
    BY <2>1, EndingKept
<1>14. ASSUME NEW s \in Sessions, NEW j \in Jobs, StartJob(s, j)
      PROVE  EndingNow'
  <2>1. Api' = Api /\ UNCHANGED omx
    BY <1>14, StartJobDoes DEF Api
  <2> QED
    BY <2>1, EndingKept
<1>15. ASSUME NEW j \in Jobs, AbortJob(j)
      PROVE  EndingNow'
  <2>1. Api'.pc # "loadSelf"
    BY <1>15, AbortJobDoes DEF SetsTask, SetsPc, Api
  <2> QED
    BY <2>1, EndingKept
<1>16. CASE Release
  <2>1. Api'.pc # "loadSelf"
    BY <1>16, ReleaseDoes DEF SetsTask, SetsPc, Api
  <2> QED
    BY <2>1, EndingKept
<1>17. CASE UNCHANGED vars
  BY <1>17, EndingKept DEF vars, Api
<1> QED
  BY <1>1, <1>2, <1>3, <1>4, <1>5, <1>6, <1>7, <1>8, <1>9, <1>10, <1>11, <1>12, <1>13, <1>14,
     <1>15, <1>16, <1>17
     DEF Next, Manager, InCall, Working, Encoder, Threads

-----------------------------------------------------------------------------
(* The handles of the sessions.                                            *)

\* A session that is not concerned keeps its handle where it is.
LEMMA HandlesKept ==
  ASSUME IInv, NEW r \in Sessions,
         session'[r].handles = session[r].handles, session'[r].active = session[r].active,
         session'[r].encoding => session[r].encoding,
         session[r].abort # "NONE" => session'[r].abort # "NONE",
         omx'[r].job = omx[r].job, finishing'[r] = finishing[r],
         Mgr'.session = r <=> Mgr.session = r
  PROVE  HandlesAt(r)'
BY DEF IInv, Handles, HandlesAt

\* Every step keeps account of the handles.
LEMMA HandlesStep ==
  ASSUME IInv, [Next]_vars
  PROVE  Handles'
<1>1. ASSUME NEW th \in Threads, SendCommand(th) \/ CheckCommand(th) \/ EndCommand(th)
      PROVE  Handles'
  <2>1. \A r \in Sessions : /\ session'[r].handles = session[r].handles /\ session'[r].active = session[r].active
                            /\ session'[r].encoding = session[r].encoding /\ session'[r].abort = session[r].abort
    BY <1>1, CommandKeeps
  <2>2. finishing' = finishing /\ Mgr'.session = Mgr.session
    BY <1>1, CommandKeeps DEF Mgr, Threads
  <2>3. \A r \in Sessions : omx'[r].job = omx[r].job
    <3>1. CASE th = "mgr" /\ OtherMoves
      BY <3>1 DEF OtherMoves, Moves
    <3>2. CASE SetMoves(th)
      BY <3>2 DEF SetMoves, Moves
    <3>3. CASE th = "api" /\ SelfMoves
      BY <3>3 DEF SelfMoves, Moves
    <3> QED
      BY <1>1, <3>1, <3>2, <3>3, Commands
  <2> QED
    BY <2>1, <2>2, <2>3, HandlesKept DEF Handles
<1>2. ASSUME NEW th \in Threads, ConfigMain(th)
      PROVE  Handles'
  <2>1. UNCHANGED <<session, omx, finishing>> /\ Mgr'.session = Mgr.session
    BY <1>2, ConfigMainDoes DEF SetsTask, SetsPc, Threads, Mgr
  <2> QED
    BY <2>1, HandlesKept DEF Handles
<1>3. ASSUME NEW th \in Threads, Configured(th)
      PROVE  Handles'
  <2>1. UNCHANGED <<omx, finishing>> /\ Mgr'.session = Mgr.session
    BY <1>3, ConfiguredDoes, Exclusion DEF SetsTask, SetsPc, Threads, Mgr
  <2>2. \A r \in Sessions : /\ session'[r].handles = session[r].handles /\ session'[r].active = session[r].active
                            /\ session'[r].encoding = session[r].encoding /\ session'[r].abort = session[r].abort
    BY <1>3, ConfiguredDoes DEF SetsConfig
  <2> QED
    BY <2>1, <2>2, HandlesKept DEF Handles
<1>4. CASE TakePost \/ ReadOngoing
  <2>1. UNCHANGED <<session, omx, finishing>> /\ Mgr'.session = Mgr.session
    BY <1>4, WakingDoes DEF SetsTask, SetsPc, Threads, Mgr
  <2> QED
    BY <2>1, HandlesKept DEF Handles
<1>5. CASE TakeJob
  <2>1. UNCHANGED <<omx, finishing>> /\ Mgr.session = None
    BY <1>5, TakeJobDoes, Exclusion DEF WithLockMgr
  <2>2. CASE \E j \in Jobs : BeginsJob(j)
    <3>1. PICK j \in Jobs : BeginsJob(j)
      BY <2>2
    <3>2. PICK s \in Sessions : s = owner[j] /\ Only(s)
      BY <1>5, <3>1, OnlyOne DEF Only
    <3>3. Mgr'.session = s /\ session[s].handles > 0 /\ session'[s].handles = session[s].handles - 1
      BY <3>1, <3>2 DEF BeginsJob, SetsBegun, SetsTask, Mgr
    <3>4. \A r \in Sessions \ {s} : HandlesAt(r)'
      BY <2>1, <3>2, <3>3, HandlesKept DEF Only, None, Sessions
    <3>5. session[s].handles = 1 /\ omx[s].job = 0 /\ ~finishing[s]
      BY <3>3 DEF IInv, Handles, HandlesAt
    <3>6. session'[s].handles = 0
      BY <3>3, <3>5
    <3>7. HandlesAt(s)'
      BY <2>1, <3>3, <3>5, <3>6 DEF HandlesAt
    <3> QED
      BY <3>4, <3>7 DEF Handles
  <2>3. CASE UNCHANGED session /\ Mgr'.session = None
    BY <2>1, <2>3, HandlesKept DEF Handles
  <2> QED
    BY <1>5, <2>1, <2>2, <2>3, TakeJobDoes DEF SetsPc, Mgr
<1>6. CASE ForgetOther
  <2>1. UNCHANGED <<omx, finishing>> /\ Mgr'.session = Mgr.session
    BY <1>6, ForgetOtherDoes, Exclusion DEF SetsTask, SetsPc, Threads, Mgr
  <2>2. \A r \in Sessions : /\ session'[r].handles = session[r].handles /\ session'[r].active = session[r].active
                            /\ session'[r].encoding = session[r].encoding /\ session'[r].abort = session[r].abort
    BY <1>6, ForgetOtherDoes DEF SetsConfig
  <2> QED
    BY <2>1, <2>2, HandlesKept DEF Handles
<1>7. CASE JobParams
  <2>1. PICK s \in Sessions : s = Mgr.session /\ Only(s)
    BY <1>7, OnlyOne DEF Only
  <2>2. session[s].handles = 0 /\ omx[s].job = 0 /\ ~finishing[s] /\ session[s].active
    BY <2>1, ThreadActive, Exclusion DEF IInv, Handles, HandlesAt, Calls, AtWork, None, Sessions
  <2>3. /\ session'[s].handles = session[s].handles /\ UNCHANGED <<omx, finishing>>
        /\ Mgr'.session = s
    BY <1>7, <2>1, JobParamsDoes DEF SetsEncoding, SetsTask, SetsPc, Threads, Mgr
  <2>4. \A r \in Sessions \ {s} : HandlesAt(r)'
    BY <2>1, <2>3, HandlesKept DEF Only
  <2>5. HandlesAt(s)'
    BY <2>2, <2>3 DEF HandlesAt
  <2> QED
    BY <2>4, <2>5 DEF Handles
<1>8. CASE Feed
  <2>1. PICK s \in Sessions : s = Mgr.session /\ Only(s)
    BY <1>8, OnlyOne DEF Only
  <2>2. session[s].handles = 0 /\ omx[s].job = 0 /\ ~finishing[s] /\ session[s].active
    BY <2>1, ThreadActive, Exclusion DEF IInv, Handles, HandlesAt, Calls, AtWork, None, Sessions
  <2>3. UNCHANGED <<session, finishing>>
    BY <1>8, <2>1, FeedDoes DEF SetsTask, SetsPc, Threads, Mgr
  <2>4. CASE omx'[s].job = Mgr.job /\ Mgr.job \in Jobs /\ Mgr'.session = None
    <3>1. \A r \in Sessions \ {s} : HandlesAt(r)'
      BY <2>1, <2>3, <2>4, HandlesKept DEF Only, None, Sessions
    <3>2. omx'[s].job # 0 /\ Mgr'.session # s
      BY <2>4 DEF Jobs, None, Sessions
    <3>3. HandlesAt(s)'
      BY <2>2, <2>3, <3>2 DEF HandlesAt
    <3> QED
      BY <3>1, <3>3 DEF Handles
  <2>5. CASE UNCHANGED omx /\ Mgr'.session = Mgr.session
    BY <2>3, <2>5, HandlesKept DEF Handles
  <2> QED
    BY <1>8, <2>1, <2>4, <2>5, FeedDoes DEF SetsJob, SetsTask, SetsPc, Mgr
<1>9. CASE JobFailed
  <2>1. PICK s \in Sessions : s = Mgr.session /\ Only(s)
    BY <1>9, OnlyOne DEF Only
  <2>2. session[s].handles = 0 /\ omx[s].job = 0 /\ ~finishing[s] /\ session[s].active
    BY <2>1, ThreadActive, Exclusion DEF IInv, Handles, HandlesAt, Calls, AtWork, None, Sessions
  <2>3. /\ session'[s].handles = session[s].handles + 1 /\ ~session'[s].encoding
        /\ UNCHANGED <<omx, finishing>> /\ Mgr'.session = None
    BY <1>9, <2>1, JobFailedDoes DEF SetsReturned, SetsTask, Mgr
  <2>4. \A r \in Sessions \ {s} : HandlesAt(r)'
    BY <2>1, <2>3, HandlesKept DEF Only, None, Sessions
  <2>5. session'[s].handles = 1
    BY <2>2, <2>3
  <2>6. HandlesAt(s)'
    BY <2>2, <2>3, <2>5 DEF HandlesAt, None, Sessions
  <2> QED
    BY <2>4, <2>6 DEF Handles
<1>10. CASE ConfigureNew
  <2>1. UNCHANGED <<session, omx, finishing>> /\ Mgr'.session = Mgr.session
    BY <1>10, ConfigureNewDoes DEF SetsTask, SetsPc, Threads, Mgr
  <2> QED
    BY <2>1, HandlesKept DEF Handles
<1>11. CASE CreateFailed
  <2>1. UNCHANGED <<session, omx, finishing>> /\ Mgr'.session = Mgr.session
    BY <1>11, CreateFailedDoes DEF SetsTask, SetsPc, Threads, Mgr
  <2> QED
    BY <2>1, HandlesKept DEF Handles
<1>12. CASE FindJob
  <2>1. UNCHANGED <<session, omx, finishing>> /\ Mgr'.session = Mgr.session
    BY <1>12, FindJobDoes DEF SetsTask, SetsPc, Threads, Mgr
  <2> QED
    BY <2>1, HandlesKept DEF Handles
<1>13. CASE DropJobs
  <2>1. UNCHANGED <<session, omx, finishing>> /\ Mgr'.session = Mgr.session
    BY <1>13, DropJobsDoes DEF SetsTask, SetsPc, Threads, Mgr
  <2> QED
    BY <2>1, HandlesKept DEF Handles
<1>14. CASE BeginAbort
  <2>1. PICK s \in Sessions : s = Api.session /\ Only(s)
    BY <1>14, OnlyOne DEF Only
  <2>2. /\ session'[s].handles = session[s].handles /\ session'[s].active = session[s].active
        /\ session'[s].encoding = session[s].encoding /\ session'[s].abort # "NONE"
        /\ UNCHANGED <<omx, finishing>> /\ Mgr'.session = Mgr.session
    BY <1>14, <2>1, BeginAbortDoes DEF SetsAborting, EndsAbort, SetsAbort, SetsTask, SetsPc, Threads, Mgr
  <2>3. \A r \in Sessions \ {s} : HandlesAt(r)'
    BY <2>1, <2>2, HandlesKept DEF Only
  <2>4. HandlesAt(s)'
    BY <2>2, HandlesKept
  <2> QED
    BY <2>3, <2>4 DEF Handles
<1>15. CASE SendAbort
  <2>1. UNCHANGED <<session, finishing>> /\ Mgr'.session = Mgr.session
    BY <1>15, SendAbortDoes DEF SetsTask, SetsPc, Threads, Mgr
  <2>2. \A r \in Sessions : omx'[r].job = omx[r].job
    BY <1>15, SendAbortDoes DEF SetsCmd
  <2> QED
    BY <2>1, <2>2, HandlesKept DEF Handles
<1>16. CASE EndAbort
  <2>1. PICK s \in Sessions : s = Api.session /\ Only(s)
    BY <1>16, OnlyOne DEF Only
  <2>2. /\ session'[s].handles = session[s].handles /\ session'[s].active = session[s].active
        /\ session'[s].encoding = session[s].encoding /\ session'[s].abort # "NONE"
        /\ UNCHANGED <<omx, finishing>> /\ Mgr'.session = Mgr.session
    BY <1>16, <2>1, EndAbortDoes DEF SetsAborting, EndsAbort, SetsAbort, SetsTask, SetsPc, Threads, Mgr
  <2>3. \A r \in Sessions \ {s} : HandlesAt(r)'
    BY <2>1, <2>2, HandlesKept DEF Only
  <2>4. HandlesAt(s)'
    BY <2>2, HandlesKept
  <2> QED
    BY <2>3, <2>4 DEF Handles
<1>17. CASE FreeSession
  <2>1. PICK s \in Sessions : s = Api.session /\ Only(s)
    BY <1>17, OnlyOne DEF Only
  <2>2. /\ session'[s] = NoSession /\ omx'[s] = NoOmx /\ Mgr' = Mgr
    BY <1>17, <2>1, FreeSessionDoes DEF SetsSession, SetsOmx, SetsTask, Threads, Mgr
  <2>3. Mgr.session = None
    BY <1>17, FreeSessionDoes, Exclusion DEF WithLockApi, Freeing
  <2>4. \A r \in Sessions \ {s} : HandlesAt(r)'
    BY <2>1, <2>2, HandlesKept DEF Only
  <2>5. HandlesAt(s)'
    BY <2>2, <2>3 DEF HandlesAt, NoSession, NoOmx, None, Sessions
  <2> QED
    BY <2>4, <2>5 DEF Handles
<1>18. CASE Join
  <2>1. UNCHANGED <<session, omx, finishing>> /\ Mgr'.session = Mgr.session
    BY <1>18, JoinDoes DEF SetsTask, SetsPc, Threads, Mgr
  <2> QED
    BY <2>1, HandlesKept DEF Handles
<1>19. ASSUME NEW s \in Sessions, EncoderDone(s)
      PROVE  Handles'
  <2>1. Only(s) /\ omx[s].job # 0 /\ omx'[s].job = 0 /\ UNCHANGED <<session, task>>
    BY <1>19, OnlyOne, EncoderDoneDoes DEF SetsJob
  <2>2. session[s].handles = 0 /\ Mgr.session # s /\ session[s].active
    BY <2>1, BusyIsThere DEF IInv, Handles, HandlesAt
  <2>3. finishing'[s] \/ session[s].abort # "NONE"
    BY <1>19, EncoderDoneDoes DEF IInv, Types, OtherTypes
  <2>4. \A r \in Sessions \ {s} : HandlesAt(r)'
    BY <2>1, HandlesKept DEF Only, Mgr
  <2>5. HandlesAt(s)'
    BY <2>1, <2>2, <2>3 DEF HandlesAt, Mgr
  <2> QED
    BY <2>4, <2>5 DEF Handles
<1>20. ASSUME NEW s \in Sessions, EncoderError(s)
      PROVE  Handles'
  <2>1. Only(s) /\ omx[s].job # 0 /\ omx'[s].job = 0 /\ UNCHANGED task
    BY <1>20, OnlyOne, EncoderErrorDoes DEF SetsJob
  <2>2. session[s].handles = 0 /\ Mgr.session # s /\ session[s].encoding
    BY <2>1 DEF IInv, Handles, HandlesAt, Running, RunningAt
  <2>3. session'[s].handles = session[s].handles
    BY <1>20, EncoderErrorDoes DEF SetsAbort, SetsError
  <2>4. finishing'[s] \/ session'[s].abort # "NONE"
    BY <1>20, <2>2, EncoderErrorDoes DEF SetsAbort, IInv, Types, OtherTypes
  <2>5. \A r \in Sessions \ {s} : HandlesAt(r)'
    BY <2>1, HandlesKept DEF Only, Mgr
  <2>6. HandlesAt(s)'
    BY <2>1, <2>2, <2>3, <2>4 DEF HandlesAt, Mgr
  <2> QED
    BY <2>5, <2>6 DEF Handles
<1>21. ASSUME NEW s \in Sessions, EncoderChanges(s)
      PROVE  Handles'
  <2>1. Only(s) /\ UNCHANGED <<finishing, task>> /\ omx'[s].job = omx[s].job
    BY <1>21, OnlyOne, EncoderChangesDoes DEF SetsState
  <2>2. /\ session'[s].handles = session[s].handles /\ session'[s].active = session[s].active
        /\ session'[s].encoding = session[s].encoding
        /\ session[s].abort # "NONE" => session'[s].abort # "NONE"
    BY <1>21, EncoderChangesDoes DEF SetsAbort, SetsPending
  <2>3. \A r \in Sessions \ {s} : HandlesAt(r)'
    BY <2>1, HandlesKept DEF Only, Mgr
  <2>4. HandlesAt(s)'
    BY <2>1, <2>2, HandlesKept DEF Mgr
  <2> QED
    BY <2>3, <2>4 DEF Handles
<1>22. ASSUME NEW s \in Sessions, FinishJob(s)
      PROVE  Handles'
  <2>1. Only(s) /\ UNCHANGED <<omx, task>> /\ finishing[s] /\ ~finishing'[s]
    BY <1>22, OnlyOne, FinishJobDoes DEF IInv, Types, OtherTypes
  <2>2. session[s].handles = 0 /\ Mgr.session # s /\ omx[s].job = 0
    BY <2>1 DEF IInv, Handles, HandlesAt
  <2>3. session'[s].handles = session[s].handles + 1 /\ ~session'[s].encoding
    BY <1>22, FinishJobDoes DEF SetsReturned
  <2>4. session'[s].handles = 1
    BY <2>2, <2>3
  <2>5. \A r \in Sessions \ {s} : HandlesAt(r)'
    BY <2>1, HandlesKept DEF Only, Mgr
  <2>6. HandlesAt(s)'
    BY <2>1, <2>2, <2>3, <2>4 DEF HandlesAt, Mgr
  <2> QED
    BY <2>5, <2>6 DEF Handles
<1>23. ASSUME NEW s \in Sessions, CreateSession(s)
      PROVE  Handles'
  <2>1. Only(s) /\ ~session[s].active /\ Mgr' = Mgr /\ UNCHANGED finishing
    BY <1>23, OnlyOne, CreateSessionDoes DEF SetsTask, Threads, Mgr
  <2>2. ~finishing[s]
    BY <2>1 DEF IInv, Absent, AbsentAt
  <2>3. Mgr.session # s
    BY <2>1 DEF IInv, Calls, AtWork, None, Sessions
  <2>4. \A r \in Sessions \ {s} : HandlesAt(r)'
    BY <2>1, HandlesKept DEF Only
  <2>5. session'[s].handles = 1 /\ ~session'[s].encoding /\ omx'[s].job = 0
    BY <1>23, CreateSessionDoes, NewSession DEF SetsSession, SetsOmx
  <2>6. HandlesAt(s)'
    BY <2>1, <2>2, <2>3, <2>5 DEF HandlesAt
  <2> QED
    BY <2>4, <2>6 DEF Handles
<1>24. ASSUME NEW s \in Sessions, StopSession(s)
      PROVE  Handles'
  <2>1. UNCHANGED <<session, omx, finishing>> /\ Mgr'.session = Mgr.session
    BY <1>24, StopSessionDoes DEF SetsTask, SetsPc, Threads, Mgr
  <2> QED
    BY <2>1, HandlesKept DEF Handles
<1>25. ASSUME NEW s \in Sessions, DestroySession(s)
      PROVE  Handles'
  <2>1. UNCHANGED <<session, omx, finishing>> /\ Mgr'.session = Mgr.session
    BY <1>25, DestroySessionDoes DEF SetsTask, SetsPc, Threads, Mgr
  <2> QED
    BY <2>1, HandlesKept DEF Handles
<1>26. ASSUME NEW s \in Sessions, NEW j \in Jobs, StartJob(s, j)
      PROVE  Handles'
  <2>1. UNCHANGED <<session, omx, finishing>> /\ Mgr'.session = Mgr.session
    BY <1>26, StartJobDoes DEF SetsTask, SetsPc, Threads, Mgr
  <2> QED
    BY <2>1, HandlesKept DEF Handles
<1>27. ASSUME NEW j \in Jobs, AbortJob(j)
      PROVE  Handles'
  <2>1. UNCHANGED <<session, omx, finishing>> /\ Mgr'.session = Mgr.session
    BY <1>27, AbortJobDoes DEF SetsTask, SetsPc, Threads, Mgr
  <2> QED
    BY <2>1, HandlesKept DEF Handles
<1>28. CASE Release
  <2>1. UNCHANGED <<session, omx, finishing>> /\ Mgr'.session = Mgr.session
    BY <1>28, ReleaseDoes DEF SetsTask, SetsPc, Threads, Mgr
  <2> QED
    BY <2>1, HandlesKept DEF Handles
<1>29. CASE UNCHANGED vars
  BY <1>29 DEF IInv, Handles, HandlesAt, Mgr, vars, queues, clients, history
<1> QED
  BY <1>1, <1>2, <1>3, <1>4, <1>5, <1>6, <1>7, <1>8, <1>9, <1>10, <1>11, <1>12, <1>13, <1>14,
     <1>15, <1>16, <1>17, <1>18, <1>19, <1>20, <1>21, <1>22, <1>23, <1>24, <1>25, <1>26, <1>27,
     <1>28, <1>29
     DEF Next, Manager, InCall, Working, Encoder, Threads

-----------------------------------------------------------------------------
(* The aborts.                                                             *)

\* A session that is not concerned stays where its abort is.
LEMMA AbortKept ==
  ASSUME IInv, NEW r \in Sessions, session'[r].abort = session[r].abort,
         omx'[r].job = omx[r].job \/ omx'[r].job = 0, finishing'[r] => finishing[r],
         Api.pc \in {"abortSend", "abortWait"} => 
           Api'.session = Api.session /\ Api'.pc \in {"abortSend", "abortWait"}
  PROVE  AbortsAt(r)'
BY DEF IInv, Aborts, AbortsAt

AbortsEach == \A s \in Sessions : AbortsAt(s)

\* Every step keeps a session's abort in order.
LEMMA AbortsStep ==
  ASSUME IInv, [Next]_vars
  PROVE  AbortsEach'
<1>1. ASSUME NEW th \in Threads, SendCommand(th) \/ CheckCommand(th) \/ EndCommand(th)
      PROVE  AbortsEach'
  <2>1. finishing' = finishing /\ \A r \in Sessions : session'[r].abort = session[r].abort
    BY <1>1, CommandKeeps
  <2>2. Api.pc \in {"abortSend", "abortWait"} => Api' = Api
    BY <1>1, CommandKeeps, ChangingNames DEF Api, Threads
  <2>3. \A r \in Sessions : omx'[r].job = omx[r].job
    <3>1. CASE th = "mgr" /\ OtherMoves
      BY <3>1 DEF OtherMoves, Moves
    <3>2. CASE SetMoves(th)
      BY <3>2 DEF SetMoves, Moves
    <3>3. CASE th = "api" /\ SelfMoves
      BY <3>3 DEF SelfMoves, Moves
    <3> QED
      BY <1>1, <3>1, <3>2, <3>3, Commands
  <2> QED
    BY <2>1, <2>2, <2>3, AbortKept DEF AbortsEach
<1>2. ASSUME NEW th \in Threads, ConfigMain(th)
      PROVE  AbortsEach'
  <2>1. UNCHANGED <<session, omx, finishing>> /\ (Api.pc \in {"abortSend", "abortWait"} => Api' = Api)
    BY <1>2, ConfigMainDoes DEF SetsTask, SetsPc, Threads, Api
  <2> QED
    BY <2>1, AbortKept DEF AbortsEach
<1>3. ASSUME NEW th \in Threads, Configured(th)
      PROVE  AbortsEach'
  <2>1. UNCHANGED <<omx, finishing>> /\ (Api.pc \in {"abortSend", "abortWait"} => Api' = Api)
    BY <1>3, ConfiguredDoes DEF SetsTask, SetsPc, Threads, Api
  <2>2. \A r \in Sessions : session'[r].abort = session[r].abort
    BY <1>3, ConfiguredDoes DEF SetsConfig
  <2> QED
    BY <2>1, <2>2, AbortKept DEF AbortsEach
<1>4. CASE TakePost \/ ReadOngoing
  <2>1. UNCHANGED <<session, omx, finishing>> /\ (Api.pc \in {"abortSend", "abortWait"} => Api' = Api)
    BY <1>4, WakingDoes DEF SetsTask, SetsPc, Threads, Api
  <2> QED
    BY <2>1, AbortKept DEF AbortsEach
<1>5. CASE TakeJob
  <2>1. UNCHANGED <<omx, finishing>> /\ Api' = Api
    BY <1>5, TakeJobDoes DEF BeginsJob, SetsTask, SetsPc, Threads, Api
  <2>2. CASE UNCHANGED session
    BY <2>1, <2>2, AbortKept DEF AbortsEach
  <2>3. CASE \E j \in Jobs : BeginsJob(j)
    <3>1. PICK j \in Jobs : BeginsJob(j)
      BY <2>3
    <3>2. PICK s \in Sessions : s = owner[j] /\ Only(s)
      BY <1>5, <3>1, OnlyOne DEF Only
    <3>3. session'[s].abort = "NONE"
      BY <3>1, <3>2 DEF BeginsJob, SetsBegun
    <3>4. \A r \in Sessions \ {s} : AbortsAt(r)'
      BY <2>1, <3>2, AbortKept DEF Only
    <3> QED
      BY <3>3, <3>4 DEF AbortsEach, AbortsAt
  <2> QED
    BY <1>5, <2>2, <2>3, TakeJobDoes
<1>6. CASE ForgetOther
  <2>1. UNCHANGED <<omx, finishing>> /\ (Api.pc \in {"abortSend", "abortWait"} => Api' = Api)
    BY <1>6, ForgetOtherDoes DEF SetsTask, SetsPc, Threads, Api
  <2>2. \A r \in Sessions : session'[r].abort = session[r].abort
    BY <1>6, ForgetOtherDoes DEF SetsConfig
  <2> QED
    BY <2>1, <2>2, AbortKept DEF AbortsEach
<1>7. CASE JobParams
  <2>1. UNCHANGED <<omx, finishing>> /\ (Api.pc \in {"abortSend", "abortWait"} => Api' = Api)
    BY <1>7, JobParamsDoes DEF SetsTask, SetsPc, Threads, Api
  <2>2. \A r \in Sessions : session'[r].abort = session[r].abort
    BY <1>7, JobParamsDoes DEF SetsEncoding
  <2> QED
    BY <2>1, <2>2, AbortKept DEF AbortsEach
<1>8. CASE Feed
  <2>1. PICK s \in Sessions : s = Mgr.session /\ Only(s)
    BY <1>8, OnlyOne DEF Only
  <2>2. UNCHANGED <<session, finishing>> /\ Api' = Api /\ Mgr.pc \in WithLockMgr
    BY <1>8, FeedDoes DEF SetsTask, SetsPc, Threads, Api, WithLockMgr
  <2>3. session[s].abort = "NONE"
    BY <2>1, <2>2 DEF IInv, Calls, AtWork
  <2>4. \A r \in Sessions \ {s} : AbortsAt(r)'
    BY <2>1, <2>2, AbortKept DEF Only
  <2> QED
    BY <2>2, <2>3, <2>4 DEF AbortsEach, AbortsAt
<1>9. CASE JobFailed
  <2>1. UNCHANGED <<omx, finishing>> /\ (Api.pc \in {"abortSend", "abortWait"} => Api' = Api)
    BY <1>9, JobFailedDoes DEF SetsTask, SetsPc, Threads, Api
  <2>2. \A r \in Sessions : session'[r].abort = session[r].abort
    BY <1>9, JobFailedDoes DEF SetsReturned
  <2> QED
    BY <2>1, <2>2, AbortKept DEF AbortsEach
<1>10. CASE ConfigureNew
  <2>1. UNCHANGED <<session, omx, finishing>> /\ (Api.pc \in {"abortSend", "abortWait"} => Api' = Api)
    BY <1>10, ConfigureNewDoes DEF SetsTask, SetsPc, Threads, Api
  <2> QED
    BY <2>1, AbortKept DEF AbortsEach
<1>11. CASE CreateFailed
  <2>1. UNCHANGED <<session, omx, finishing>> /\ (Api.pc \in {"abortSend", "abortWait"} => Api' = Api)
    BY <1>11, CreateFailedDoes DEF SetsTask, SetsPc, Threads, Api
  <2> QED
    BY <2>1, AbortKept DEF AbortsEach
<1>12. CASE FindJob
  <2>1. UNCHANGED <<session, omx, finishing>> /\ (Api.pc \in {"abortSend", "abortWait"} => Api' = Api)
    BY <1>12, FindJobDoes DEF SetsTask, SetsPc, Threads, Api
  <2> QED
    BY <2>1, AbortKept DEF AbortsEach
<1>13. CASE DropJobs
  <2>1. UNCHANGED <<session, omx, finishing>> /\ (Api.pc \in {"abortSend", "abortWait"} => Api' = Api)
    BY <1>13, DropJobsDoes DEF SetsTask, SetsPc, Threads, Api
  <2> QED
    BY <2>1, AbortKept DEF AbortsEach
<1>14. CASE BeginAbort
  <2>1. PICK s \in Sessions : s = Api.session /\ Only(s)
    BY <1>14, OnlyOne DEF Only
  <2>2. \A r \in Sessions \ {s} : AbortsAt(r)'
    <3>1. \A r \in Sessions \ {s} : session[r].abort # "INIT"
      BY <2>1 DEF IInv, Aborts, AbortsAt
    <3> QED
      BY <2>1, <3>1 DEF IInv, Aborts, AbortsAt, Only
  <2>3. CASE /\ ~(session[s].abort = "NONE" /\ session[s].encoding) /\ EndsAbort
    <3>1. session'[s].abort = "DONE" /\ omx'[s].job = 0 /\ ~finishing'[s]
      BY <1>14, <2>1, <2>3, BeginAbortDoes, NoJobAtEnd DEF EndsAbort, SetsAbort
    <3> QED
      BY <2>2, <3>1 DEF AbortsEach, AbortsAt
  <2>4. CASE SetsAborting(s, "INIT", TRUE) /\ SetsPc("api", "abortSend")
    <3>1. /\ session'[s].abort = "INIT" /\ ~finishing'[s]
          /\ Api'.session = s /\ Api'.pc = "abortSend"
      BY <1>14, <2>1, <2>4, BeginAbortDoes DEF SetsAborting, SetsPc, Api
    <3> QED
      BY <2>2, <3>1 DEF AbortsEach, AbortsAt
  <2> QED
    BY <1>14, <2>1, <2>3, <2>4, BeginAbortDoes
<1>15. CASE SendAbort
  <2>1. PICK s \in Sessions : s = Api.session /\ Only(s)
    BY <1>15, OnlyOne DEF Only
  <2>2. \A r \in Sessions \ {s} : AbortsAt(r)'
    <3>1. \A r \in Sessions \ {s} : session[r].abort # "INIT"
      BY <2>1 DEF IInv, Aborts, AbortsAt
    <3> QED
      BY <2>1, <3>1 DEF IInv, Aborts, AbortsAt, Only
  <2>3. UNCHANGED <<session, finishing>> /\ omx'[s].job = omx[s].job /\ Api'.session = s /\ Api'.pc = "abortWait"
    BY <1>15, <2>1, SendAbortDoes DEF SetsCmd, SetsPc, Api
  <2>4. AbortsAt(s)'
    BY <2>1, <2>3, AbortKept
  <2> QED
    BY <2>2, <2>4 DEF AbortsEach
<1>16. CASE EndAbort
  <2>1. PICK s \in Sessions : s = Api.session /\ Only(s)
    BY <1>16, OnlyOne DEF Only
  <2>2. \A r \in Sessions \ {s} : AbortsAt(r)'
    <3>1. \A r \in Sessions \ {s} : session[r].abort # "INIT"
      BY <2>1 DEF IInv, Aborts, AbortsAt
    <3> QED
      BY <2>1, <3>1 DEF IInv, Aborts, AbortsAt, Only
  <2>3. session'[s].abort = "DONE" /\ omx'[s].job = 0 /\ ~finishing'[s]
    BY <1>16, <2>1, EndAbortDoes, NoJobAtEnd DEF EndsAbort, SetsAbort
  <2> QED
    BY <2>2, <2>3 DEF AbortsEach, AbortsAt
<1>17. CASE FreeSession
  <2>1. PICK s \in Sessions : s = Api.session /\ Only(s)
    BY <1>17, OnlyOne DEF Only
  <2>2. \A r \in Sessions \ {s} : AbortsAt(r)'
    <3>1. \A r \in Sessions \ {s} : session[r].abort # "INIT"
      BY <2>1 DEF IInv, Aborts, AbortsAt
    <3> QED
      BY <2>1, <3>1 DEF IInv, Aborts, AbortsAt, Only
  <2>3. session'[s].abort = "NONE"
    BY <1>17, <2>1, FreeSessionDoes DEF SetsSession, NoSession
  <2> QED
    BY <2>2, <2>3 DEF AbortsEach, AbortsAt
<1>18. CASE Join
  <2>1. UNCHANGED <<session, omx, finishing>> /\ (Api.pc \in {"abortSend", "abortWait"} => Api' = Api)
    BY <1>18, JoinDoes DEF SetsTask, SetsPc, Threads, Api
  <2> QED
    BY <2>1, AbortKept DEF AbortsEach
<1>19. ASSUME NEW s \in Sessions, EncoderDone(s)
      PROVE  AbortsEach'
  <2>1. Only(s) /\ omx'[s].job = 0 /\ UNCHANGED <<session, task>>
    BY <1>19, OnlyOne, EncoderDoneDoes DEF SetsJob
  <2>2. \A r \in Sessions \ {s} : AbortsAt(r)'
    BY <2>1, AbortKept DEF Only, Api
  <2>3. session[s].abort = "NONE" \/ UNCHANGED finishing
    BY <1>19, EncoderDoneDoes
  <2>4. AbortsAt(s)'
    BY <2>1, <2>3 DEF IInv, Aborts, AbortsAt, Api
  <2> QED
    BY <2>2, <2>4 DEF AbortsEach
<1>20. ASSUME NEW s \in Sessions, EncoderError(s)
      PROVE  AbortsEach'
  <2>1. Only(s) /\ omx[s].job # 0 /\ omx'[s].job = 0 /\ ~finishing[s] /\ UNCHANGED task
    BY <1>20, OnlyOne, EncoderErrorDoes DEF SetsJob
  <2>2. \A r \in Sessions \ {s} : AbortsAt(r)'
    BY <2>1, AbortKept DEF Only, Api
  <2>3. session[s].abort \in {"NONE", "INIT"}
    BY <2>1 DEF IInv, Aborts, AbortsAt, Types, SessionType, SessionRecord
  <2>4. session'[s].abort = "NONE" \/ (session'[s].abort = "DONE" /\ UNCHANGED finishing)
    BY <1>20, <2>3, EncoderErrorDoes DEF SetsAbort, SetsError
  <2>5. AbortsAt(s)'
    BY <2>1, <2>4 DEF AbortsAt
  <2> QED
    BY <2>2, <2>5 DEF AbortsEach
<1>21. ASSUME NEW s \in Sessions, EncoderChanges(s)
      PROVE  AbortsEach'
  <2>1. Only(s) /\ omx'[s].job = 0 /\ ~finishing'[s] /\ UNCHANGED task
    BY <1>21, OnlyOne, EncoderChangesDoes DEF SetsState
  <2>2. \A r \in Sessions \ {s} : AbortsAt(r)'
    BY <2>1, AbortKept DEF Only, Api
  <2>3. session'[s].abort # "INIT"
    BY <1>21, EncoderChangesDoes DEF SetsAbort, SetsPending
  <2> QED
    BY <2>1, <2>2, <2>3 DEF AbortsEach, AbortsAt
<1>22. ASSUME NEW s \in Sessions, FinishJob(s)
      PROVE  AbortsEach'
  <2>1. Only(s) /\ UNCHANGED <<omx, task>> /\ ~finishing'[s]
    BY <1>22, OnlyOne, FinishJobDoes DEF IInv, Types, OtherTypes
  <2>2. session'[s].abort = session[s].abort
    BY <1>22, FinishJobDoes DEF SetsReturned
  <2> QED
    BY <2>1, <2>2, AbortKept DEF AbortsEach, Only, Api
<1>23. ASSUME NEW s \in Sessions, CreateSession(s)
      PROVE  AbortsEach'
  <2>1. Only(s) /\ UNCHANGED finishing /\ Api.pc = "idle" /\ session'[s].abort = "NONE"
    BY <1>23, OnlyOne, CreateSessionDoes, NewSession DEF SetsSession
  <2>2. \A r \in Sessions \ {s} : AbortsAt(r)'
    BY <2>1, AbortKept DEF Only
  <2> QED
    BY <2>1, <2>2 DEF AbortsEach, AbortsAt
<1>24. ASSUME NEW s \in Sessions, StopSession(s)
      PROVE  AbortsEach'
  <2>1. UNCHANGED <<session, omx, finishing>> /\ (Api.pc \in {"abortSend", "abortWait"} => Api' = Api)
    BY <1>24, StopSessionDoes DEF SetsTask, SetsPc, Threads, Api
  <2> QED
    BY <2>1, AbortKept DEF AbortsEach
<1>25. ASSUME NEW s \in Sessions, DestroySession(s)
      PROVE  AbortsEach'
  <2>1. UNCHANGED <<session, omx, finishing>> /\ (Api.pc \in {"abortSend", "abortWait"} => Api' = Api)
    BY <1>25, DestroySessionDoes DEF SetsTask, SetsPc, Threads, Api
  <2> QED
    BY <2>1, AbortKept DEF AbortsEach
<1>26. ASSUME NEW s \in Sessions, NEW j \in Jobs, StartJob(s, j)
      PROVE  AbortsEach'
  <2>1. UNCHANGED <<session, omx, finishing>> /\ (Api.pc \in {"abortSend", "abortWait"} => Api' = Api)
    BY <1>26, StartJobDoes DEF SetsTask, SetsPc, Threads, Api
  <2> QED
    BY <2>1, AbortKept DEF AbortsEach
<1>27. ASSUME NEW j \in Jobs, AbortJob(j)
      PROVE  AbortsEach'
  <2>1. UNCHANGED <<session, omx, finishing>> /\ (Api.pc \in {"abortSend", "abortWait"} => Api' = Api)
    BY <1>27, AbortJobDoes DEF SetsTask, SetsPc, Threads, Api
  <2> QED
    BY <2>1, AbortKept DEF AbortsEach
<1>28. CASE Release
  <2>1. UNCHANGED <<session, omx, finishing>> /\ (Api.pc \in {"abortSend", "abortWait"} => Api' = Api)
    BY <1>28, ReleaseDoes DEF SetsTask, SetsPc, Threads, Api
  <2> QED
    BY <2>1, AbortKept DEF AbortsEach
<1>29. CASE UNCHANGED vars
  BY <1>29 DEF IInv, Aborts, AbortsEach, AbortsAt, Api, vars, queues, clients, history
<1> QED
  BY <1>1, <1>2, <1>3, <1>4, <1>5, <1>6, <1>7, <1>8, <1>9, <1>10, <1>11, <1>12, <1>13, <1>14,
     <1>15, <1>16, <1>17, <1>18, <1>19, <1>20, <1>21, <1>22, <1>23, <1>24, <1>25, <1>26, <1>27,
     <1>28, <1>29
     DEF Next, Manager, InCall, Working, Encoder, Threads

AbortCalls ==
  /\ Api.pc \in {"abortSend", "abortWait"} =>
       session[Api.session].abort # "NONE" /\ p_session_inprogress = Api.session
  /\ Api.pc \in Freeing => session[Api.session].abort = "DONE"

\* A call that aborts goes on when its session's abort does.
LEMMA AbortCallKept ==
  ASSUME IInv, p_session_inprogress' = p_session_inprogress,
         Api'.pc \in {"abortSend", "abortWait"} \cup Freeing =>
           /\ Api'.pc = Api.pc /\ Api'.session = Api.session
           /\ LET s == Api.session
              IN  \/ session'[s].abort = session[s].abort
                  \/ session[s].abort = "INIT" /\ session'[s].abort = "DONE"
  PROVE  AbortCalls'
BY DEF IInv, Aborts, AbortCalls, Freeing

\* A session whose call aborts is there.
LEMMA AbortAlone ==
  ASSUME IInv, Api.pc \in {"abortSend", "abortWait"} \cup Freeing
  PROVE  Api.pc \in WithLockApi /\ Mgr.pc \notin WithLockMgr /\ job_lock # "free" /\ Api.session \in Sessions
<1>1. Api.pc \in WithLockApi
  BY DEF WithLockApi, Aborting, Freeing
<1> QED
  BY <1>1, Exclusion DEF IInv, Calls, InCalls

\* At the end of an abort the session's is done.
LEMMA AbortEnds ==
  ASSUME IInv, EndsAbort
  PROVE  AbortCalls'
<1>1. session'[Api.session].abort = "DONE"
  BY DEF EndsAbort, SetsAbort
<1>2. Api'.pc = "idle" \/ (Api'.pc = "idleSelf" /\ Api'.session = Api.session)
  BY DEF EndsAbort, SetsPc, SetsTask, Api
<1> QED
  BY <1>1, <1>2 DEF AbortCalls, Freeing

\* Every step keeps a call that aborts at the abort of its session.
LEMMA AbortCallsStep ==
  ASSUME IInv, [Next]_vars
  PROVE  AbortCalls'
<1>1. ASSUME NEW th \in Threads, SendCommand(th) \/ CheckCommand(th) \/ EndCommand(th)
      PROVE  AbortCalls'
  <2>1. /\ p_session_inprogress' = p_session_inprogress
        /\ \A r \in Sessions : session'[r].abort = session[r].abort
    BY <1>1, CommandKeeps
  <2>2. CASE th = "mgr"
    BY <1>1, <2>1, <2>2, CommandKeeps, AbortAlone, AbortCallKept DEF Mgr, Api, Threads
  <2>3. CASE th = "api" /\ SetMoves(th)
    <3>1. Api'.pc \in {"toIdle", "toExec", "configured", "failed"}
      BY <2>3 DEF SetMoves, Moves, Api
    <3> QED
      BY <3>1 DEF AbortCalls, Freeing
  <2>4. CASE th = "api" /\ SelfMoves
    <3>1. PICK s \in Sessions : s = Api.session
      BY <2>4 DEF SelfMoves
    <3>2. Api.pc \in Freeing /\ Api'.pc \in Freeing /\ Api'.session = s
      BY <2>4, <3>1 DEF SelfMoves, Moves, Api, Freeing
    <3>3. session'[s].abort = "DONE"
      BY <2>1, <3>1, <3>2 DEF IInv, Aborts
    <3> QED
      BY <3>2, <3>3 DEF AbortCalls, Freeing
  <2> QED
    BY <1>1, <2>2, <2>3, <2>4, Commands DEF Threads
<1>2. ASSUME NEW th \in Threads, ConfigMain(th)
      PROVE  AbortCalls'
  <2>1. /\ task[th].pc \in {"config", "configured"} /\ \A r \in Threads \ {th} : task'[r] = task[r]
        /\ task'[th].pc \in {"toIdle", "failed", "idle"} \/ th = "mgr"
    BY <1>2, ConfigMainDoes DEF SetsPc, SetsTask
  <2>2. Api'.pc \notin {"abortSend", "abortWait"} \cup Freeing
    <3>1. CASE th = "mgr"
      BY <2>1, <3>1, AbortAlone DEF Mgr, Api, Threads, WithLockMgr
    <3>2. CASE th = "api"
      BY <2>1, <3>2 DEF Api, Freeing
    <3> QED
      BY <3>1, <3>2 DEF Threads
  <2> QED
    BY <2>2 DEF AbortCalls
<1>3. ASSUME NEW th \in Threads, Configured(th)
      PROVE  AbortCalls'
  <2>1. /\ task[th].pc \in {"config", "configured"} /\ \A r \in Threads \ {th} : task'[r] = task[r]
        /\ task'[th].pc \in {"toIdle", "failed", "idle"} \/ th = "mgr"
    BY <1>3, ConfiguredDoes DEF SetsPc, SetsTask
  <2>2. Api'.pc \notin {"abortSend", "abortWait"} \cup Freeing
    <3>1. CASE th = "mgr"
      BY <2>1, <3>1, AbortAlone DEF Mgr, Api, Threads, WithLockMgr
    <3>2. CASE th = "api"
      BY <2>1, <3>2 DEF Api, Freeing
    <3> QED
      BY <3>1, <3>2 DEF Threads
  <2> QED
    BY <2>2 DEF AbortCalls
<1>4. CASE TakePost \/ ReadOngoing
  <2>1. UNCHANGED <<session, p_session_inprogress>> /\ Api' = Api
    BY <1>4, WakingDoes DEF SetsPc, Threads, Api
  <2> QED
    BY <2>1, AbortCallKept
<1>5. CASE TakeJob \/ ForgetOther \/ JobParams \/ Feed \/ JobFailed
  <2>1. job_lock = "free" \/ Mgr.pc \in WithLockMgr
    BY <1>5, TakeJobDoes, ForgetOtherDoes, JobParamsDoes, FeedDoes, JobFailedDoes DEF WithLockMgr
  <2>2. Api' = Api
    <3>1. CASE TakeJob
      BY <3>1, TakeJobDoes DEF BeginsJob, SetsPc, SetsTask, Threads, Api
    <3>2. CASE ForgetOther \/ JobParams \/ Feed \/ JobFailed
      BY <3>2, ForgetOtherDoes, JobParamsDoes, FeedDoes, JobFailedDoes DEF SetsPc, SetsTask, Threads, Api
    <3> QED
      BY <1>5, <3>1, <3>2
  <2>3. Api'.pc \notin {"abortSend", "abortWait"} \cup Freeing
    BY <2>1, <2>2, AbortAlone
  <2> QED
    BY <2>3 DEF AbortCalls
<1>6. CASE ConfigureNew
  <2>1. /\ p_session_inprogress' = p_session_inprogress
        /\ Api'.pc \in {"config", "idle", "abort", "closed", "destroy", "abortJob", "join", "create"}
    BY <1>6, ConfigureNewDoes DEF SetsTask, SetsPc, Api
  <2> QED
    BY <2>1, AbortCallKept DEF Freeing
<1>7. CASE CreateFailed
  <2>1. /\ p_session_inprogress' = p_session_inprogress
        /\ Api'.pc \in {"config", "idle", "abort", "closed", "destroy", "abortJob", "join", "create"}
    BY <1>7, CreateFailedDoes DEF SetsTask, SetsPc, Api
  <2> QED
    BY <2>1, AbortCallKept DEF Freeing
<1>8. CASE FindJob
  <2>1. /\ p_session_inprogress' = p_session_inprogress
        /\ Api'.pc \in {"config", "idle", "abort", "closed", "destroy", "abortJob", "join", "create"}
    BY <1>8, FindJobDoes DEF SetsTask, SetsPc, Api
  <2> QED
    BY <2>1, AbortCallKept DEF Freeing
<1>9. CASE DropJobs
  <2>1. /\ p_session_inprogress' = p_session_inprogress
        /\ Api'.pc \in {"config", "idle", "abort", "closed", "destroy", "abortJob", "join", "create"}
    BY <1>9, DropJobsDoes DEF SetsTask, SetsPc, Api
  <2> QED
    BY <2>1, AbortCallKept DEF Freeing
<1>10. CASE BeginAbort
  <2>1. PICK s \in Sessions : s = Api.session
    BY <1>10, BeginAbortDoes
  <2>2. /\ Api.pc = "abort" /\ ~finishing[s] /\ p_session_inprogress' = p_session_inprogress
        /\ Mgr.session = None /\ session[s].active
    BY <1>10, <2>1, BeginAbortDoes, Exclusion DEF IInv, Calls, InCalls, WithLockApi, Aborting
  <2>3. CASE session[s].abort = "NONE" /\ session[s].encoding
             /\ SetsAborting(s, "INIT", TRUE) /\ SetsPc("api", "abortSend")
    <3>1. omx[s].job # 0
      BY <2>2, <2>3 DEF IInv, Handles, HandlesAt, None, Sessions
    <3>2. p_session_inprogress = s
      BY <3>1 DEF IInv, Running, RunningAt
    <3>3. Api'.pc = "abortSend" /\ Api'.session = s /\ session'[s].abort = "INIT"
      BY <2>1, <2>3 DEF SetsAborting, SetsPc, Api
    <3> QED
      BY <2>2, <3>2, <3>3 DEF AbortCalls, Freeing
  <2>4. CASE EndsAbort
    BY <2>4, AbortEnds
  <2> QED
    BY <1>10, <2>1, <2>3, <2>4, BeginAbortDoes
<1>11. CASE SendAbort
  <2>1. /\ Api.pc = "abortSend" /\ Api'.pc = "abortWait" /\ Api'.session = Api.session
        /\ UNCHANGED <<session, p_session_inprogress>>
    BY <1>11, SendAbortDoes DEF SetsPc, Api
  <2> QED
    BY <2>1 DEF IInv, Aborts, AbortCalls, Freeing
<1>12. CASE EndAbort
  BY <1>12, EndAbortDoes, AbortEnds
<1>13. CASE FreeSession
  <2>1. Api'.pc = "idle"
    BY <1>13, FreeSessionDoes DEF SetsTask, Api
  <2> QED
    BY <2>1 DEF AbortCalls, Freeing
<1>14. CASE Join
  <2>1. /\ p_session_inprogress' = p_session_inprogress
        /\ Api'.pc \in {"config", "idle", "abort", "closed", "destroy", "abortJob", "join", "create"}
    BY <1>14, JoinDoes DEF SetsTask, SetsPc, Api
  <2> QED
    BY <2>1, AbortCallKept DEF Freeing
<1>15. ASSUME NEW s \in Sessions, EncoderDone(s)
      PROVE  AbortCalls'
  <2>1. /\ UNCHANGED p_session_inprogress /\ Api' = Api
        /\ \A r \in Sessions : \/ session'[r].abort = session[r].abort
                               \/ session[r].abort = "INIT" /\ session'[r].abort = "DONE"
    BY <1>15, EncoderDoneDoes DEF Api
  <2> QED
    BY <2>1, AbortAlone, AbortCallKept
<1>16. ASSUME NEW s \in Sessions, EncoderError(s)
      PROVE  AbortCalls'
  <2>1. /\ UNCHANGED p_session_inprogress /\ Api' = Api
        /\ \A r \in Sessions : \/ session'[r].abort = session[r].abort
                               \/ session[r].abort = "INIT" /\ session'[r].abort = "DONE"
    BY <1>16, EncoderErrorDoes DEF SetsAbort, SetsError, Api
  <2> QED
    BY <2>1, AbortAlone, AbortCallKept
<1>17. ASSUME NEW s \in Sessions, EncoderChanges(s)
      PROVE  AbortCalls'
  <2>1. /\ UNCHANGED p_session_inprogress /\ Api' = Api
        /\ \A r \in Sessions : \/ session'[r].abort = session[r].abort
                               \/ session[r].abort = "INIT" /\ session'[r].abort = "DONE"
    BY <1>17, EncoderChangesDoes DEF SetsAbort, SetsPending, Api
  <2> QED
    BY <2>1, AbortAlone, AbortCallKept
<1>18. ASSUME NEW s \in Sessions, FinishJob(s)
      PROVE  AbortCalls'
  <2>1. /\ UNCHANGED p_session_inprogress /\ Api' = Api
        /\ \A r \in Sessions : \/ session'[r].abort = session[r].abort
                               \/ session[r].abort = "INIT" /\ session'[r].abort = "DONE"
    BY <1>18, FinishJobDoes DEF SetsReturned, Api
  <2> QED
    BY <2>1, AbortAlone, AbortCallKept
<1>19. ASSUME NEW s \in Sessions, CreateSession(s)
      PROVE  AbortCalls'
  <2>1. /\ p_session_inprogress' = p_session_inprogress
        /\ Api'.pc \in {"config", "idle", "abort", "closed", "destroy", "abortJob", "join", "create"}
    BY <1>19, CreateSessionDoes DEF SetsTask, SetsPc, Api
  <2> QED
    BY <2>1, AbortCallKept DEF Freeing
<1>20. ASSUME NEW s \in Sessions, StopSession(s)
      PROVE  AbortCalls'
  <2>1. UNCHANGED <<session, p_session_inprogress>> /\ Api' = Api
    BY <1>20, StopSessionDoes DEF SetsPc, Threads, Api
  <2> QED
    BY <2>1, AbortCallKept
<1>21. ASSUME NEW s \in Sessions, DestroySession(s)
      PROVE  AbortCalls'
  <2>1. /\ p_session_inprogress' = p_session_inprogress
        /\ Api'.pc \in {"config", "idle", "abort", "closed", "destroy", "abortJob", "join", "create"}
    BY <1>21, DestroySessionDoes DEF SetsTask, SetsPc, Api
  <2> QED
    BY <2>1, AbortCallKept DEF Freeing
<1>22. ASSUME NEW s \in Sessions, NEW j \in Jobs, StartJob(s, j)
      PROVE  AbortCalls'
  <2>1. UNCHANGED <<session, p_session_inprogress>> /\ Api' = Api
    BY <1>22, StartJobDoes DEF SetsPc, Threads, Api
  <2> QED
    BY <2>1, AbortCallKept
<1>23. ASSUME NEW j \in Jobs, AbortJob(j)
      PROVE  AbortCalls'
  <2>1. /\ p_session_inprogress' = p_session_inprogress
        /\ Api'.pc \in {"config", "idle", "abort", "closed", "destroy", "abortJob", "join", "create"}
    BY <1>23, AbortJobDoes DEF SetsTask, SetsPc, Api
  <2> QED
    BY <2>1, AbortCallKept DEF Freeing
<1>24. CASE Release
  <2>1. /\ p_session_inprogress' = p_session_inprogress
        /\ Api'.pc \in {"config", "idle", "abort", "closed", "destroy", "abortJob", "join", "create"}
    BY <1>24, ReleaseDoes DEF SetsTask, SetsPc, Api
  <2> QED
    BY <2>1, AbortCallKept DEF Freeing
<1>25. CASE UNCHANGED vars
  BY <1>25 DEF IInv, Aborts, AbortCalls, Api, vars, queues, clients, history
<1> QED
  BY <1>1, <1>2, <1>3, <1>4, <1>5, <1>6, <1>7, <1>8, <1>9, <1>10, <1>11, <1>12, <1>13, <1>14,
     <1>15, <1>16, <1>17, <1>18, <1>19, <1>20, <1>21, <1>22, <1>23, <1>24, <1>25
     DEF Next, Manager, InCall, Working, Encoder, Threads

-----------------------------------------------------------------------------
(* The callbacks.                                                          *)

\* A job waits as it did when nothing is said of it and its session is there.
LEMMA WaitingKept ==
  ASSUME IInv, NEW j \in Jobs, owner'[j] = owner[j], j \in job_queue' => j \in job_queue,
         j \in job_queue' => session'[owner[j]].active,
         owner[j] = None \/ j \in job_queue' => answers'[j] = answers[j] /\ (j \in stopped' => j \in stopped)
  PROVE  Waiting(j)'
BY DEF IInv, Answers, Waiting, Answerable

\* A job that was started has a session, and that of one that waits is there.
LEMMA QueuedIsThere ==
  ASSUME IInv, NEW j \in Jobs, j \in job_queue
  PROVE  owner[j] \in Sessions /\ session[owner[j]].active /\ Answerable(j)
<1>1. owner[j] # None /\ session[owner[j]].active /\ Answerable(j)
  BY DEF IInv, Answers, Waiting
<1>2. owner[j] \in Sessions \cup {None}
  BY DEF IInv, Types, OtherTypes
<1> QED
  BY <1>1, <1>2

\* A step that keeps the sessions and says nothing keeps all jobs that wait.
LEMMA AllWaitingKept ==
  ASSUME IInv, UNCHANGED <<owner, answers, stopped>>, \A j \in Jobs : j \in job_queue' => j \in job_queue,
         \A r \in Sessions : session[r].active => session'[r].active
  PROVE  \A j \in Jobs : Waiting(j)'
BY WaitingKept, QueuedIsThere

\* A callback for a job that was started and does not wait keeps all that wait.
LEMMA WaitingUnsaid ==
  ASSUME IInv, NEW k \in Jobs, owner[k] # None, k \notin job_queue,
         answers' = [answers EXCEPT ![k] = @ + 1], UNCHANGED <<owner, stopped, job_queue>>,
         \A r \in Sessions : session[r].active => session'[r].active
  PROVE  \A j \in Jobs : Waiting(j)'
<1>1. \A j \in Jobs \ {k} : answers'[j] = answers[j]
  BY DEF IInv, Types, OtherTypes
<1> QED
  BY <1>1, WaitingKept, QueuedIsThere

AllWaiting == \A j \in Jobs : Waiting(j)

\* The end of an abort says nothing of a job that waits.
LEMMA EndsAbortSays ==
  ASSUME IInv, EndsAbort, Api.pc \in Aborting
  PROVE  /\ \A j \in stopped' : j \in stopped \/ (j = Api.job /\ j \in Jobs)
         /\ \A r \in Sessions : session'[r].active = session[r].active
         /\ Api.job # 0 => owner[Api.job] = Api.session /\ Api.session \in Sessions
         /\ Api.job # 0 => Api.job \notin job_queue
<1>1. \A j \in stopped' : j \in stopped \/ (j = Api.job /\ j \in Jobs)
  BY DEF EndsAbort
<1>2. \A r \in Sessions : session'[r].active = session[r].active
  BY DEF EndsAbort, SetsAbort
<1>3. Api.job # 0 => owner[Api.job] = Api.session /\ Api.session \in Sessions
  BY DEF IInv, Calls, InCalls, WithLockApi
<1>4. Api.job # 0 => Api.job \notin job_queue
  BY DEF IInv, Answers
<1> QED
  BY <1>1, <1>2, <1>3, <1>4

\* Every step says nothing of a job that waits.
LEMMA WaitingStep ==
  ASSUME IInv, [Next]_vars
  PROVE  AllWaiting'
<1>1. ASSUME NEW th \in Threads, SendCommand(th) \/ CheckCommand(th) \/ EndCommand(th)
      PROVE  AllWaiting'
  BY <1>1, CommandKeeps, AllWaitingKept DEF AllWaiting
<1>2. ASSUME NEW th \in Threads, ConfigMain(th)
      PROVE  AllWaiting'
  <2>1. UNCHANGED <<session, owner, answers, stopped, job_queue>>
    BY <1>2, ConfigMainDoes
  <2> QED
    BY <2>1, AllWaitingKept DEF AllWaiting
<1>3. ASSUME NEW th \in Threads, Configured(th)
      PROVE  AllWaiting'
  <2>1. UNCHANGED <<owner, answers, stopped, job_queue>>
    BY <1>3, ConfiguredDoes
  <2>2. \A r \in Sessions : session'[r].active = session[r].active
    BY <1>3, ConfiguredDoes DEF SetsConfig
  <2> QED
    BY <2>1, <2>2, AllWaitingKept DEF AllWaiting
<1>4. CASE TakePost \/ ReadOngoing
  <2>1. UNCHANGED <<session, owner, answers, stopped, job_queue>>
    BY <1>4, WakingDoes
  <2> QED
    BY <2>1, AllWaitingKept DEF AllWaiting
<1>5. CASE TakeJob
  <2>1. UNCHANGED <<owner, answers, stopped>> /\ job_queue' \subseteq job_queue
    BY <1>5, TakeJobDoes DEF BeginsJob
  <2>2. \A r \in Sessions : session'[r].active = session[r].active
    BY <1>5, TakeJobDoes DEF BeginsJob, SetsBegun
  <2> QED
    BY <2>1, <2>2, AllWaitingKept DEF AllWaiting
<1>6. CASE ForgetOther
  <2>1. UNCHANGED <<owner, answers, stopped, job_queue>>
    BY <1>6, ForgetOtherDoes
  <2>2. \A r \in Sessions : session'[r].active = session[r].active
    BY <1>6, ForgetOtherDoes DEF SetsConfig
  <2> QED
    BY <2>1, <2>2, AllWaitingKept DEF AllWaiting
<1>7. CASE JobParams
  <2>1. UNCHANGED <<owner, answers, stopped, job_queue>>
    BY <1>7, JobParamsDoes
  <2>2. \A r \in Sessions : session'[r].active = session[r].active
    BY <1>7, JobParamsDoes DEF SetsEncoding
  <2> QED
    BY <2>1, <2>2, AllWaitingKept DEF AllWaiting
<1>8. CASE Feed
  <2>1. UNCHANGED <<session, owner, answers, stopped, job_queue>>
    BY <1>8, FeedDoes
  <2> QED
    BY <2>1, AllWaitingKept DEF AllWaiting
<1>9. CASE JobFailed
  <2>1. PICK s \in Sessions : s = Mgr.session
    BY <1>9, JobFailedDoes
  <2>2. /\ session[s].current = Mgr.job /\ Mgr.job \in Jobs /\ owner[Mgr.job] # None
        /\ Mgr.job \notin job_queue
    BY <1>9, <2>1, JobFailedDoes DEF IInv, Calls, AtWork, Answers, WithLockMgr, None, Sessions
  <2>3. answers' = [answers EXCEPT ![Mgr.job] = @ + 1] /\ UNCHANGED <<owner, stopped, job_queue>>
    BY <1>9, <2>1, <2>2, JobFailedDoes DEF SaysEnd
  <2>4. \A r \in Sessions : session'[r].active = session[r].active
    BY <1>9, JobFailedDoes DEF SetsReturned
  <2> QED
    BY <2>2, <2>3, <2>4, WaitingUnsaid DEF AllWaiting
<1>10. CASE ConfigureNew
  <2>1. UNCHANGED <<session, owner, answers, stopped, job_queue>>
    BY <1>10, ConfigureNewDoes
  <2> QED
    BY <2>1, AllWaitingKept DEF AllWaiting
<1>11. CASE CreateFailed
  <2>1. UNCHANGED <<session, owner, answers, stopped, job_queue>>
    BY <1>11, CreateFailedDoes
  <2> QED
    BY <2>1, AllWaitingKept DEF AllWaiting
<1>12. CASE FindJob
  <2>1. /\ UNCHANGED <<session, owner, answers>> /\ job_queue' = job_queue \ {Api.job}
        /\ \A j \in stopped' : j \in stopped \/ j = Api.job
    BY <1>12, FindJobDoes
  <2>2. owner[Api.job] # None
    BY <1>12, FindJobDoes DEF IInv, Calls, InCalls, None, Sessions
  <2> QED
    BY <2>1, <2>2, WaitingKept, QueuedIsThere DEF AllWaiting
<1>13. CASE DropJobs
  <2>1. UNCHANGED <<session, owner, answers, stopped>> /\ job_queue' \subseteq job_queue
    BY <1>13, DropJobsDoes DEF WithoutSession
  <2> QED
    BY <2>1, AllWaitingKept DEF AllWaiting
<1>14. CASE BeginAbort
  <2>1. CASE SetsAborting(Api.session, "INIT", TRUE) /\ UNCHANGED stopped
    <3>1. UNCHANGED <<owner, answers, job_queue>>
      BY <1>14, BeginAbortDoes
    <3>2. \A r \in Sessions : session'[r].active = session[r].active
      BY <2>1 DEF SetsAborting
    <3> QED
      BY <2>1, <3>1, <3>2, AllWaitingKept DEF AllWaiting
  <2>2. CASE EndsAbort
    <3>1. Api.pc \in Aborting /\ UNCHANGED <<owner, answers, job_queue>>
      BY <1>14, BeginAbortDoes DEF Aborting
    <3>2. \A j \in Jobs : j \in stopped' => j \in stopped \/ (owner[j] # None /\ j \notin job_queue)
      BY <2>2, <3>1, EndsAbortSays DEF None, Sessions, Jobs
    <3>3. \A r \in Sessions : session'[r].active = session[r].active
      BY <2>2, <3>1, EndsAbortSays
    <3> QED
      BY <3>1, <3>2, <3>3, WaitingKept, QueuedIsThere DEF AllWaiting
  <2> QED
    BY <1>14, <2>1, <2>2, BeginAbortDoes
<1>15. CASE SendAbort
  <2>1. UNCHANGED <<session, owner, answers, stopped, job_queue>>
    BY <1>15, SendAbortDoes
  <2> QED
    BY <2>1, AllWaitingKept DEF AllWaiting
<1>16. CASE EndAbort
  <2>1. CASE EndsAbort
    <3>1. Api.pc \in Aborting /\ UNCHANGED <<owner, answers, job_queue>>
      BY <1>16, EndAbortDoes DEF Aborting
    <3>2. \A j \in Jobs : j \in stopped' => j \in stopped \/ (owner[j] # None /\ j \notin job_queue)
      BY <2>1, <3>1, EndsAbortSays DEF None, Sessions, Jobs
    <3>3. \A r \in Sessions : session'[r].active = session[r].active
      BY <2>1, <3>1, EndsAbortSays
    <3> QED
      BY <3>1, <3>2, <3>3, WaitingKept, QueuedIsThere DEF AllWaiting
  <2> QED
    BY <1>16, <2>1, EndAbortDoes
<1>17. CASE FreeSession
  <2>1. PICK s \in Sessions : s = Api.session /\ Only(s)
    BY <1>17, OnlyOne DEF Only
  <2>2. UNCHANGED <<owner, answers, job_queue>> /\ stopped' = stopped \cup {j \in Jobs : owner[j] = s}
    BY <1>17, <2>1, FreeSessionDoes
  <2>3. \A j \in job_queue \cap Jobs : owner[j] # s
    BY <1>17, <2>1, FreeSessionDoes DEF IInv, Answers, Calls, InCalls, Freeing
  <2>4. \A j \in Jobs : j \in job_queue => session'[owner[j]].active
    BY <2>1, <2>3, QueuedIsThere DEF Only
  <2>5. \A j \in Jobs : (owner[j] = None \/ j \in job_queue) /\ j \in stopped' => j \in stopped
    BY <2>2, <2>3 DEF None, Sessions
  <2> QED
    BY <2>2, <2>4, <2>5, WaitingKept DEF AllWaiting
<1>18. CASE Join
  <2>1. UNCHANGED <<session, owner, answers, stopped, job_queue>>
    BY <1>18, JoinDoes
  <2> QED
    BY <2>1, AllWaitingKept DEF AllWaiting
<1>19. ASSUME NEW s \in Sessions, EncoderDone(s)
      PROVE  AllWaiting'
  <2>1. /\ UNCHANGED <<owner, stopped, job_queue>>
        /\ \A r \in Sessions : session'[r].active = session[r].active
    BY <1>19, EncoderKeeps
  <2>2. CASE UNCHANGED answers
    BY <2>1, <2>2, AllWaitingKept DEF AllWaiting
  <2>3. CASE SaysEnd(s)
    <3>1. /\ omx[s].job # 0 /\ session[s].current = omx[s].job /\ omx[s].job \in Jobs
          /\ owner[omx[s].job] # None
      <4>1. omx[s].job # 0
        BY <1>19, EncoderDoneDoes
      <4> QED
        BY <4>1, RunningAlone DEF None, Sessions
    <3>2. omx[s].job \notin job_queue
      BY <3>1 DEF IInv, Answers, Encoded
    <3>3. answers' = [answers EXCEPT ![omx[s].job] = @ + 1]
      BY <2>3, <3>1 DEF SaysEnd
    <3> QED
      BY <2>1, <3>1, <3>2, <3>3, WaitingUnsaid DEF AllWaiting
  <2> QED
    BY <1>19, <2>2, <2>3, EncoderDoneDoes
<1>20. ASSUME NEW s \in Sessions, EncoderError(s)
      PROVE  AllWaiting'
  <2>1. /\ UNCHANGED <<owner, stopped, job_queue>>
        /\ \A r \in Sessions : session'[r].active = session[r].active
    BY <1>20, EncoderKeeps
  <2>2. CASE UNCHANGED answers
    BY <2>1, <2>2, AllWaitingKept DEF AllWaiting
  <2>3. CASE SaysEnd(s)
    <3>1. /\ omx[s].job # 0 /\ session[s].current = omx[s].job /\ omx[s].job \in Jobs
          /\ owner[omx[s].job] # None
      <4>1. omx[s].job # 0
        BY <1>20, EncoderErrorDoes
      <4> QED
        BY <4>1, RunningAlone DEF None, Sessions
    <3>2. omx[s].job \notin job_queue
      BY <3>1 DEF IInv, Answers, Encoded
    <3>3. answers' = [answers EXCEPT ![omx[s].job] = @ + 1]
      BY <2>3, <3>1 DEF SaysEnd
    <3> QED
      BY <2>1, <3>1, <3>2, <3>3, WaitingUnsaid DEF AllWaiting
  <2> QED
    BY <1>20, <2>2, <2>3, EncoderErrorDoes
<1>21. ASSUME NEW s \in Sessions, EncoderChanges(s)
      PROVE  AllWaiting'
  <2>1. UNCHANGED <<owner, answers, stopped, job_queue>>
    BY <1>21, EncoderChangesDoes
  <2>2. \A r \in Sessions : session'[r].active = session[r].active
    BY <1>21, EncoderChangesDoes DEF SetsAbort, SetsPending
  <2> QED
    BY <2>1, <2>2, AllWaitingKept DEF AllWaiting
<1>22. ASSUME NEW s \in Sessions, FinishJob(s)
      PROVE  AllWaiting'
  <2>1. UNCHANGED <<owner, answers, stopped, job_queue>>
    BY <1>22, FinishJobDoes
  <2>2. \A r \in Sessions : session'[r].active = session[r].active
    BY <1>22, FinishJobDoes DEF SetsReturned
  <2> QED
    BY <2>1, <2>2, AllWaitingKept DEF AllWaiting
<1>23. ASSUME NEW s \in Sessions, CreateSession(s)
      PROVE  AllWaiting'
  <2>1. UNCHANGED <<owner, answers, stopped, job_queue>>
    BY <1>23, CreateSessionDoes
  <2>2. \A r \in Sessions : session[r].active => session'[r].active
    BY <1>23, CreateSessionDoes, NewSession DEF SetsSession
  <2> QED
    BY <2>1, <2>2, AllWaitingKept DEF AllWaiting
<1>24. ASSUME NEW s \in Sessions, StopSession(s)
      PROVE  AllWaiting'
  <2>1. UNCHANGED <<session, owner, answers, stopped, job_queue>>
    BY <1>24, StopSessionDoes
  <2> QED
    BY <2>1, AllWaitingKept DEF AllWaiting
<1>25. ASSUME NEW s \in Sessions, DestroySession(s)
      PROVE  AllWaiting'
  <2>1. UNCHANGED <<session, owner, answers, stopped, job_queue>>
    BY <1>25, DestroySessionDoes
  <2> QED
    BY <2>1, AllWaitingKept DEF AllWaiting
<1>26. ASSUME NEW s \in Sessions, NEW j \in Jobs, StartJob(s, j)
      PROVE  AllWaiting'
  <2>1. /\ session[s].active /\ owner[j] = None /\ owner'[j] = s /\ job_queue' = job_queue \cup {j}
        /\ \A i \in Jobs \ {j} : owner'[i] = owner[i]
        /\ UNCHANGED <<session, answers, stopped>>
    BY <1>26, StartJobDoes DEF IInv, Types, OtherTypes
  <2>2. \A i \in Jobs \ {j} : Waiting(i)'
    BY <2>1, WaitingKept, QueuedIsThere
  <2>3. Waiting(j)'
    <3>1. Answerable(j)
      BY <2>1 DEF IInv, Answers, Waiting
    <3> QED
      BY <2>1, <3>1 DEF Waiting, Answerable, None, Sessions
  <2> QED
    BY <2>2, <2>3 DEF AllWaiting
<1>27. ASSUME NEW j \in Jobs, AbortJob(j)
      PROVE  AllWaiting'
  <2>1. UNCHANGED <<session, owner, answers, stopped, job_queue>>
    BY <1>27, AbortJobDoes
  <2> QED
    BY <2>1, AllWaitingKept DEF AllWaiting
<1>28. CASE Release
  <2>1. UNCHANGED <<session, owner, answers, stopped>> /\ \A j \in Jobs : j \in job_queue' => j \in job_queue
    BY <1>28, ReleaseDoes, ConstantsAssumption DEF Jobs, Exit
  <2> QED
    BY <2>1, AllWaitingKept DEF AllWaiting
<1>29. CASE UNCHANGED vars
  BY <1>29 DEF IInv, Answers, AllWaiting, Waiting, Answerable, vars, queues, clients, history
<1> QED
  BY <1>1, <1>2, <1>3, <1>4, <1>5, <1>6, <1>7, <1>8, <1>9, <1>10, <1>11, <1>12, <1>13, <1>14,
     <1>15, <1>16, <1>17, <1>18, <1>19, <1>20, <1>21, <1>22, <1>23, <1>24, <1>25, <1>26, <1>27,
     <1>28, <1>29
     DEF Next, Manager, InCall, Working, Encoder, Threads

ManagerAnswers == Mgr.session # None => Answerable(Mgr.job) /\ Mgr.job \notin job_queue

\* The manager's job may still be answered when nothing is said of it.
LEMMA ManagerAnswersKept ==
  ASSUME IInv,
         Mgr'.session # None =>
           /\ Mgr.session # None /\ Mgr'.job = Mgr.job
           /\ answers'[Mgr.job] = answers[Mgr.job] /\ (Mgr.job \in stopped' => Mgr.job \in stopped)
           /\ Mgr.job \in job_queue' => Mgr.job \in job_queue
  PROVE  ManagerAnswers'
BY DEF IInv, Answers, ManagerAnswers, Answerable

\* A manager that has a job has it from a session.
LEMMA ManagerJob ==
  ASSUME IInv, Mgr.session # None
  PROVE  Mgr.pc \in WithLockMgr /\ Mgr.job \in Jobs /\ owner[Mgr.job] \in Sessions
BY DEF IInv, Calls, AtWork

\* Every step says nothing of the manager's job, but its end.
LEMMA ManagerAnswersStep ==
  ASSUME IInv, [Next]_vars
  PROVE  ManagerAnswers'
<1>1. ASSUME NEW th \in Threads, SendCommand(th) \/ CheckCommand(th) \/ EndCommand(th)
      PROVE  ManagerAnswers'
  <2>1. /\ UNCHANGED <<answers, stopped, job_queue>>
        /\ Mgr'.session = Mgr.session /\ Mgr'.job = Mgr.job
    BY <1>1, CommandKeeps DEF Threads, Mgr
  <2> QED
    BY <2>1, ManagerAnswersKept
<1>2. ASSUME NEW th \in Threads, ConfigMain(th)
      PROVE  ManagerAnswers'
  <2>1. /\ UNCHANGED <<answers, stopped, job_queue>>
        /\ Mgr'.session = Mgr.session /\ Mgr'.job = Mgr.job
    BY <1>2, ConfigMainDoes DEF SetsTask, SetsPc, Threads, Mgr
  <2> QED
    BY <2>1, ManagerAnswersKept
<1>3. ASSUME NEW th \in Threads, Configured(th)
      PROVE  ManagerAnswers'
  <2>1. /\ UNCHANGED <<answers, stopped, job_queue>>
        /\ Mgr'.session = Mgr.session /\ Mgr'.job = Mgr.job
    BY <1>3, ConfiguredDoes DEF SetsTask, SetsPc, Threads, Mgr
  <2> QED
    BY <2>1, ManagerAnswersKept
<1>4. CASE TakePost \/ ReadOngoing
  <2>1. /\ UNCHANGED <<answers, stopped, job_queue>>
        /\ Mgr'.session = Mgr.session /\ Mgr'.job = Mgr.job
    BY <1>4, WakingDoes DEF SetsTask, SetsPc, Threads, Mgr
  <2> QED
    BY <2>1, ManagerAnswersKept
<1>5. CASE TakeJob
  <2>1. UNCHANGED <<answers, stopped>> /\ Mgr.session = None
    BY <1>5, TakeJobDoes, Exclusion DEF WithLockMgr
  <2>2. CASE \E j \in Jobs : BeginsJob(j)
    <3>1. PICK j \in Jobs : BeginsJob(j)
      BY <2>2
    <3>2. Mgr'.job = j /\ j \in job_queue /\ job_queue' = job_queue \ {j}
      BY <3>1 DEF BeginsJob, SetsTask, Mgr
    <3>3. Answerable(j)
      BY <3>2, QueuedIsThere
    <3> QED
      BY <2>1, <3>2, <3>3 DEF ManagerAnswers, Answerable
  <2>3. CASE Mgr'.session = None
    BY <2>3 DEF ManagerAnswers
  <2> QED
    BY <1>5, <2>1, <2>2, <2>3, TakeJobDoes DEF SetsPc, Mgr
<1>6. CASE ForgetOther
  <2>1. /\ UNCHANGED <<answers, stopped, job_queue>>
        /\ Mgr'.session = Mgr.session /\ Mgr'.job = Mgr.job
    BY <1>6, ForgetOtherDoes DEF SetsTask, SetsPc, Threads, Mgr
  <2> QED
    BY <2>1, ManagerAnswersKept
<1>7. CASE JobParams
  <2>1. /\ UNCHANGED <<answers, stopped, job_queue>>
        /\ Mgr'.session = Mgr.session /\ Mgr'.job = Mgr.job
    BY <1>7, JobParamsDoes DEF SetsTask, SetsPc, Threads, Mgr
  <2> QED
    BY <2>1, ManagerAnswersKept
<1>8. CASE Feed
  <2>1. /\ UNCHANGED <<answers, stopped, job_queue>>
        /\ Mgr'.session # None => Mgr'.session = Mgr.session /\ Mgr'.job = Mgr.job
    BY <1>8, FeedDoes DEF SetsTask, SetsPc, Threads, Mgr
  <2> QED
    BY <2>1, ManagerAnswersKept
<1>9. CASE JobFailed
  <2>1. Mgr'.session = None
    BY <1>9, JobFailedDoes DEF SetsTask, Mgr
  <2> QED
    BY <2>1 DEF ManagerAnswers
<1>10. CASE ConfigureNew
  <2>1. /\ UNCHANGED <<answers, stopped, job_queue>>
        /\ Mgr'.session = Mgr.session /\ Mgr'.job = Mgr.job
    BY <1>10, ConfigureNewDoes DEF SetsTask, SetsPc, Threads, Mgr
  <2> QED
    BY <2>1, ManagerAnswersKept
<1>11. CASE CreateFailed
  <2>1. /\ UNCHANGED <<answers, stopped, job_queue>>
        /\ Mgr'.session = Mgr.session /\ Mgr'.job = Mgr.job
    BY <1>11, CreateFailedDoes DEF SetsTask, SetsPc, Threads, Mgr
  <2> QED
    BY <2>1, ManagerAnswersKept
<1>12. CASE FindJob \/ DropJobs \/ BeginAbort \/ SendAbort \/ EndAbort \/ FreeSession
  <2>1. job_lock = "free" \/ Api.pc \in WithLockApi
    BY <1>12, FindJobDoes, DropJobsDoes, BeginAbortDoes, SendAbortDoes, EndAbortDoes, FreeSessionDoes
       DEF WithLockApi, Aborting, Freeing
  <2>2. Mgr' = Mgr
    <3>1. CASE FindJob \/ DropJobs
      BY <3>1, FindJobDoes, DropJobsDoes DEF SetsPc, SetsTask, Threads, Mgr
    <3>2. CASE BeginAbort \/ SendAbort \/ EndAbort \/ FreeSession
      BY <3>2, BeginAbortDoes, SendAbortDoes, EndAbortDoes, FreeSessionDoes
         DEF SetsPc, SetsTask, EndsAbort, Threads, Mgr
    <3> QED
      BY <1>12, <3>1, <3>2
  <2> QED
    BY <2>1, <2>2, Exclusion DEF ManagerAnswers
<1>13. CASE Join
  <2>1. /\ UNCHANGED <<answers, stopped, job_queue>>
        /\ Mgr'.session = Mgr.session /\ Mgr'.job = Mgr.job
    BY <1>13, JoinDoes DEF SetsTask, SetsPc, Threads, Mgr
  <2> QED
    BY <2>1, ManagerAnswersKept
<1>14. ASSUME NEW s \in Sessions, EncoderDone(s)
      PROVE  ManagerAnswers'
  <2>1. UNCHANGED <<stopped, task, job_queue>> /\ omx[s].job # 0 /\ (UNCHANGED answers \/ SaysEnd(s))
    BY <1>14, EncoderDoneDoes
  <2>2. session[s].current = omx[s].job /\ (Mgr.pc \in WithLockMgr => Mgr.job # omx[s].job)
    BY <2>1, RunningAlone
  <2>3. Mgr.session # None => answers'[Mgr.job] = answers[Mgr.job]
    BY <2>1, <2>2, ManagerJob DEF SaysEnd, IInv, Types, OtherTypes
  <2> QED
    BY <2>1, <2>3, ManagerAnswersKept DEF Mgr
<1>15. ASSUME NEW s \in Sessions, EncoderError(s)
      PROVE  ManagerAnswers'
  <2>1. UNCHANGED <<stopped, task, job_queue>> /\ omx[s].job # 0 /\ (UNCHANGED answers \/ SaysEnd(s))
    BY <1>15, EncoderErrorDoes
  <2>2. session[s].current = omx[s].job /\ (Mgr.pc \in WithLockMgr => Mgr.job # omx[s].job)
    BY <2>1, RunningAlone
  <2>3. Mgr.session # None => answers'[Mgr.job] = answers[Mgr.job]
    BY <2>1, <2>2, ManagerJob DEF SaysEnd, IInv, Types, OtherTypes
  <2> QED
    BY <2>1, <2>3, ManagerAnswersKept DEF Mgr
<1>16. ASSUME NEW s \in Sessions, EncoderChanges(s)
      PROVE  ManagerAnswers'
  <2>1. /\ UNCHANGED <<answers, stopped, job_queue>>
        /\ Mgr'.session = Mgr.session /\ Mgr'.job = Mgr.job
    BY <1>16, EncoderChangesDoes DEF SetsTask, SetsPc, Threads, Mgr
  <2> QED
    BY <2>1, ManagerAnswersKept
<1>17. ASSUME NEW s \in Sessions, FinishJob(s)
      PROVE  ManagerAnswers'
  <2>1. /\ UNCHANGED <<answers, stopped, job_queue>>
        /\ Mgr'.session = Mgr.session /\ Mgr'.job = Mgr.job
    BY <1>17, FinishJobDoes DEF SetsTask, SetsPc, Threads, Mgr
  <2> QED
    BY <2>1, ManagerAnswersKept
<1>18. ASSUME NEW s \in Sessions, CreateSession(s)
      PROVE  ManagerAnswers'
  <2>1. /\ UNCHANGED <<answers, stopped, job_queue>>
        /\ Mgr'.session = Mgr.session /\ Mgr'.job = Mgr.job
    BY <1>18, CreateSessionDoes DEF SetsTask, SetsPc, Threads, Mgr
  <2> QED
    BY <2>1, ManagerAnswersKept
<1>19. ASSUME NEW s \in Sessions, StopSession(s)
      PROVE  ManagerAnswers'
  <2>1. /\ UNCHANGED <<answers, stopped, job_queue>>
        /\ Mgr'.session = Mgr.session /\ Mgr'.job = Mgr.job
    BY <1>19, StopSessionDoes DEF SetsTask, SetsPc, Threads, Mgr
  <2> QED
    BY <2>1, ManagerAnswersKept
<1>20. ASSUME NEW s \in Sessions, DestroySession(s)
      PROVE  ManagerAnswers'
  <2>1. /\ UNCHANGED <<answers, stopped, job_queue>>
        /\ Mgr'.session = Mgr.session /\ Mgr'.job = Mgr.job
    BY <1>20, DestroySessionDoes DEF SetsTask, SetsPc, Threads, Mgr
  <2> QED
    BY <2>1, ManagerAnswersKept
<1>21. ASSUME NEW s \in Sessions, NEW j \in Jobs, StartJob(s, j)
      PROVE  ManagerAnswers'
  <2>1. UNCHANGED <<answers, stopped, task>> /\ job_queue' = job_queue \cup {j} /\ owner[j] = None
    BY <1>21, StartJobDoes
  <2>2. Mgr.session # None => Mgr.job # j
    BY <2>1, ManagerJob DEF None, Sessions
  <2> QED
    BY <2>1, <2>2, ManagerAnswersKept DEF Mgr
<1>22. ASSUME NEW j \in Jobs, AbortJob(j)
      PROVE  ManagerAnswers'
  <2>1. /\ UNCHANGED <<answers, stopped, job_queue>>
        /\ Mgr'.session = Mgr.session /\ Mgr'.job = Mgr.job
    BY <1>22, AbortJobDoes DEF SetsTask, SetsPc, Threads, Mgr
  <2> QED
    BY <2>1, ManagerAnswersKept
<1>23. CASE Release
  <2>1. UNCHANGED <<answers, stopped>> /\ Mgr' = Mgr /\ job_queue' = job_queue \cup {Exit}
    BY <1>23, ReleaseDoes DEF SetsTask, Threads, Mgr
  <2>2. Mgr.session # None => Mgr.job # Exit
    BY ManagerJob, ConstantsAssumption DEF Jobs, Exit
  <2> QED
    BY <2>1, <2>2, ManagerAnswersKept
<1>24. CASE UNCHANGED vars
  BY <1>24 DEF IInv, Answers, ManagerAnswers, Answerable, Mgr, vars, queues, clients, history
<1> QED
  BY <1>1, <1>2, <1>3, <1>4, <1>5, <1>6, <1>7, <1>8, <1>9, <1>10, <1>11, <1>12, <1>13, <1>14,
     <1>15, <1>16, <1>17, <1>18, <1>19, <1>20, <1>21, <1>22, <1>23, <1>24
     DEF Next, Manager, InCall, Working, Encoder, Threads

\* A job at an encoder may be answered as before when nothing is said of it.
LEMMA EncodedKept ==
  ASSUME IInv, NEW r \in Sessions, omx'[r].job = omx[r].job,
         session'[r].abort = "NONE" => session[r].abort = "NONE",
         omx[r].job # 0 =>
           /\ answers'[omx[r].job] = answers[omx[r].job]
           /\ omx[r].job \in stopped' => omx[r].job \in stopped
           /\ omx[r].job \in job_queue' => omx[r].job \in job_queue
  PROVE  Encoded(r)'
BY DEF IInv, Answers, Encoded, Answerable

AllEncoded == \A s \in Sessions : Encoded(s)

\* Every step says nothing of a job at an encoder, but its end.
LEMMA EncodedStep ==
  ASSUME IInv, [Next]_vars
  PROVE  AllEncoded'
<1>1. ASSUME NEW th \in Threads, SendCommand(th) \/ CheckCommand(th) \/ EndCommand(th)
      PROVE  AllEncoded'
  <2>1. /\ UNCHANGED <<answers, stopped, job_queue>>
        /\ \A r \in Sessions : session'[r].abort = session[r].abort
    BY <1>1, CommandKeeps
  <2>2. \A r \in Sessions : omx'[r].job = omx[r].job
    <3>1. CASE th = "mgr" /\ OtherMoves
      BY <3>1 DEF OtherMoves, Moves
    <3>2. CASE SetMoves(th)
      BY <3>2 DEF SetMoves, Moves
    <3>3. CASE th = "api" /\ SelfMoves
      BY <3>3 DEF SelfMoves, Moves
    <3> QED
      BY <1>1, <3>1, <3>2, <3>3, Commands
  <2> QED
    BY <2>1, <2>2, EncodedKept DEF AllEncoded
<1>2. ASSUME NEW th \in Threads, ConfigMain(th)
      PROVE  AllEncoded'
  <2>1. UNCHANGED <<session, omx, answers, stopped, job_queue>>
    BY <1>2, ConfigMainDoes
  <2> QED
    BY <2>1, EncodedKept DEF AllEncoded
<1>3. ASSUME NEW th \in Threads, Configured(th)
      PROVE  AllEncoded'
  <2>1. UNCHANGED <<answers, stopped, job_queue>>
    BY <1>3, ConfiguredDoes
  <2>2. \A r \in Sessions : /\ omx'[r].job = omx[r].job
                            /\ session'[r].abort = "NONE" => session[r].abort = "NONE"
    BY <1>3, ConfiguredDoes DEF SetsConfig
  <2> QED
    BY <2>1, <2>2, EncodedKept DEF AllEncoded
<1>4. CASE TakePost \/ ReadOngoing
  <2>1. UNCHANGED <<session, omx, answers, stopped, job_queue>>
    BY <1>4, WakingDoes
  <2> QED
    BY <2>1, EncodedKept DEF AllEncoded
<1>5. CASE TakeJob
  <2>1. UNCHANGED <<omx, answers, stopped>> /\ job_queue' \subseteq job_queue
    BY <1>5, TakeJobDoes DEF BeginsJob
  <2>2. CASE UNCHANGED session
    BY <2>1, <2>2, EncodedKept DEF AllEncoded
  <2>3. CASE \E j \in Jobs : BeginsJob(j)
    <3>1. PICK j \in Jobs : BeginsJob(j)
      BY <2>3
    <3>2. PICK s \in Sessions : s = owner[j] /\ Only(s)
      BY <1>5, <3>1, OnlyOne DEF Only
    <3>3. omx[s].job = 0
      BY <3>1, <3>2 DEF BeginsJob, IInv, Handles, HandlesAt
    <3>4. \A r \in Sessions \ {s} : Encoded(r)'
      BY <2>1, <3>2, EncodedKept DEF Only
    <3> QED
      BY <2>1, <3>3, <3>4 DEF AllEncoded, Encoded
  <2> QED
    BY <1>5, <2>2, <2>3, TakeJobDoes
<1>6. CASE ForgetOther
  <2>1. UNCHANGED <<answers, stopped, job_queue>>
    BY <1>6, ForgetOtherDoes
  <2>2. \A r \in Sessions : /\ omx'[r].job = omx[r].job
                            /\ session'[r].abort = "NONE" => session[r].abort = "NONE"
    BY <1>6, ForgetOtherDoes DEF SetsConfig
  <2> QED
    BY <2>1, <2>2, EncodedKept DEF AllEncoded
<1>7. CASE JobParams
  <2>1. UNCHANGED <<answers, stopped, job_queue>>
    BY <1>7, JobParamsDoes
  <2>2. \A r \in Sessions : /\ omx'[r].job = omx[r].job
                            /\ session'[r].abort = "NONE" => session[r].abort = "NONE"
    BY <1>7, JobParamsDoes DEF SetsEncoding
  <2> QED
    BY <2>1, <2>2, EncodedKept DEF AllEncoded
<1>8. CASE Feed
  <2>1. PICK s \in Sessions : s = Mgr.session /\ Only(s)
    BY <1>8, OnlyOne DEF Only
  <2>2. UNCHANGED <<session, answers, stopped, job_queue>>
    BY <1>8, FeedDoes
  <2>3. \A r \in Sessions \ {s} : Encoded(r)'
    BY <2>1, <2>2, EncodedKept DEF Only
  <2>4. CASE SetsJob(s, Mgr.job)
    <3>1. Answerable(Mgr.job) /\ Mgr.job \notin job_queue
      BY <2>1 DEF IInv, Answers, None, Sessions
    <3>2. Encoded(s)'
      BY <2>2, <2>4, <3>1 DEF Encoded, Answerable, SetsJob
    <3> QED
      BY <2>3, <3>2 DEF AllEncoded
  <2>5. CASE UNCHANGED omx
    BY <2>2, <2>5, EncodedKept DEF AllEncoded
  <2> QED
    BY <1>8, <2>1, <2>4, <2>5, FeedDoes
<1>9. CASE JobFailed
  <2>1. Mgr.pc \in WithLockMgr /\ Mgr.session \in Sessions /\ UNCHANGED <<omx, stopped, job_queue>>
        /\ SaysEnd(Mgr.session)
    BY <1>9, JobFailedDoes DEF WithLockMgr
  <2>2. session[Mgr.session].current = Mgr.job
    BY <2>1 DEF IInv, Calls, AtWork
  <2>3. \A r \in Sessions : session'[r].abort = session[r].abort
    BY <1>9, JobFailedDoes DEF SetsReturned
  <2>4. \A r \in Sessions : omx[r].job # 0 => answers'[omx[r].job] = answers[omx[r].job]
    BY <2>1, <2>2, RunningAlone DEF SaysEnd, IInv, Types, OtherTypes
  <2> QED
    BY <2>1, <2>3, <2>4, EncodedKept DEF AllEncoded
<1>10. CASE ConfigureNew
  <2>1. UNCHANGED <<session, omx, answers, stopped, job_queue>>
    BY <1>10, ConfigureNewDoes
  <2> QED
    BY <2>1, EncodedKept DEF AllEncoded
<1>11. CASE CreateFailed
  <2>1. UNCHANGED <<session, omx, answers, stopped, job_queue>>
    BY <1>11, CreateFailedDoes
  <2> QED
    BY <2>1, EncodedKept DEF AllEncoded
<1>12. CASE FindJob
  <2>1. /\ UNCHANGED <<session, omx, answers>> /\ job_queue' = job_queue \ {Api.job} /\ Api.pc = "abortJob"
        /\ \/ UNCHANGED stopped
           \/ /\ stopped' = stopped \cup {Api.job}
              /\ Api.job \in job_queue \/ Api.job \notin ongoing_job_q
    BY <1>12, FindJobDoes
  <2>2. \A r \in Sessions : omx[r].job # 0 => omx[r].job \in ongoing_job_q /\ omx[r].job \notin job_queue
    BY <2>1 DEF IInv, Running, RunningAt, Answers, Encoded, Aborting
  <2> QED
    BY <2>1, <2>2, EncodedKept DEF AllEncoded
<1>13. CASE DropJobs
  <2>1. UNCHANGED <<session, omx, answers, stopped>> /\ job_queue' \subseteq job_queue
    BY <1>13, DropJobsDoes DEF WithoutSession
  <2> QED
    BY <2>1, EncodedKept DEF AllEncoded
<1>14. CASE BeginAbort
  <2>1. CASE SetsAborting(Api.session, "INIT", TRUE) /\ UNCHANGED stopped
    <3>1. UNCHANGED <<omx, answers, job_queue>>
      BY <1>14, BeginAbortDoes
    <3>2. \A r \in Sessions : session'[r].abort = "NONE" => session[r].abort = "NONE"
      BY <2>1 DEF SetsAborting
    <3> QED
      BY <2>1, <3>1, <3>2, EncodedKept DEF AllEncoded
  <2>2. CASE ~(session[Api.session].abort = "NONE" /\ session[Api.session].encoding) /\ EndsAbort
    <3>1. PICK s \in Sessions : s = Api.session /\ Only(s)
      BY <1>14, OnlyOne DEF Only
    <3>2. Api.pc \in Aborting /\ UNCHANGED <<omx, answers, job_queue>> /\ omx[s].job = 0
      BY <1>14, <2>2, <3>1, BeginAbortDoes, NoJobAtEnd DEF Aborting
    <3>3. \A r \in Sessions \ {s} : omx[r].job # 0 => (omx[r].job \in stopped' => omx[r].job \in stopped)
      BY <2>2, <3>1, <3>2, EndsAbortSays, RunningAlone
    <3>4. \A r \in Sessions \ {s} : Encoded(r)'
      BY <3>1, <3>2, <3>3, EncodedKept DEF Only
    <3> QED
      BY <3>2, <3>4 DEF AllEncoded, Encoded
  <2> QED
    BY <1>14, <2>1, <2>2, BeginAbortDoes
<1>15. CASE SendAbort
  <2>1. UNCHANGED <<answers, stopped, job_queue>>
    BY <1>15, SendAbortDoes
  <2>2. \A r \in Sessions : /\ omx'[r].job = omx[r].job
                            /\ session'[r].abort = "NONE" => session[r].abort = "NONE"
    BY <1>15, SendAbortDoes DEF SetsCmd
  <2> QED
    BY <2>1, <2>2, EncodedKept DEF AllEncoded
<1>16. CASE EndAbort
  <2>1. CASE EndsAbort
    <3>1. PICK s \in Sessions : s = Api.session /\ Only(s)
      BY <1>16, OnlyOne DEF Only
    <3>2. Api.pc \in Aborting /\ UNCHANGED <<omx, answers, job_queue>> /\ omx[s].job = 0
      BY <1>16, <2>1, <3>1, EndAbortDoes, NoJobAtEnd DEF Aborting
    <3>3. \A r \in Sessions \ {s} : omx[r].job # 0 => (omx[r].job \in stopped' => omx[r].job \in stopped)
      BY <2>1, <3>1, <3>2, EndsAbortSays, RunningAlone
    <3>4. \A r \in Sessions \ {s} : Encoded(r)'
      BY <3>1, <3>2, <3>3, EncodedKept DEF Only
    <3> QED
      BY <3>2, <3>4 DEF AllEncoded, Encoded
  <2> QED
    BY <1>16, <2>1, EndAbortDoes
<1>17. CASE FreeSession
  <2>1. PICK s \in Sessions : s = Api.session /\ Only(s)
    BY <1>17, OnlyOne DEF Only
  <2>2. /\ UNCHANGED <<answers, job_queue>> /\ stopped' = stopped \cup {j \in Jobs : owner[j] = s}
        /\ omx'[s].job = 0
    BY <1>17, <2>1, FreeSessionDoes DEF SetsOmx, NoOmx
  <2>3. \A r \in Sessions \ {s} : omx[r].job # 0 => (omx[r].job \in stopped' => omx[r].job \in stopped)
    BY <2>2, RunningAlone
  <2>4. \A r \in Sessions \ {s} : Encoded(r)'
    BY <2>1, <2>2, <2>3, EncodedKept DEF Only
  <2> QED
    BY <2>2, <2>4 DEF AllEncoded, Encoded
<1>18. CASE Join
  <2>1. UNCHANGED <<session, omx, answers, stopped, job_queue>>
    BY <1>18, JoinDoes
  <2> QED
    BY <2>1, EncodedKept DEF AllEncoded
<1>19. ASSUME NEW s \in Sessions, EncoderDone(s)
      PROVE  AllEncoded'
  <2>1. /\ Only(s) /\ UNCHANGED <<stopped, job_queue>> /\ omx[s].job # 0 /\ omx'[s].job = 0
        /\ UNCHANGED answers \/ SaysEnd(s)
    BY <1>19, OnlyOne, EncoderDoneDoes DEF SetsJob
  <2>2. session[s].current = omx[s].job /\ \A r \in Sessions \ {s} : omx[r].job # omx[s].job
    BY <2>1, RunningAlone
  <2>3. \A r \in Sessions \ {s} : omx[r].job # 0 => answers'[omx[r].job] = answers[omx[r].job]
    BY <2>1, <2>2, RunningAlone DEF SaysEnd, IInv, Types, OtherTypes
  <2>4. \A r \in Sessions \ {s} : Encoded(r)'
    BY <2>1, <2>3, EncodedKept DEF Only
  <2> QED
    BY <2>1, <2>4 DEF AllEncoded, Encoded
<1>20. ASSUME NEW s \in Sessions, EncoderError(s)
      PROVE  AllEncoded'
  <2>1. /\ Only(s) /\ UNCHANGED <<stopped, job_queue>> /\ omx[s].job # 0 /\ omx'[s].job = 0
        /\ UNCHANGED answers \/ SaysEnd(s)
    BY <1>20, OnlyOne, EncoderErrorDoes DEF SetsJob
  <2>2. session[s].current = omx[s].job /\ \A r \in Sessions \ {s} : omx[r].job # omx[s].job
    BY <2>1, RunningAlone
  <2>3. \A r \in Sessions \ {s} : omx[r].job # 0 => answers'[omx[r].job] = answers[omx[r].job]
    BY <2>1, <2>2, RunningAlone DEF SaysEnd, IInv, Types, OtherTypes
  <2>4. \A r \in Sessions \ {s} : Encoded(r)'
    BY <2>1, <2>3, EncodedKept DEF Only
  <2> QED
    BY <2>1, <2>4 DEF AllEncoded, Encoded
<1>21. ASSUME NEW s \in Sessions, EncoderChanges(s)
      PROVE  AllEncoded'
  <2>1. UNCHANGED <<answers, stopped, job_queue>>
    BY <1>21, EncoderChangesDoes
  <2>2. \A r \in Sessions : /\ omx'[r].job = omx[r].job
                            /\ session'[r].abort = "NONE" => session[r].abort = "NONE"
    BY <1>21, EncoderChangesDoes DEF SetsAbort, SetsPending, SetsState
  <2> QED
    BY <2>1, <2>2, EncodedKept DEF AllEncoded
<1>22. ASSUME NEW s \in Sessions, FinishJob(s)
      PROVE  AllEncoded'
  <2>1. UNCHANGED <<answers, stopped, job_queue>>
    BY <1>22, FinishJobDoes
  <2>2. \A r \in Sessions : /\ omx'[r].job = omx[r].job
                            /\ session'[r].abort = "NONE" => session[r].abort = "NONE"
    BY <1>22, FinishJobDoes DEF SetsReturned
  <2> QED
    BY <2>1, <2>2, EncodedKept DEF AllEncoded
<1>23. ASSUME NEW s \in Sessions, CreateSession(s)
      PROVE  AllEncoded'
  <2>1. Only(s) /\ UNCHANGED <<answers, stopped, job_queue>> /\ omx'[s].job = 0
    BY <1>23, OnlyOne, CreateSessionDoes, NewSession DEF SetsOmx
  <2>2. \A r \in Sessions \ {s} : Encoded(r)'
    BY <2>1, EncodedKept DEF Only
  <2> QED
    BY <2>1, <2>2 DEF AllEncoded, Encoded
<1>24. ASSUME NEW s \in Sessions, StopSession(s)
      PROVE  AllEncoded'
  <2>1. UNCHANGED <<session, omx, answers, stopped, job_queue>>
    BY <1>24, StopSessionDoes
  <2> QED
    BY <2>1, EncodedKept DEF AllEncoded
<1>25. ASSUME NEW s \in Sessions, DestroySession(s)
      PROVE  AllEncoded'
  <2>1. UNCHANGED <<session, omx, answers, stopped, job_queue>>
    BY <1>25, DestroySessionDoes
  <2> QED
    BY <2>1, EncodedKept DEF AllEncoded
<1>26. ASSUME NEW s \in Sessions, NEW j \in Jobs, StartJob(s, j)
      PROVE  AllEncoded'
  <2>1. UNCHANGED <<session, omx, answers, stopped>> /\ job_queue' = job_queue \cup {j} /\ owner[j] = None
    BY <1>26, StartJobDoes
  <2>2. \A r \in Sessions : omx[r].job # 0 => omx[r].job # j
    BY <2>1, RunningAlone DEF None, Sessions
  <2> QED
    BY <2>1, <2>2, EncodedKept DEF AllEncoded
<1>27. ASSUME NEW j \in Jobs, AbortJob(j)
      PROVE  AllEncoded'
  <2>1. UNCHANGED <<session, omx, answers, stopped, job_queue>>
    BY <1>27, AbortJobDoes
  <2> QED
    BY <2>1, EncodedKept DEF AllEncoded
<1>28. CASE Release
  <2>1. UNCHANGED <<session, omx, answers, stopped>> /\ job_queue' = job_queue \cup {Exit}
    BY <1>28, ReleaseDoes
  <2>2. \A r \in Sessions : omx[r].job # 0 => omx[r].job # Exit
    BY RunningAlone, ConstantsAssumption DEF Jobs, Exit
  <2> QED
    BY <2>1, <2>2, EncodedKept DEF AllEncoded
<1>29. CASE UNCHANGED vars
  BY <1>29 DEF IInv, Answers, AllEncoded, Encoded, Answerable, vars, queues, clients, history
<1> QED
  BY <1>1, <1>2, <1>3, <1>4, <1>5, <1>6, <1>7, <1>8, <1>9, <1>10, <1>11, <1>12, <1>13, <1>14,
     <1>15, <1>16, <1>17, <1>18, <1>19, <1>20, <1>21, <1>22, <1>23, <1>24, <1>25, <1>26, <1>27,
     <1>28, <1>29
     DEF Next, Manager, InCall, Working, Encoder, Threads

AbortAnswers ==
  /\ Api.pc \in Aborting /\ Api.job # 0 => Api.job \notin job_queue
  /\ Api.pc \in Aborting \cup Freeing /\ Api.job = 0 =>
       \A j \in job_queue \cap Jobs : owner[j] # Api.session

\* A call that aborts a job, or all of a session, keeps them out of the queue.
LEMMA AbortAnswersKept ==
  ASSUME IInv, owner' = owner, \A j \in Jobs : j \in job_queue' => j \in job_queue,
         Api'.pc \in Aborting \cup Freeing =>
           /\ Api.pc \in Aborting \/ (Api.pc \in Freeing /\ Api'.pc \in Freeing)
           /\ Api'.session = Api.session /\ Api'.job = Api.job
  PROVE  AbortAnswers'
<1>1. Api'.job \in Jobs \cup {0} \/ Api'.pc \notin Aborting \cup Freeing
  BY DEF IInv, Types, TaskType, TaskRecord, Threads, Api
<1>2. Api'.pc \in Aborting /\ Api'.job # 0 => Api'.job \notin job_queue'
  BY <1>1 DEF IInv, Answers, Aborting, Freeing
<1>3. Api'.pc \in Aborting \cup Freeing /\ Api'.job = 0 =>
        \A j \in job_queue' \cap Jobs : owner'[j] # Api'.session
  BY DEF IInv, Answers
<1> QED
  BY <1>2, <1>3 DEF AbortAnswers

\* Every step keeps out of the queue what a call aborts.
LEMMA AbortAnswersStep ==
  ASSUME IInv, [Next]_vars
  PROVE  AbortAnswers'
<1>1. ASSUME NEW th \in Threads, SendCommand(th) \/ CheckCommand(th) \/ EndCommand(th)
      PROVE  AbortAnswers'
  <2>1. UNCHANGED <<owner, job_queue>>
    BY <1>1, CommandKeeps
  <2>2. CASE th = "mgr"
    BY <1>1, <2>1, <2>2, CommandKeeps, AbortAnswersKept DEF Threads, Api
  <2>3. CASE th = "api" /\ SetMoves(th)
    <3>1. Api'.pc \in {"toIdle", "toExec", "configured", "failed"}
      BY <2>3 DEF SetMoves, Moves, Api
    <3> QED
      BY <3>1 DEF AbortAnswers, Aborting, Freeing
  <2>4. CASE th = "api" /\ SelfMoves
    <3>1. /\ Api.pc \in Freeing /\ Api'.pc \in Freeing
          /\ Api'.session = Api.session /\ Api'.job = Api.job
      BY <2>4 DEF SelfMoves, Moves, Api, Freeing
    <3> QED
      BY <2>1, <3>1, AbortAnswersKept
  <2> QED
    BY <1>1, <2>2, <2>3, <2>4, Commands DEF Threads
<1>2. ASSUME NEW th \in Threads, ConfigMain(th)
      PROVE  AbortAnswers'
  <2>1. UNCHANGED <<owner, job_queue>> /\ (Api' = Api \/ Api'.pc \in {"toIdle", "failed", "idle"})
    BY <1>2, ConfigMainDoes DEF SetsTask, SetsPc, Threads, Api
  <2> QED
    BY <2>1, AbortAnswersKept DEF Aborting, Freeing
<1>3. ASSUME NEW th \in Threads, Configured(th)
      PROVE  AbortAnswers'
  <2>1. UNCHANGED <<owner, job_queue>> /\ (Api' = Api \/ Api'.pc \in {"toIdle", "failed", "idle"})
    BY <1>3, ConfiguredDoes DEF SetsTask, SetsPc, Threads, Api
  <2> QED
    BY <2>1, AbortAnswersKept DEF Aborting, Freeing
<1>4. CASE TakePost \/ ReadOngoing
  <2>1. UNCHANGED <<owner, job_queue>> /\ Api' = Api
    BY <1>4, WakingDoes DEF SetsTask, SetsPc, Threads, Api
  <2> QED
    BY <2>1, AbortAnswersKept
<1>5. CASE TakeJob
  <2>1. UNCHANGED owner /\ job_queue' \subseteq job_queue /\ Api' = Api
    BY <1>5, TakeJobDoes DEF BeginsJob, SetsTask, SetsPc, Threads, Api
  <2> QED
    BY <2>1, AbortAnswersKept
<1>6. CASE ForgetOther
  <2>1. UNCHANGED <<owner, job_queue>> /\ Api' = Api
    BY <1>6, ForgetOtherDoes DEF SetsTask, SetsPc, Threads, Api
  <2> QED
    BY <2>1, AbortAnswersKept
<1>7. CASE JobParams
  <2>1. UNCHANGED <<owner, job_queue>> /\ Api' = Api
    BY <1>7, JobParamsDoes DEF SetsTask, SetsPc, Threads, Api
  <2> QED
    BY <2>1, AbortAnswersKept
<1>8. CASE Feed
  <2>1. UNCHANGED <<owner, job_queue>> /\ Api' = Api
    BY <1>8, FeedDoes DEF SetsTask, SetsPc, Threads, Api
  <2> QED
    BY <2>1, AbortAnswersKept
<1>9. CASE JobFailed
  <2>1. UNCHANGED <<owner, job_queue>> /\ Api' = Api
    BY <1>9, JobFailedDoes DEF SetsTask, SetsPc, Threads, Api
  <2> QED
    BY <2>1, AbortAnswersKept
<1>10. CASE ConfigureNew
  <2>1. UNCHANGED <<owner, job_queue>> /\ Api'.pc \notin Aborting \cup Freeing
    BY <1>10, ConfigureNewDoes DEF SetsTask, SetsPc, Api, Aborting, Freeing
  <2> QED
    BY <2>1, AbortAnswersKept
<1>11. CASE CreateFailed
  <2>1. UNCHANGED <<owner, job_queue>> /\ Api'.pc \notin Aborting \cup Freeing
    BY <1>11, CreateFailedDoes DEF SetsTask, SetsPc, Api, Aborting, Freeing
  <2> QED
    BY <2>1, AbortAnswersKept
<1>12. CASE FindJob
  <2>1. /\ Api.job \in Jobs /\ job_queue' = job_queue \ {Api.job}
        /\ Api'.pc = "idle" \/ (Api'.pc = "abort" /\ Api'.job = Api.job)
    BY <1>12, FindJobDoes DEF SetsTask, SetsPc, Api
  <2>2. Api.job # 0
    BY <2>1 DEF Jobs
  <2> QED
    BY <2>1, <2>2 DEF AbortAnswers, Aborting, Freeing
<1>13. CASE DropJobs
  <2>1. /\ owner' = owner /\ job_queue' = WithoutSession(job_queue, Api.session) /\ Api.job = 0
        /\ Api'.pc = "abort" /\ Api'.job = Api.job /\ Api'.session = Api.session
    BY <1>13, DropJobsDoes DEF SetsPc, Api, IInv, Calls, InCalls
  <2>2. \A j \in Jobs : j # Exit
    BY ConstantsAssumption DEF Jobs, Exit
  <2>3. \A j \in job_queue' \cap Jobs : owner'[j] # Api'.session
    BY <2>1, <2>2 DEF WithoutSession
  <2> QED
    BY <2>1, <2>3 DEF AbortAnswers
<1>14. CASE BeginAbort \/ SendAbort \/ EndAbort
  <2>1. UNCHANGED <<owner, job_queue>> /\ Api.pc \in Aborting
    BY <1>14, BeginAbortDoes, SendAbortDoes, EndAbortDoes DEF Aborting
  <2>2. Api'.pc = "idle" \/ (Api'.session = Api.session /\ Api'.job = Api.job)
    BY <1>14, BeginAbortDoes, SendAbortDoes, EndAbortDoes DEF EndsAbort, SetsTask, SetsPc, Api
  <2> QED
    BY <2>1, <2>2, AbortAnswersKept DEF Aborting, Freeing
<1>15. CASE FreeSession
  <2>1. Api'.pc = "idle"
    BY <1>15, FreeSessionDoes DEF SetsTask, Api
  <2> QED
    BY <2>1 DEF AbortAnswers, Aborting, Freeing
<1>16. CASE Join
  <2>1. UNCHANGED <<owner, job_queue>> /\ Api'.pc \notin Aborting \cup Freeing
    BY <1>16, JoinDoes DEF SetsTask, SetsPc, Api, Aborting, Freeing
  <2> QED
    BY <2>1, AbortAnswersKept
<1>17. ASSUME NEW s \in Sessions, EncoderDone(s)
      PROVE  AbortAnswers'
  <2>1. UNCHANGED <<owner, job_queue>> /\ Api' = Api
    BY <1>17, EncoderDoneDoes DEF SetsTask, SetsPc, Threads, Api
  <2> QED
    BY <2>1, AbortAnswersKept
<1>18. ASSUME NEW s \in Sessions, EncoderError(s)
      PROVE  AbortAnswers'
  <2>1. UNCHANGED <<owner, job_queue>> /\ Api' = Api
    BY <1>18, EncoderErrorDoes DEF SetsTask, SetsPc, Threads, Api
  <2> QED
    BY <2>1, AbortAnswersKept
<1>19. ASSUME NEW s \in Sessions, EncoderChanges(s)
      PROVE  AbortAnswers'
  <2>1. UNCHANGED <<owner, job_queue>> /\ Api' = Api
    BY <1>19, EncoderChangesDoes DEF SetsTask, SetsPc, Threads, Api
  <2> QED
    BY <2>1, AbortAnswersKept
<1>20. ASSUME NEW s \in Sessions, FinishJob(s)
      PROVE  AbortAnswers'
  <2>1. UNCHANGED <<owner, job_queue>> /\ Api' = Api
    BY <1>20, FinishJobDoes DEF SetsTask, SetsPc, Threads, Api
  <2> QED
    BY <2>1, AbortAnswersKept
<1>21. ASSUME NEW s \in Sessions, CreateSession(s)
      PROVE  AbortAnswers'
  <2>1. UNCHANGED <<owner, job_queue>> /\ Api'.pc \notin Aborting \cup Freeing
    BY <1>21, CreateSessionDoes DEF SetsTask, SetsPc, Api, Aborting, Freeing
  <2> QED
    BY <2>1, AbortAnswersKept
<1>22. ASSUME NEW s \in Sessions, StopSession(s)
      PROVE  AbortAnswers'
  <2>1. UNCHANGED <<owner, job_queue>> /\ Api' = Api
    BY <1>22, StopSessionDoes DEF SetsTask, SetsPc, Threads, Api
  <2> QED
    BY <2>1, AbortAnswersKept
<1>23. ASSUME NEW s \in Sessions, DestroySession(s)
      PROVE  AbortAnswers'
  <2>1. UNCHANGED <<owner, job_queue>> /\ Api'.pc \notin Aborting \cup Freeing
    BY <1>23, DestroySessionDoes DEF SetsTask, SetsPc, Api, Aborting, Freeing
  <2> QED
    BY <2>1, AbortAnswersKept
<1>24. ASSUME NEW s \in Sessions, NEW j \in Jobs, StartJob(s, j)
      PROVE  AbortAnswers'
  <2>1. Api.pc = "idle" /\ Api' = Api
    BY <1>24, StartJobDoes DEF Api
  <2> QED
    BY <2>1 DEF AbortAnswers, Aborting, Freeing
<1>25. ASSUME NEW j \in Jobs, AbortJob(j)
      PROVE  AbortAnswers'
  <2>1. UNCHANGED <<owner, job_queue>> /\ Api'.pc \notin Aborting \cup Freeing
    BY <1>25, AbortJobDoes DEF SetsTask, SetsPc, Api, Aborting, Freeing
  <2> QED
    BY <2>1, AbortAnswersKept
<1>26. CASE Release
  <2>1. Api'.pc = "join"
    BY <1>26, ReleaseDoes DEF SetsTask, Api
  <2> QED
    BY <2>1 DEF AbortAnswers, Aborting, Freeing
<1>27. CASE UNCHANGED vars
  BY <1>27 DEF IInv, Answers, AbortAnswers, Api, vars, queues, clients, history
<1> QED
  BY <1>1, <1>2, <1>3, <1>4, <1>5, <1>6, <1>7, <1>8, <1>9, <1>10, <1>11, <1>12, <1>13, <1>14,
     <1>15, <1>16, <1>17, <1>18, <1>19, <1>20, <1>21, <1>22, <1>23, <1>24, <1>25, <1>26, <1>27
     DEF Next, Manager, InCall, Working, Encoder, Threads

-----------------------------------------------------------------------------
(* The invariant of every behaviour.                                       *)

\* The invariant holds before the first client opens.
LEMMA InitInvariant ==
  ASSUME Init
  PROVE  IInv
<1>1. /\ session = [s \in Sessions |-> NoSession] /\ omx = [s \in Sessions |-> NoOmx]
      /\ finishing = [s \in Sessions |-> FALSE]
      /\ job_queue = {} /\ ongoing_job_q = {} /\ job_lock = "free" /\ p_session_inprogress = None
      /\ task = [th \in Threads |-> Idle] /\ owner = [j \in Jobs |-> None] /\ stopping = {}
      /\ answers = [j \in Jobs |-> 0] /\ stopped = {}
  BY DEF Init
<1>2. \A s \in Sessions : session[s] = NoSession /\ omx[s] = NoOmx /\ ~finishing[s] /\ s # None
  BY <1>1 DEF Sessions, None
<1>3. Mgr = Idle /\ Api = Idle
  BY <1>1 DEF Mgr, Api, Threads
<1>4. Idle.pc = "idle" /\ Idle.session = None /\ Idle.phase = "start" /\ Idle.job = 0
  BY DEF Idle, Task
<1>5. \A j \in Jobs : owner[j] = None /\ Answerable(j) /\ j # 0
  BY <1>1 DEF Answerable, Jobs
<1>6. Types
  <2>1. SessionType /\ OmxType
    BY <1>1, NewRecords DEF SessionType, OmxType
  <2>2. Idle \in TaskRecord
    BY DEF Idle, Task, TaskRecord, Pcs
  <2>3. TaskType
    BY <1>1, <2>2 DEF TaskType
  <2>4. OtherTypes
    BY <1>1 DEF OtherTypes
  <2> QED
    BY <2>1, <2>3, <2>4 DEF Types
<1>7. Mgr.pc \notin WithLockMgr /\ Api.pc \notin WithLockApi \cup {"create", "abortJob", "destroy"}
  BY <1>3, <1>4 DEF WithLockMgr, WithLockApi, Configuring, Aborting, Freeing
<1>8. Calls
  BY <1>1, <1>3, <1>4, <1>7 DEF Calls, Holders, AtWork, InCalls, Stopping, Aborting, Freeing
<1>9. Progress
  BY <1>1, <1>2, <1>3, <1>4 DEF Progress, InProgress, ProgressAt, Configuring, NoSession
<1>10. Absent /\ Encoders
  BY <1>1, <1>2 DEF Absent, AbsentAt, Encoders, Resting, RestingAt, Serving, ServingAt, Erring, ErringAt,
     NoSession, NoOmx
<1>11. Running
  BY <1>2, <1>7 DEF Running, RunningAt, NoOmx
<1>12. Changes
  BY <1>1, <1>3, <1>4 DEF Changes, Setting, Ending
<1>13. Handles
  BY <1>2, <1>3, <1>4 DEF Handles, HandlesAt, NoSession, NoOmx
<1>14. Aborts
  BY <1>2, <1>3, <1>4 DEF Aborts, AbortsAt, Freeing, NoSession
<1>15. Answers
  BY <1>1, <1>2, <1>3, <1>4, <1>5 DEF Answers, Waiting, Encoded, Aborting, Freeing, NoOmx
<1> QED
  BY <1>6, <1>8, <1>9, <1>10, <1>11, <1>12, <1>13, <1>14, <1>15 DEF IInv

\* Every step keeps the types.
LEMMA TypesStep ==
  ASSUME IInv, [Next]_vars
  PROVE  Types'
<1>1. ASSUME NEW th \in Threads, SendCommand(th) \/ CheckCommand(th) \/ EndCommand(th)
      PROVE  Types'
  BY <1>1, SendCommandDoes, CheckCommandDoes, EndCommandDoes
<1>2. ASSUME NEW th \in Threads, ConfigMain(th)
      PROVE  Types'
  BY <1>2, ConfigMainDoes
<1>3. ASSUME NEW th \in Threads, Configured(th)
      PROVE  Types'
  BY <1>3, ConfiguredDoes
<1>4. CASE TakePost \/ ReadOngoing
  BY <1>4, WakingDoes
<1>5. CASE TakeJob
  BY <1>5, TakeJobDoes
<1>6. CASE ForgetOther
  BY <1>6, ForgetOtherDoes
<1>7. CASE JobParams
  BY <1>7, JobParamsDoes
<1>8. CASE Feed
  BY <1>8, FeedDoes
<1>9. CASE JobFailed
  BY <1>9, JobFailedDoes
<1>10. CASE ConfigureNew
  BY <1>10, ConfigureNewDoes
<1>11. CASE CreateFailed
  BY <1>11, CreateFailedDoes
<1>12. CASE FindJob
  BY <1>12, FindJobDoes
<1>13. CASE DropJobs
  BY <1>13, DropJobsDoes
<1>14. CASE BeginAbort
  BY <1>14, BeginAbortDoes
<1>15. CASE SendAbort
  BY <1>15, SendAbortDoes
<1>16. CASE EndAbort
  BY <1>16, EndAbortDoes
<1>17. CASE FreeSession
  BY <1>17, FreeSessionDoes
<1>18. CASE Join
  BY <1>18, JoinDoes
<1>19. ASSUME NEW s \in Sessions, EncoderDone(s)
      PROVE  Types'
  BY <1>19, EncoderDoneDoes
<1>20. ASSUME NEW s \in Sessions, EncoderError(s)
      PROVE  Types'
  BY <1>20, EncoderErrorDoes
<1>21. ASSUME NEW s \in Sessions, EncoderChanges(s)
      PROVE  Types'
  BY <1>21, EncoderChangesDoes
<1>22. ASSUME NEW s \in Sessions, FinishJob(s)
      PROVE  Types'
  BY <1>22, FinishJobDoes
<1>23. ASSUME NEW s \in Sessions, CreateSession(s)
      PROVE  Types'
  BY <1>23, CreateSessionDoes
<1>24. ASSUME NEW s \in Sessions, StopSession(s)
      PROVE  Types'
  BY <1>24, StopSessionDoes
<1>25. ASSUME NEW s \in Sessions, DestroySession(s)
      PROVE  Types'
  BY <1>25, DestroySessionDoes
<1>26. ASSUME NEW s \in Sessions, NEW j \in Jobs, StartJob(s, j)
      PROVE  Types'
  BY <1>26, StartJobDoes
<1>27. ASSUME NEW j \in Jobs, AbortJob(j)
      PROVE  Types'
  BY <1>27, AbortJobDoes
<1>28. CASE Release
  BY <1>28, ReleaseDoes
<1>29. CASE UNCHANGED vars
  BY <1>29
     DEF IInv, Types, SessionType, OmxType, TaskType, OtherTypes, vars, queues, clients, history
<1> QED
  BY <1>1, <1>2, <1>3, <1>4, <1>5, <1>6, <1>7, <1>8, <1>9, <1>10, <1>11, <1>12, <1>13, <1>14,
     <1>15, <1>16, <1>17, <1>18, <1>19, <1>20, <1>21, <1>22, <1>23, <1>24, <1>25, <1>26, <1>27,
     <1>28, <1>29
     DEF Next, Manager, InCall, Working, Encoder, Threads

\* Every step keeps the invariant.
LEMMA NextInvariant ==
  ASSUME IInv, [Next]_vars
  PROVE  IInv'
<1>1. Types'
  BY TypesStep
<1>2. Calls'
  BY HoldersStep, AtWorkStep, InCallsStep, StoppingStep DEF Calls
<1>3. Progress'
  BY InProgressStep, ProgressAtStep DEF Progress
<1>4. Absent'
  BY AbsentStep
<1>5. Encoders'
  BY RestingStep, ServingStep, ErringStep DEF Encoders
<1>6. Running'
  BY RunningStep, ManagerRunsStep DEF Running, RunningEach, ManagerRuns
<1>7. Changes'
  <2>1. Setting(Mgr)' /\ Setting(Api)'
    BY SettingStep DEF Threads, Mgr, Api
  <2> QED
    BY <2>1, UnsettingStep, EndingStep DEF Changes, UnsettingNow, EndingNow
<1>8. Handles'
  BY HandlesStep
<1>9. Aborts'
  BY AbortsStep, AbortCallsStep DEF Aborts, AbortsEach, AbortCalls
<1>10. Answers'
  BY WaitingStep, ManagerAnswersStep, EncodedStep, AbortAnswersStep
     DEF Answers, AllWaiting, ManagerAnswers, AllEncoded, AbortAnswers
<1> QED
  BY <1>1, <1>2, <1>3, <1>4, <1>5, <1>6, <1>7, <1>8, <1>9, <1>10 DEF IInv

\* The invariant holds in every state of every behaviour.
THEOREM Invariance == Spec => []IInv
<1>1. Init => IInv
  BY InitInvariant
<1>2. IInv /\ [Next]_vars => IInv'
  BY NextInvariant
<1> QED
  BY <1>1, <1>2, PTL DEF Spec

-----------------------------------------------------------------------------
(* The properties.                                                         *)

\* The encoder of another session than the one in progress is not Executing.
LEMMA OthersRest ==
  ASSUME IInv, p_session_inprogress # None, NEW o \in Sessions, p_session_inprogress # o
  PROVE  omx[o].state # "Executing" /\ omx[o].cmd # "Executing"
<1>1. CASE session[o].active
  <2>1. ~BeingSet(o)
    BY DEF BeingSet, IInv, Progress, ProgressAt, Configuring
  <2> QED
    BY <1>1, <2>1 DEF IInv, Encoders, Resting, RestingAt
<1>2. CASE ~session[o].active
  BY <1>2 DEF IInv, Absent, AbsentAt, NoOmx
<1> QED
  BY <1>1, <1>2

\* The invariant makes the job of an encoder known.
LEMMA RunningIsKnownHolds ==
  ASSUME IInv
  PROVE  RunningIsKnown
<1>1. ASSUME NEW s \in Sessions, omx[s].job # 0
      PROVE  /\ p_session_inprogress = s /\ session[s].config
             /\ omx[s].job \in ongoing_job_q \/ task["api"].session = s
  BY <1>1 DEF IInv, Running, RunningAt, Progress, InProgress, Api
<1>2. ASSUME NEW s \in Sessions, omx[s].job # 0, NEW o \in Sessions \ {s}
      PROVE  "Executing" \notin {omx[o].state, omx[o].cmd}
  BY <1>1, <1>2, OthersRest DEF None, Sessions
<1> QED
  BY <1>1, <1>2 DEF RunningIsKnown

\* A job an encoder works on belongs to the session in progress, is ongoing or
\* being aborted, and no other encoder works (RunningIsKnown).
THEOREM AlwaysRunningIsKnown == Spec => []RunningIsKnown
BY Invariance, RunningIsKnownHolds, PTL

\* A session's handle has at most one user.
LEMMA OneUser ==
  ASSUME NEW Q \in BOOLEAN, NEW M \in BOOLEAN, NEW E \in BOOLEAN, NEW C \in BOOLEAN,
         ~(Q /\ M), ~(Q /\ E), ~(Q /\ C), ~(M /\ E), ~(M /\ C), ~(E /\ C)
  PROVE  LET users == {u \in {"queue", "mgr", "encoder", "callback"} :
                         \/ u = "queue" /\ Q
                         \/ u = "mgr" /\ M
                         \/ u = "encoder" /\ E
                         \/ u = "callback" /\ C}
         IN  Cardinality(users) = 1 \/ (users = {} /\ ~Q /\ ~M /\ ~E /\ ~C)
<1> DEFINE users == {u \in {"queue", "mgr", "encoder", "callback"} :
                       \/ u = "queue" /\ Q
                       \/ u = "mgr" /\ M
                       \/ u = "encoder" /\ E
                       \/ u = "callback" /\ C}
<1>1. CASE Q
  <2>1. users = {"queue"}
    BY <1>1
  <2> QED
    BY <2>1, FS_Singleton
<1>2. CASE M
  <2>1. users = {"mgr"}
    BY <1>2
  <2> QED
    BY <2>1, FS_Singleton
<1>3. CASE E
  <2>1. users = {"encoder"}
    BY <1>3
  <2> QED
    BY <2>1, FS_Singleton
<1>4. CASE C
  <2>1. users = {"callback"}
    BY <1>4
  <2> QED
    BY <2>1, FS_Singleton
<1> QED
  BY <1>1, <1>2, <1>3, <1>4

\* The invariant keeps account of the handles.
LEMMA HandleAccountedHolds ==
  ASSUME IInv
  PROVE  HandleAccounted
<1> SUFFICES ASSUME NEW s \in Sessions, session[s].active
             PROVE  LET users == {u \in {"queue", "mgr", "encoder", "callback"} :
                                    \/ u = "queue" /\ session[s].handles = 1
                                    \/ u = "mgr" /\ task["mgr"].session = s
                                    \/ u = "encoder" /\ omx[s].job # 0
                                    \/ u = "callback" /\ finishing[s]}
                    IN  /\ session[s].handles <= 1
                        /\ Cardinality(users) = 1 \/ (users = {} /\ session[s].abort # "NONE")
  BY DEF HandleAccounted
<1> DEFINE Q == session[s].handles = 1
           M == task["mgr"].session = s
           E == omx[s].job # 0
           C == finishing[s]
<1>1. HandlesAt(s)
  BY DEF IInv, Handles
<1>2. session[s].handles = 0 \/ session[s].handles = 1
  BY <1>1 DEF HandlesAt
<1>3. ~(Q /\ M) /\ ~(Q /\ E) /\ ~(Q /\ C) /\ ~(M /\ E) /\ ~(M /\ C) /\ ~(E /\ C)
  BY <1>1 DEF HandlesAt, Mgr
<1>4. ~Q /\ ~M /\ ~E /\ ~C => session[s].abort # "NONE"
  BY <1>1, <1>2 DEF HandlesAt, Mgr
<1>5. Q \in BOOLEAN /\ M \in BOOLEAN /\ E \in BOOLEAN /\ C \in BOOLEAN
  BY DEF IInv, Types, OtherTypes
<1>6. session[s].handles <= 1
  BY <1>2
<1> HIDE DEF Q, M, E, C
<1>7. LET users == {u \in {"queue", "mgr", "encoder", "callback"} :
                      \/ u = "queue" /\ Q
                      \/ u = "mgr" /\ M
                      \/ u = "encoder" /\ E
                      \/ u = "callback" /\ C}
      IN  Cardinality(users) = 1 \/ (users = {} /\ ~Q /\ ~M /\ ~E /\ ~C)
  BY <1>3, <1>5, OneUser
<1> QED
  BY <1>4, <1>6, <1>7 DEF Q, M, E, C

\* The handle of a session is in its queue, with the manager, at the encoder or
\* in the callback, and in one of them only, unless its job was aborted
\* (HandleAccounted).
THEOREM AlwaysHandleAccounted == Spec => []HandleAccounted
BY Invariance, HandleAccountedHolds, PTL

\* What is said of a job whose end is known.
Quiet(j) == answers[j] > 0 \/ j \in stopped => answers'[j] = answers[j]

\* An encoder that works is not one whose abort is done.
LEMMA NoneAtWork ==
  ASSUME IInv, NEW s \in Sessions, omx[s].job # 0
  PROVE  session[s].abort \in {"NONE", "INIT"}
BY DEF IInv, Aborts, AbortsAt, Types, SessionType, SessionRecord

\* No step answers a job that was answered, aborted or dropped.
LEMMA QuietStep ==
  ASSUME IInv, [Next]_vars
  PROVE  \A j \in Jobs : Quiet(j)
<1>1. ASSUME NEW th \in Threads, SendCommand(th) \/ CheckCommand(th) \/ EndCommand(th)
      PROVE  \A j \in Jobs : Quiet(j)
  BY <1>1, CommandKeeps DEF Quiet
<1>2. ASSUME NEW th \in Threads, ConfigMain(th)
      PROVE  \A j \in Jobs : Quiet(j)
  BY <1>2, ConfigMainDoes DEF Quiet
<1>3. ASSUME NEW th \in Threads, Configured(th)
      PROVE  \A j \in Jobs : Quiet(j)
  BY <1>3, ConfiguredDoes DEF Quiet
<1>4. CASE TakePost \/ ReadOngoing
  BY <1>4, WakingDoes DEF Quiet
<1>5. CASE TakeJob
  BY <1>5, TakeJobDoes DEF Quiet
<1>6. CASE ForgetOther
  BY <1>6, ForgetOtherDoes DEF Quiet
<1>7. CASE JobParams
  BY <1>7, JobParamsDoes DEF Quiet
<1>8. CASE Feed
  BY <1>8, FeedDoes DEF Quiet
<1>9. CASE JobFailed
  <2>1. Mgr.pc \in WithLockMgr /\ SaysEnd(Mgr.session) /\ Mgr.session \in Sessions
    BY <1>9, JobFailedDoes DEF WithLockMgr
  <2>2. session[Mgr.session].current = Mgr.job
    BY <2>1 DEF IInv, Calls, AtWork
  <2>3. Answerable(Mgr.job)
    BY <2>1 DEF IInv, Answers, None, Sessions
  <2>4. \A j \in Jobs : answers'[j] = answers[j] \/ Answerable(j)
    BY <2>1, <2>2, <2>3 DEF SaysEnd, IInv, Types, OtherTypes
  <2> QED
    BY <2>4 DEF Quiet, Answerable
<1>10. CASE ConfigureNew
  BY <1>10, ConfigureNewDoes DEF Quiet
<1>11. CASE CreateFailed
  BY <1>11, CreateFailedDoes DEF Quiet
<1>12. CASE FindJob
  BY <1>12, FindJobDoes DEF Quiet
<1>13. CASE DropJobs
  BY <1>13, DropJobsDoes DEF Quiet
<1>14. CASE BeginAbort
  BY <1>14, BeginAbortDoes DEF Quiet
<1>15. CASE SendAbort
  BY <1>15, SendAbortDoes DEF Quiet
<1>16. CASE EndAbort
  BY <1>16, EndAbortDoes DEF Quiet
<1>17. CASE FreeSession
  BY <1>17, FreeSessionDoes DEF Quiet
<1>18. CASE Join
  BY <1>18, JoinDoes DEF Quiet
<1>19. ASSUME NEW s \in Sessions, EncoderDone(s)
      PROVE  \A j \in Jobs : Quiet(j)
  <2>1. omx[s].job # 0 /\ (UNCHANGED answers \/ SaysEnd(s))
    BY <1>19, EncoderDoneDoes
  <2>2. omx[s].job \in Jobs /\ session[s].current = omx[s].job
    BY <2>1, RunningAlone
  <2>3. UNCHANGED answers \/ (SaysEnd(s) /\ Answerable(omx[s].job))
    <3>1. UNCHANGED answers \/ session[s].abort = "NONE"
      BY <1>19, <2>1, EncoderDoneDoes, NoneAtWork
    <3> QED
      BY <2>1, <3>1 DEF IInv, Answers, Encoded
  <2>4. \A j \in Jobs : answers'[j] = answers[j] \/ Answerable(j)
    BY <2>2, <2>3 DEF SaysEnd, IInv, Types, OtherTypes
  <2> QED
    BY <2>4 DEF Quiet, Answerable
<1>20. ASSUME NEW s \in Sessions, EncoderError(s)
      PROVE  \A j \in Jobs : Quiet(j)
  <2>1. omx[s].job # 0 /\ (UNCHANGED answers \/ SaysEnd(s))
    BY <1>20, EncoderErrorDoes
  <2>2. omx[s].job \in Jobs /\ session[s].current = omx[s].job
    BY <2>1, RunningAlone
  <2>3. UNCHANGED answers \/ (SaysEnd(s) /\ Answerable(omx[s].job))
    <3>1. UNCHANGED answers \/ session[s].abort = "NONE"
      BY <1>20, <2>1, EncoderErrorDoes, NoneAtWork
    <3> QED
      BY <2>1, <3>1 DEF IInv, Answers, Encoded
  <2>4. \A j \in Jobs : answers'[j] = answers[j] \/ Answerable(j)
    BY <2>2, <2>3 DEF SaysEnd, IInv, Types, OtherTypes
  <2> QED
    BY <2>4 DEF Quiet, Answerable
<1>21. ASSUME NEW s \in Sessions, EncoderChanges(s)
      PROVE  \A j \in Jobs : Quiet(j)
  BY <1>21, EncoderChangesDoes DEF Quiet
<1>22. ASSUME NEW s \in Sessions, FinishJob(s)
      PROVE  \A j \in Jobs : Quiet(j)
  BY <1>22, FinishJobDoes DEF Quiet
<1>23. ASSUME NEW s \in Sessions, CreateSession(s)
      PROVE  \A j \in Jobs : Quiet(j)
  BY <1>23, CreateSessionDoes DEF Quiet
<1>24. ASSUME NEW s \in Sessions, StopSession(s)
      PROVE  \A j \in Jobs : Quiet(j)
  BY <1>24, StopSessionDoes DEF Quiet
<1>25. ASSUME NEW s \in Sessions, DestroySession(s)
      PROVE  \A j \in Jobs : Quiet(j)
  BY <1>25, DestroySessionDoes DEF Quiet
<1>26. ASSUME NEW s \in Sessions, NEW j \in Jobs, StartJob(s, j)
      PROVE  \A i \in Jobs : Quiet(i)
  BY <1>26, StartJobDoes DEF Quiet
<1>27. ASSUME NEW j \in Jobs, AbortJob(j)
      PROVE  \A i \in Jobs : Quiet(i)
  BY <1>27, AbortJobDoes DEF Quiet
<1>28. CASE Release
  BY <1>28, ReleaseDoes DEF Quiet
<1>29. CASE UNCHANGED vars
  BY <1>29 DEF Quiet, vars, queues, clients, history
<1> QED
  BY <1>1, <1>2, <1>3, <1>4, <1>5, <1>6, <1>7, <1>8, <1>9, <1>10, <1>11, <1>12, <1>13, <1>14,
     <1>15, <1>16, <1>17, <1>18, <1>19, <1>20, <1>21, <1>22, <1>23, <1>24, <1>25, <1>26, <1>27,
     <1>28, <1>29
     DEF Next, Manager, InCall, Working, Encoder, Threads

\* A client is called back once for a job, and never after the call that aborted
\* it or destroyed its session has returned (QuietAfterEnd).
THEOREM AlwaysQuietAfterEnd == Spec => QuietAfterEnd
<1>1. IInv /\ [Next]_vars =>
        [\A j \in Jobs : answers[j] > 0 \/ j \in stopped => answers'[j] = answers[j]]_vars
  BY QuietStep DEF Quiet
<1> QED
  BY <1>1, Invariance, PTL DEF Spec, QuietAfterEnd

=============================================================================
