---------------------- MODULE QCameraStateMachineProofs ----------------------
(***************************************************************************)
(* Proofs about QCameraStateMachine, for any number of calls and of        *)
(* failures: the channels follow the state of the machine, the preview     *)
(* runs while nothing fails, and a call that waits is owed its answer.     *)
(*                                                                         *)
(* The module has three parts: what a row of the machine's tables may do   *)
(* (Row), proved table by table; the invariant IInv; and that each step    *)
(* keeps it, where the steps of the machine are known by Row and EventRow  *)
(* only.                                                                   *)
(***************************************************************************)
EXTENDS QCameraStateMachine, SequenceTheorems, TLAPS

-----------------------------------------------------------------------------
(* Vocabulary                                                              *)

Chan  == [{"zsl", "preview", "video", "capture"} -> {"none", "ready", "running"}]
Param == [zsl : BOOLEAN, hint : BOOLEAN]

\* Events of threads that do not wait
Posted == {"CANCEL_PICTURE", "STOP_CAPTURE_CHANNEL"}

Empty(c) == c.zsl = "none" /\ c.preview = "none" /\ c.video = "none"
Up(c)    == c.zsl = "running" \/ c.preview = "running"

\* The part of the type invariant that the tables of the machine write
MachineOK ==
  /\ m_state \in States /\ phase \in Phases /\ channels \in Chan
  /\ params \in Param /\ newParams \in Param
  /\ needRestart \in BOOLEAN /\ window \in BOOLEAN /\ longshot \in BOOLEAN
  /\ failures \in 0 .. MaxFailures

Untroubled == failures = 0 /\ ~dead /\ ~longshotUsed /\ ~restart

\* How the channels c follow the state s; b says that set_parameters is
\* between its stop and its restart of the preview
StoppedIsEmpty(b, s, c) ==
  ~restart /\ (b \/ s \in {"PREVIEW_STOPPED", "PIC_TAKING"}) => Empty(c)
VideoRuns(s, c) == s \in {"RECORDING", "VIDEO_PIC_TAKING"} => c.video = "running"
FramesFlow(b, s, c) ==
  /\ s \in {"PREPARE_SNAPSHOT", "RECORDING", "VIDEO_PIC_TAKING"} => Up(c)
  /\ s \in {"PREVIEWING", "PREVIEW_PIC_TAKING"} => Up(c) \/ b

LiveIsVideo == phase = "live" => m_state = "VIDEO_PIC_TAKING"

-----------------------------------------------------------------------------
(* What a row of the machine's tables may do                               *)

\* What the rows rely on
RowPre(evt, b) ==
  /\ MachineOK /\ evt \in APIEvents /\ b \in BOOLEAN
  /\ b => evt \in {"SET_PARAMS_COMMIT", "SET_PARAMS_RESTART"} \cup Posted
  /\ evt = "SET_PARAMS_RESTART" => b
  /\ evt = "SET_PARAMS_COMMIT" /\ m_state = "PREPARE_SNAPSHOT" => dead
  /\ longshot \/ evt \in CommandEvents => longshotUsed
  /\ StoppedIsEmpty(b, m_state, channels)
  /\ VideoRuns(m_state, channels)
  /\ Untroubled => FramesFlow(b, m_state, channels)
  /\ LiveIsVideo

RowFrame == UNCHANGED <<fw, retro, restart, longshotUsed, dead>>

\* The states in which SET_PARAMS_STOP is not refused
Stoppable == m_state \notin {"PREPARE_SNAPSHOT", "RECORDING", "VIDEO_PIC_TAKING"}

\* Is set_parameters between its stop and its restart after the event?
StillBetween(evt, b) ==
  IF evt = "SET_PARAMS_STOP" THEN Stoppable ELSE b /\ evt \in {"SET_PARAMS_COMMIT"} \cup Posted

RowChannels(evt, b) ==
  /\ StoppedIsEmpty(StillBetween(evt, b), m_state', channels')
  /\ VideoRuns(m_state', channels')
  /\ Untroubled' => FramesFlow(StillBetween(evt, b), m_state', channels')

\* The answers that are put off until an event of the daemon
Defers(evt) ==
  /\ UNCHANGED <<results, woken>> /\ ~dead
  /\ \/ /\ evt = "PREPARE_SNAPSHOT" /\ m_state = "PREVIEWING"
        /\ m_state' = "PREPARE_SNAPSHOT" /\ phase' = phase
     \/ /\ evt = "PREPARE_SNAPSHOT" /\ m_state = "PREVIEW_PIC_TAKING" /\ retro
        /\ m_state' = m_state /\ phase' = IF phase = "ready" THEN "preparing" ELSE phase
     \/ /\ evt = "TAKE_PICTURE" /\ m_state = "PREVIEWING" /\ retro
        /\ m_state' = "PREVIEW_PIC_TAKING" /\ phase' = "retro"

Answers(evt, ok) ==
  /\ results' = Append(results, Result(evt, ok)) /\ woken' = (fw # None)
  /\ evt = "SET_PARAMS_STOP" => ok = Stoppable
  /\ evt = "SET_PARAMS_COMMIT" /\ ~ok => failures' # 0 \/ dead
  /\ evt = "PRE_TAKE_PICTURE" /\ ok /\ m_state = "PREVIEW_PIC_TAKING" => longshot

\* Every call is answered, or its answer is put off
RowAnswer(evt) ==
  \/ evt \in CallEvents /\ \E ok \in BOOLEAN : Answers(evt, ok)
  \/ evt = "STOP_CAPTURE_CHANNEL" /\ results' = results /\ woken' \in {woken, fw # None}
  \/ Defers(evt)

\* What a row may not do to the settings and the count of failures
RowSettings(evt) ==
  /\ longshot' => longshot \/ evt = "LONGSHOT_ON"
  /\ longshot /\ ~longshot' =>
       evt \in CommandEvents \cup {"SET_PARAMS_RESTART", "PRE_START_RECORDING"} \cup PlayEvents
         \/ (evt = "STOP_CAPTURE_CHANNEL" /\ m_state = "PIC_TAKING")
  /\ longshot /\ ~longshot' /\ evt \in PlayEvents \cup {"PRE_START_RECORDING"} => ~isCaptureRunning
  /\ evt \in {"SET_PARAMS_STOP", "SET_PARAMS_COMMIT"} \cup Posted => needRestart' = needRestart
  /\ failures' >= failures

\* What the rows of the settings have in common
Others(evt) ==
  /\ params' \in Param /\ newParams' \in Param
  /\ needRestart' \in BOOLEAN /\ window' \in BOOLEAN /\ longshot' \in BOOLEAN
  /\ failures' \in 0 .. MaxFailures
  /\ RowSettings(evt)

\* How a row may move the machine and the picture on
RowMoves(evt) ==
  /\ LiveIsVideo'
  /\ evt \in Posted /\ m_state \in {"RECORDING", "VIDEO_PIC_TAKING"} => m_state' \in {"RECORDING", "VIDEO_PIC_TAKING"}
  /\ evt = "STOP_CAPTURE_CHANNEL" => UNCHANGED <<m_state, phase>>
  /\ evt = "CANCEL_PICTURE" /\ m_state = "PREPARE_SNAPSHOT" => UNCHANGED <<m_state, phase>>
  /\ evt = "CANCEL_PICTURE" =>
       m_state' # "PREVIEW_PIC_TAKING" /\ (phase' = "idle" \/ UNCHANGED <<m_state, phase>>)
  /\ m_state' = "PREVIEW_PIC_TAKING" =>
       m_state = m_state' \/ (evt = "TAKE_PICTURE" /\ m_state = "PREVIEWING" /\ (retro => Defers(evt)))
  /\ m_state' = "PREPARE_SNAPSHOT" => m_state = m_state' \/ Defers(evt)
  /\ phase' = "preparing" => phase = "preparing" \/ (Defers(evt) /\ m_state = "PREVIEW_PIC_TAKING")
  /\ phase' = "retro" => phase = "retro" \/ (Defers(evt) /\ evt = "TAKE_PICTURE")

Row(evt, b) ==
  MachineOK' /\ RowChannels(evt, b) /\ RowAnswer(evt) /\ RowSettings(evt) /\ RowMoves(evt)

-----------------------------------------------------------------------------
(* The operations on the channels                                          *)

\* The fields of the channels
LEMMA ChanFields ==
  ASSUME NEW c \in Chan
  PROVE  /\ c.zsl \in {"none", "ready", "running"} /\ c.preview \in {"none", "ready", "running"}
         /\ c.video \in {"none", "ready", "running"} /\ c.capture \in {"none", "ready", "running"}
BY DEF Chan

\* unpreparePreview and stopPreview leave no channel but the capture channel.
LEMMA UnprepareFacts ==
  ASSUME NEW c \in Chan
  PROVE  unpreparePreview(c) \in Chan /\ Empty(unpreparePreview(c))
BY DEF unpreparePreview, Chan, Empty

\* cancelPicture disturbs at most the capture channel.
LEMMA CancelFacts ==
  ASSUME NEW c \in Chan, NEW p
  PROVE  /\ cancelPicture(c, p) \in Chan
         /\ \A k \in {"zsl", "preview", "video"} : cancelPicture(c, p)[k] = c[k]
BY DEF cancelPicture, Chan

\* stopRecording disturbs at most the video channel.
LEMMA StopRecordingFacts ==
  ASSUME NEW c \in Chan
  PROVE  /\ stopRecording(c) \in Chan
         /\ stopRecording(c).zsl = c.zsl /\ stopRecording(c).preview = c.preview
BY DEF stopRecording, Chan

\* The fields of an outcome
LEMMA OutcomeFields ==
  ASSUME NEW c, NEW o
  PROVE  /\ o = Outcome(TRUE, c) => o.ok = TRUE /\ o.ch = c /\ o.possible = TRUE
         /\ o = Outcome(FALSE, c) => o.ok = FALSE /\ o.ch = c /\ o.possible = TRUE
BY DEF Outcome

\* The fields of an outcome that is not known
LEMMA OutcomeOf ==
  ASSUME NEW ok \in BOOLEAN, NEW c
  PROVE  Outcome(ok, c).ok = ok /\ Outcome(ok, c).ch = c /\ Outcome(ok, c).possible = TRUE
BY DEF Outcome

\* Preparing a preview starts nothing, and fails with channels that were gone
\* still gone.
LEMMA PrepareFacts ==
  ASSUME NEW c \in Chan, NEW p \in Param, NEW o \in preparePreview(c, p)
  PROVE  /\ o.ok \in BOOLEAN /\ o.ch \in Chan /\ o.possible = TRUE
         /\ ~o.ok /\ Empty(c) => Empty(o.ch)
         /\ o.ok => o.ch[IF UsesZSL(p) THEN "zsl" ELSE "preview"] = "ready"
<1>1. CASE UsesZSL(p)
  <2>1. o \in {Outcome(TRUE, [c EXCEPT !.zsl = "ready"]), Outcome(FALSE, [c EXCEPT !.zsl = "none"])}
    BY <1>1 DEF preparePreview
  <2>2. [c EXCEPT !.zsl = "ready"] \in Chan /\ [c EXCEPT !.zsl = "none"] \in Chan
    BY DEF Chan
  <2>3. [c EXCEPT !.zsl = "ready"]["zsl"] = "ready" /\ (Empty(c) => Empty([c EXCEPT !.zsl = "none"]))
    BY DEF Chan, Empty
  <2> QED
    BY <1>1, <2>1, <2>2, <2>3, OutcomeFields
<1>2. CASE ~UsesZSL(p)
  <2>1. o \in {Outcome(TRUE, [c EXCEPT !.preview = "ready", !.video = IF p.hint THEN "ready" ELSE @]),
               Outcome(FALSE, [c EXCEPT !.preview = "none", !.video = IF p.hint THEN "none" ELSE @])}
    BY <1>2 DEF preparePreview
  <2> DEFINE d == [c EXCEPT !.preview = "ready", !.video = IF p.hint THEN "ready" ELSE @]
             e == [c EXCEPT !.preview = "none", !.video = IF p.hint THEN "none" ELSE @]
  <2>2. d \in Chan /\ e \in Chan
    BY DEF Chan
  <2>3. d["preview"] = "ready" /\ (Empty(c) => Empty(e))
    BY DEF Chan, Empty
  <2>4. o = Outcome(TRUE, d) \/ o = Outcome(FALSE, e)
    BY <2>1
  <2> HIDE DEF d, e
  <2> QED
    BY <1>2, <2>2, <2>3, <2>4, OutcomeFields
<1> QED
  BY <1>1, <1>2

\* A preview that starts runs.
LEMMA StartFacts ==
  ASSUME NEW c \in Chan, NEW p \in Param, NEW o \in startPreview(c, p)
  PROVE  /\ o.ok \in BOOLEAN /\ o.ch \in Chan /\ o.possible \in BOOLEAN
         /\ ~o.ok => o.ch = c
         /\ o.ok => Up(o.ch)
         /\ c[IF UsesZSL(p) THEN "zsl" ELSE "preview"] # "none" => o.possible
<1> DEFINE kind == IF UsesZSL(p) THEN "zsl" ELSE "preview"
           d == [c EXCEPT ![kind] = "running"]
<1>1. o \in OnChannel(kind, c, d)
  BY DEF startPreview
<1>2. kind \in {"zsl", "preview"}
  OBVIOUS
<1> HIDE DEF kind
<1>3. d \in Chan /\ Up(d)
  BY <1>2 DEF Chan, Up
<1> HIDE DEF d
<1>4. /\ o.ok \in BOOLEAN /\ o.ch \in Chan /\ o.possible \in BOOLEAN
      /\ ~o.ok => o.ch = c
      /\ o.ok => Up(o.ch)
      /\ c[kind] # "none" => o.possible
  <2>1. CASE c[kind] = "none"
    <3>1. o = [ok |-> FALSE, ch |-> c, possible |-> FALSE]
      BY <1>1, <2>1 DEF OnChannel
    <3> QED
      BY <2>1, <3>1
  <2>2. CASE c[kind] # "none"
    <3>1. o = Outcome(FALSE, c) \/ o = Outcome(TRUE, d)
      BY <1>1, <2>2 DEF OnChannel
    <3> QED
      BY <1>3, <3>1, OutcomeFields
  <2> QED
    BY <2>1, <2>2
<1> QED
  BY <1>4 DEF kind

\* A preview that is prepared and started runs, and a failure that is undone
\* leaves channels that were gone still gone.
LEMMA PrepareAndStartFacts ==
  ASSUME NEW c \in Chan, NEW p \in Param, NEW undo \in BOOLEAN, NEW o \in PrepareAndStart(c, p, undo)
  PROVE  /\ o.ok \in BOOLEAN /\ o.ch \in Chan /\ o.possible = TRUE
         /\ ~o.ok /\ undo /\ Empty(c) => Empty(o.ch)
         /\ o.ok => Up(o.ch)
<1>1. PICK r \in preparePreview(c, p) :
        o \in IF r.ok
              THEN { IF ~s.ok /\ undo THEN [s EXCEPT !.ch = unpreparePreview(@)] ELSE s : s \in startPreview(r.ch, p) }
              ELSE {r}
  BY DEF PrepareAndStart
<1>2. /\ r.ok \in BOOLEAN /\ r.ch \in Chan /\ r.possible = TRUE
      /\ ~r.ok /\ Empty(c) => Empty(r.ch)
      /\ r.ok => r.ch[IF UsesZSL(p) THEN "zsl" ELSE "preview"] = "ready"
  BY PrepareFacts
<1>3. CASE ~r.ok
  BY <1>1, <1>2, <1>3
<1>4. CASE r.ok
  <2>1. PICK s \in startPreview(r.ch, p) :
          o = IF ~s.ok /\ undo THEN [s EXCEPT !.ch = unpreparePreview(@)] ELSE s
    BY <1>1, <1>4
  <2>2. /\ s.ok \in BOOLEAN /\ s.ch \in Chan /\ s.possible \in BOOLEAN
        /\ ~s.ok => s.ch = r.ch
        /\ s.ok => Up(s.ch)
        /\ r.ch[IF UsesZSL(p) THEN "zsl" ELSE "preview"] # "none" => s.possible
    BY <1>2, StartFacts
  <2>3. s.possible = TRUE
    BY <1>2, <1>4, <2>2
  <2>4. s = [ok |-> s.ok, ch |-> s.ch, possible |-> s.possible]
    BY DEF startPreview, OnChannel, Outcome
  <2>5. CASE ~s.ok /\ undo
    <3>1. o = [ok |-> s.ok, ch |-> unpreparePreview(s.ch), possible |-> s.possible]
      BY <2>1, <2>4, <2>5
    <3> QED
      BY <2>2, <2>3, <2>5, <3>1, UnprepareFacts
  <2>6. CASE ~(~s.ok /\ undo)
    BY <2>1, <2>2, <2>3, <2>6
  <2> QED
    BY <2>5, <2>6
<1> QED
  BY <1>2, <1>3, <1>4

-----------------------------------------------------------------------------
(* Rows                                                                    *)

\* What failed is counted, unless the daemon is dead or it could not work.
LEMMA CameFacts ==
  ASSUME NEW o, o.ok \in BOOLEAN, o.possible \in BOOLEAN, MachineOK, Came(o)
  PROVE  /\ failures' \in 0 .. MaxFailures /\ failures' >= failures
         /\ o.possible /\ ~o.ok => failures' # 0 \/ dead
         /\ o.ok => ~dead
BY ConstantsAssumption DEF ConstantsAssumption, Came, MachineOK

\* A row that answers at once, and moves neither the machine nor the picture
\* into one of the waits for the daemon.
LEMMA AnswerRow ==
  ASSUME NEW evt \in CallEvents, NEW b \in BOOLEAN, RowPre(evt, b), RowFrame,
         NEW ok \in BOOLEAN, Answers(evt, ok), Others(evt),
         m_state' \in States, channels' \in Chan, RowChannels(evt, b),
         phase' \in Phases, phase' \in {"preparing", "retro"} => phase' = phase,
         LiveIsVideo',
         m_state' = "PREVIEW_PIC_TAKING" =>
           m_state = m_state' \/ (evt = "TAKE_PICTURE" /\ m_state = "PREVIEWING" /\ ~retro),
         m_state' = "PREPARE_SNAPSHOT" => m_state = m_state',
         evt = "CANCEL_PICTURE" =>
           /\ m_state' # "PREVIEW_PIC_TAKING"
           /\ phase' = "idle" \/ UNCHANGED <<m_state, phase>>
           /\ m_state = "PREPARE_SNAPSHOT" => UNCHANGED <<m_state, phase>>
           /\ m_state \in {"RECORDING", "VIDEO_PIC_TAKING"} => m_state' \in {"RECORDING", "VIDEO_PIC_TAKING"}
  PROVE  Row(evt, b)
<1>1. evt # "STOP_CAPTURE_CHANNEL"
  BY DEF CallEvents, SetEvents, PlayEvents, RecordEvents, PictureEvents, CommandEvents
<1>2. MachineOK'
  BY DEF MachineOK, Others
<1>3. RowAnswer(evt)
  BY DEF RowAnswer
<1>4. RowMoves(evt)
  BY <1>1 DEF RowMoves, Posted
<1> QED
  BY <1>2, <1>3, <1>4 DEF Row, Others

\* A row that answers and changes nothing but the settings
LEMMA StayRow ==
  ASSUME NEW evt \in CallEvents, NEW b \in BOOLEAN, RowPre(evt, b), RowFrame,
         NEW ok \in BOOLEAN, Answers(evt, ok), Others(evt),
         UNCHANGED <<m_state, phase, channels>>,
         evt = "SET_PARAMS_STOP" => m_state \notin {"PREVIEW_READY", "PREVIEWING", "PREVIEW_PIC_TAKING"},
         evt = "SET_PARAMS_RESTART" => m_state \notin {"PREVIEWING", "PREVIEW_PIC_TAKING"},
         evt = "CANCEL_PICTURE" => m_state # "PREVIEW_PIC_TAKING"
  PROVE  Row(evt, b)
<1>1. MachineOK /\ LiveIsVideo
  BY DEF RowPre
<1>2. Untroubled' => Untroubled
  BY <1>1, ConstantsAssumption DEF MachineOK, ConstantsAssumption, Untroubled, RowFrame, Others, RowSettings
<1>3. RowChannels(evt, b)
  <2>1. StillBetween(evt, b) => b \/ m_state \in {"PREVIEW_STOPPED", "PIC_TAKING"}
    BY <1>1 DEF StillBetween, Stoppable, MachineOK, States
  <2>2. b /\ m_state \in {"PREVIEWING", "PREVIEW_PIC_TAKING"} => StillBetween(evt, b)
    BY DEF RowPre, StillBetween, Posted
  <2>3. restart' = restart
    BY DEF RowFrame
  <2> HIDE DEF StillBetween
  <2> QED
    BY <1>2, <2>1, <2>2, <2>3 DEF RowPre, RowChannels, StoppedIsEmpty, VideoRuns, FramesFlow
<1>4. LiveIsVideo'
  BY <1>1 DEF LiveIsVideo
<1>5. m_state' \in States /\ channels' \in Chan /\ phase' \in Phases
  BY <1>1 DEF MachineOK
<1> QED
  BY <1>3, <1>4, <1>5, AnswerRow

\* signalAPIResult of a call
LEMMA SignalFacts ==
  ASSUME NEW evt \in CallEvents, NEW ok, signalAPIResult(evt, ok),
         evt = "SET_PARAMS_STOP" => ok = Stoppable,
         evt = "SET_PARAMS_COMMIT" /\ ~ok => failures' # 0 \/ dead,
         evt = "PRE_TAKE_PICTURE" /\ ok /\ m_state = "PREVIEW_PIC_TAKING" => longshot
  PROVE  Answers(evt, ok)
<1>1. evt # "STOP_CAPTURE_CHANNEL"
  BY DEF CallEvents, SetEvents, PlayEvents, RecordEvents, PictureEvents, CommandEvents
<1> QED
  BY <1>1 DEF signalAPIResult, Answers

\* Nothing is set.
LEMMA QuietSettings ==
  ASSUME NEW evt, MachineOK, UNCHANGED <<params, settings>>,
         failures' \in 0 .. MaxFailures, failures' >= failures
  PROVE  Others(evt)
BY DEF MachineOK, Others, settings, RowSettings

\* A call is refused.
LEMMA RefuseRow ==
  ASSUME NEW evt \in CallEvents, NEW b \in BOOLEAN, RowPre(evt, b), RowFrame, Refuse(evt),
         evt = "SET_PARAMS_STOP" => ~Stoppable,
         evt = "SET_PARAMS_COMMIT" => m_state = "PREPARE_SNAPSHOT",
         evt = "SET_PARAMS_RESTART" => m_state \notin {"PREVIEWING", "PREVIEW_PIC_TAKING"},
         evt = "CANCEL_PICTURE" => m_state # "PREVIEW_PIC_TAKING"
  PROVE  Row(evt, b)
<1>1. MachineOK /\ failures' = failures
  BY DEF RowPre, Refuse, Quiet
<1>2. failures' \in 0 .. MaxFailures /\ failures' >= failures
  BY <1>1, ConstantsAssumption DEF MachineOK, ConstantsAssumption
<1>3. Others(evt)
  BY <1>1, <1>2, QuietSettings DEF Refuse
<1>4. Answers(evt, FALSE)
  <2>1. evt = "SET_PARAMS_STOP" => FALSE = Stoppable
    BY DEF Stoppable
  <2>2. evt = "SET_PARAMS_COMMIT" => dead
    BY DEF RowPre
  <2> QED
    BY <2>1, <2>2, SignalFacts DEF Refuse
<1> QED
  BY <1>3, <1>4, StayRow DEF Refuse, Quiet, Stoppable

\* A call is answered with no change.
LEMMA AcceptRow ==
  ASSUME NEW evt \in CallEvents, NEW b \in BOOLEAN, RowPre(evt, b), RowFrame, Accept(evt),
         evt \notin {"SET_PARAMS_STOP", "SET_PARAMS_RESTART"},
         evt = "PRE_TAKE_PICTURE" /\ m_state = "PREVIEW_PIC_TAKING" => longshot,
         evt = "CANCEL_PICTURE" => m_state # "PREVIEW_PIC_TAKING"
  PROVE  Row(evt, b)
<1>1. MachineOK /\ failures' = failures
  BY DEF RowPre, Accept, Quiet
<1>2. failures' \in 0 .. MaxFailures /\ failures' >= failures
  BY <1>1, ConstantsAssumption DEF MachineOK, ConstantsAssumption
<1>3. Others(evt)
  BY <1>1, <1>2, QuietSettings DEF Accept
<1>4. Answers(evt, TRUE)
  BY SignalFacts DEF Accept
<1> QED
  BY <1>3, <1>4, StayRow DEF Accept, Quiet

\* SET_PARAMS where the preview can be restarted
LEMMA SetParamsRow ==
  ASSUME NEW b \in BOOLEAN, RowPre("SET_PARAMS", b), RowFrame, SetParams
  PROVE  Row("SET_PARAMS", b)
<1>1. MachineOK
  BY DEF RowPre
<1>2. PICK ok \in BOOLEAN :
        /\ updateParameters(ok)
        /\ signalAPIResult("SET_PARAMS", ok)
        /\ Quiet /\ UNCHANGED <<m_state, params, window, longshot>>
  BY DEF SetParams
<1>3. newParams' \in Param /\ needRestart' \in BOOLEAN
  BY <1>1, <1>2 DEF updateParameters, Param, MachineOK
<1>4. Others("SET_PARAMS")
  BY <1>1, <1>2, <1>3, ConstantsAssumption
     DEF ConstantsAssumption, Others, RowSettings, MachineOK, Quiet, Posted, CommandEvents, PlayEvents
<1>5. "SET_PARAMS" \in CallEvents
  BY DEF CallEvents, SetEvents
<1>6. Answers("SET_PARAMS", ok)
  BY <1>2, <1>5, SignalFacts
<1> QED
  BY <1>2, <1>4, <1>5, <1>6, StayRow DEF Quiet

\* SET_PARAMS while a video is recorded
LEMMA SetParamsRecordingRow ==
  ASSUME NEW b \in BOOLEAN, RowPre("SET_PARAMS", b), RowFrame, SetParamsRecording
  PROVE  Row("SET_PARAMS", b)
<1>1. MachineOK
  BY DEF RowPre
<1>2. PICK ok \in BOOLEAN, n \in BOOLEAN :
        /\ newParams' \in (IF ok THEN [zsl : BOOLEAN, hint : BOOLEAN] ELSE {newParams})
        /\ needRestart' = FALSE
        /\ signalAPIResult("SET_PARAMS", ok /\ ~n)
        /\ Quiet /\ UNCHANGED <<m_state, params, window, longshot>>
  BY DEF SetParamsRecording
<1>3. newParams' \in Param /\ needRestart' \in BOOLEAN
  BY <1>1, <1>2 DEF Param, MachineOK
<1>4. Others("SET_PARAMS")
  BY <1>1, <1>2, <1>3, ConstantsAssumption
     DEF ConstantsAssumption, Others, RowSettings, MachineOK, Quiet, Posted, CommandEvents, PlayEvents
<1>5. "SET_PARAMS" \in CallEvents
  BY DEF CallEvents, SetEvents
<1>6. Answers("SET_PARAMS", ok /\ ~n)
  BY <1>2, <1>5, SignalFacts
<1> QED
  BY <1>2, <1>4, <1>5, <1>6, StayRow DEF Quiet

\* SET_PARAMS_COMMIT: a commit that fails is counted.
LEMMA CommitRow ==
  ASSUME NEW b \in BOOLEAN, RowPre("SET_PARAMS_COMMIT", b), RowFrame, commitParameterChanges
  PROVE  Row("SET_PARAMS_COMMIT", b)
<1>1. MachineOK
  BY DEF RowPre
<1>2. PICK ok \in BOOLEAN :
        /\ Reply("SET_PARAMS_COMMIT", Outcome(ok, channels), m_state)
        /\ params' = IF ok THEN newParams ELSE params
        /\ UNCHANGED <<settings, phase>>
  BY DEF commitParameterChanges
<1> DEFINE o == Outcome(ok, channels)
<1>3. o.ok = ok /\ o.ch = channels /\ o.possible = TRUE
  BY OutcomeOf
<1>4. Came(o) /\ channels' = o.ch /\ m_state' = m_state /\ signalAPIResult("SET_PARAMS_COMMIT", o.ok)
  BY <1>2 DEF Reply
<1> HIDE DEF o
<1>5. /\ failures' \in 0 .. MaxFailures /\ failures' >= failures
      /\ ~ok => failures' # 0 \/ dead
  <2>1. o.ok \in BOOLEAN /\ o.possible \in BOOLEAN
    BY <1>3
  <2>2. /\ failures' \in 0 .. MaxFailures /\ failures' >= failures
        /\ o.possible /\ ~o.ok => failures' # 0 \/ dead
    BY <1>1, <1>4, <2>1, CameFacts
  <2> QED
    BY <1>3, <2>2
<1>6. Others("SET_PARAMS_COMMIT")
  BY <1>1, <1>2, <1>5 DEF Others, RowSettings, MachineOK, settings, CommandEvents, PlayEvents
<1>7. "SET_PARAMS_COMMIT" \in CallEvents
  BY DEF CallEvents, SetEvents
<1>8. Answers("SET_PARAMS_COMMIT", ok)
  BY <1>3, <1>5, <1>7, <1>4, SignalFacts
<1>9. UNCHANGED <<m_state, phase, channels>>
  BY <1>2, <1>3, <1>4
<1> QED
  BY <1>6, <1>7, <1>8, <1>9, StayRow

\* Done and Reply
LEMMA DoneFacts ==
  ASSUME NEW evt \in CallEvents, NEW c, NEW s, MachineOK, Done(evt, c, s),
         evt = "SET_PARAMS_STOP" => Stoppable,
         evt = "PRE_TAKE_PICTURE" /\ m_state = "PREVIEW_PIC_TAKING" => longshot
  PROVE  /\ channels' = c /\ m_state' = s
         /\ failures' \in 0 .. MaxFailures /\ failures' >= failures
         /\ Answers(evt, TRUE)
<1>1. evt = "SET_PARAMS_STOP" => TRUE = Stoppable
  BY DEF Stoppable
<1>2. Answers(evt, TRUE)
  BY <1>1, SignalFacts DEF Done
<1>3. failures' \in 0 .. MaxFailures /\ failures' >= failures
  BY ConstantsAssumption DEF ConstantsAssumption, MachineOK, Done
<1> QED
  BY <1>2, <1>3 DEF Done

\* The outcome of an operation is answered.
LEMMA ReplyFacts ==
  ASSUME NEW evt \in CallEvents \ {"SET_PARAMS_STOP", "SET_PARAMS_COMMIT"}, NEW o, NEW s,
         o.ok \in BOOLEAN, o.possible \in BOOLEAN, MachineOK, Reply(evt, o, s),
         evt = "PRE_TAKE_PICTURE" /\ m_state = "PREVIEW_PIC_TAKING" => longshot
  PROVE  /\ channels' = o.ch /\ m_state' = s
         /\ failures' \in 0 .. MaxFailures /\ failures' >= failures
         /\ o.possible /\ ~o.ok => failures' # 0 \/ dead
         /\ Answers(evt, o.ok)
<1>1. Answers(evt, o.ok)
  BY SignalFacts DEF Reply
<1> QED
  BY <1>1, CameFacts DEF Reply

\* SET_PARAMS_STOP stops the preview, or finds the machine stopped.
LEMMA StopRow ==
  ASSUME NEW b \in BOOLEAN, RowPre("SET_PARAMS_STOP", b), RowFrame, NEW c \in Chan, StopForParams(c),
         Stoppable, ~restart => Empty(c)
  PROVE  Row("SET_PARAMS_STOP", b)
<1> DEFINE evt == "SET_PARAMS_STOP"
<1>1. MachineOK /\ LiveIsVideo
  BY DEF RowPre
<1>2. evt \in CallEvents
  BY DEF CallEvents, SetEvents
<1>3. /\ channels' = c /\ m_state' = m_state /\ Answers(evt, TRUE)
      /\ failures' \in 0 .. MaxFailures /\ failures' >= failures
  BY <1>1, <1>2, DoneFacts DEF StopForParams
<1>4. Others(evt)
  BY <1>1, <1>3, QuietSettings DEF StopForParams
<1>5. RowChannels(evt, b)
  BY <1>3 DEF RowChannels, StillBetween, StoppedIsEmpty, VideoRuns, FramesFlow, Stoppable
<1>6. LiveIsVideo' /\ phase' = phase
  BY <1>1, <1>3 DEF LiveIsVideo, StopForParams
<1>7. m_state' \in States /\ channels' \in Chan /\ phase' \in Phases
  BY <1>1, <1>3, <1>6 DEF MachineOK
<1> HIDE DEF evt
<1> QED
  BY <1>2, <1>3, <1>4, <1>5, <1>6, <1>7, AnswerRow DEF evt

\* SET_PARAMS_RESTART prepares the preview again, and starts it but for a
\* preview that is ready only.
LEMMA RestartRow ==
  ASSUME NEW b \in BOOLEAN, RowPre("SET_PARAMS_RESTART", b), RowFrame,
         NEW o, NEW s \in States, RestartForParams(o, s),
         o.ok \in BOOLEAN, o.ch \in Chan, o.possible = TRUE,
         ~o.ok /\ Empty(channels) => Empty(o.ch),
         m_state # "PREVIEW_READY" /\ o.ok => Up(o.ch),
         m_state \in {"PREVIEW_READY", "PREVIEWING", "PREVIEW_PIC_TAKING"},
         s = m_state \/ (~o.ok /\ s \in {"PREVIEW_STOPPED", "PIC_TAKING"}),
         phase' \in {phase, "idle"}
  PROVE  Row("SET_PARAMS_RESTART", b)
<1> DEFINE evt == "SET_PARAMS_RESTART"
<1>1. MachineOK /\ LiveIsVideo /\ b
  BY DEF RowPre
<1>2. evt \in CallEvents \ {"SET_PARAMS_STOP", "SET_PARAMS_COMMIT"}
  BY DEF CallEvents, SetEvents
<1>3. /\ channels' = o.ch /\ m_state' = s /\ Answers(evt, o.ok)
      /\ failures' \in 0 .. MaxFailures /\ failures' >= failures
      /\ ~o.ok => failures' # 0 \/ dead
  <2>1. Reply(evt, o, s) /\ o.possible \in BOOLEAN
    BY DEF RestartForParams
  <2> QED
    BY <1>1, <1>2, <2>1, ReplyFacts
<1>4. Others(evt)
  BY <1>1, <1>3 DEF Others, RowSettings, RestartForParams, endLongshot, MachineOK, Posted, Param, CommandEvents, PlayEvents
<1>5. RowChannels(evt, b)
  <2>1. StillBetween(evt, b) = FALSE
    BY DEF StillBetween, Posted
  <2>2. ~restart => Empty(channels)
    BY <1>1 DEF RowPre, StoppedIsEmpty
  <2>3. Untroubled' => o.ok
    BY <1>3 DEF Untroubled, RowFrame
  <2>4. s \notin {"PREPARE_SNAPSHOT", "RECORDING", "VIDEO_PIC_TAKING"}
    OBVIOUS
  <2>5. StoppedIsEmpty(FALSE, s, o.ch)
    BY <2>2 DEF StoppedIsEmpty
  <2>6. Untroubled' => FramesFlow(FALSE, s, o.ch)
    BY <2>3, <2>4 DEF FramesFlow
  <2>7. VideoRuns(s, o.ch)
    BY <2>4 DEF VideoRuns
  <2> QED
    BY <1>3, <2>1, <2>5, <2>6, <2>7 DEF RowChannels
<1>6. LiveIsVideo'
  BY <1>1, <1>3 DEF LiveIsVideo
<1>7. m_state' \in States /\ channels' \in Chan /\ phase' \in Phases
  BY <1>1, <1>3 DEF MachineOK, Phases
<1>8. m_state' = "PREVIEW_PIC_TAKING" => m_state = m_state'
  BY <1>3
<1>9. m_state' = "PREPARE_SNAPSHOT" => m_state = m_state'
  BY <1>3
<1> HIDE DEF evt
<1> QED
  BY <1>2, <1>3, <1>4, <1>5, <1>6, <1>7, <1>8, <1>9, AnswerRow DEF evt

\* LONGSHOT_OFF cancels at most the picture, and brings a machine that takes
\* one back to the preview.
LEMMA LongshotOffRow ==
  ASSUME NEW b \in BOOLEAN, RowPre("LONGSHOT_OFF", b), RowFrame, NEW s, LongshotOff(s),
         \/ s = m_state /\ ~isCaptureRunning
         \/ s = m_state /\ m_state = "VIDEO_PIC_TAKING"
         \/ s = "PREVIEWING" /\ m_state \in {"PIC_TAKING", "PREVIEW_PIC_TAKING"}
  PROVE  Row("LONGSHOT_OFF", b)
<1> DEFINE evt == "LONGSHOT_OFF"
           c   == IF longshot /\ isCaptureRunning THEN cancelPicture(channels, params) ELSE channels
<1>1. MachineOK /\ LiveIsVideo /\ b = FALSE
  BY DEF RowPre, Posted
<1>2. evt \in CallEvents
  BY DEF CallEvents, CommandEvents
<1>3. /\ channels' = c /\ m_state' = s /\ Answers(evt, TRUE)
      /\ failures' \in 0 .. MaxFailures /\ failures' >= failures
  <2>1. Done(evt, c, s)
    BY DEF LongshotOff
  <2> HIDE DEF c
  <2> QED
    BY <1>1, <1>2, <2>1, DoneFacts
<1>4. c \in Chan /\ c.zsl = channels.zsl /\ c.preview = channels.preview /\ c.video = channels.video
  BY <1>1, CancelFacts DEF MachineOK
<1>5. Others(evt)
  BY <1>1, <1>3 DEF Others, RowSettings, LongshotOff, MachineOK, Posted, CommandEvents, PlayEvents
<1> HIDE DEF c
<1>6. RowChannels(evt, b)
  <2>1. StillBetween(evt, b) = FALSE
    BY <1>1 DEF StillBetween
  <2>2. ~Untroubled'
    BY DEF RowPre, CommandEvents, Untroubled, RowFrame
  <2>3. StoppedIsEmpty(FALSE, s, c)
    BY <1>4 DEF RowPre, StoppedIsEmpty, Empty, isCaptureRunning
  <2>4. VideoRuns(s, c)
    BY <1>4 DEF RowPre, VideoRuns
  <2> QED
    BY <1>3, <2>1, <2>2, <2>3, <2>4 DEF RowChannels
<1>7. phase' \in {phase, "idle"}
  BY DEF LongshotOff
<1>8. LiveIsVideo'
  BY <1>1, <1>3, <1>7 DEF LiveIsVideo
<1>9. m_state' \in States /\ channels' \in Chan /\ phase' \in Phases
  BY <1>1, <1>3, <1>4, <1>7 DEF MachineOK, Phases, States
<1>10. m_state' = "PREVIEW_PIC_TAKING" => m_state = m_state'
  BY <1>3
<1>11. m_state' = "PREPARE_SNAPSHOT" => m_state = m_state'
  BY <1>3
<1> HIDE DEF evt
<1> QED
  BY <1>2, <1>3, <1>5, <1>6, <1>7, <1>8, <1>9, <1>10, <1>11, AnswerRow DEF evt

\* LONGSHOT_ON where it changes nothing else
LEMMA LongshotOnRow ==
  ASSUME NEW b \in BOOLEAN, RowPre("LONGSHOT_ON", b), RowFrame,
         Done("LONGSHOT_ON", channels, m_state), LongshotOn
  PROVE  Row("LONGSHOT_ON", b)
<1> DEFINE evt == "LONGSHOT_ON"
<1>1. MachineOK
  BY DEF RowPre
<1>2. evt \in CallEvents
  BY DEF CallEvents, CommandEvents
<1>3. /\ channels' = channels /\ m_state' = m_state /\ Answers(evt, TRUE)
      /\ failures' \in 0 .. MaxFailures /\ failures' >= failures
  BY <1>1, <1>2, DoneFacts
<1>4. Others(evt)
  BY <1>1, <1>3 DEF Others, RowSettings, LongshotOn, MachineOK, Posted
<1>5. UNCHANGED <<m_state, phase, channels>>
  BY <1>3 DEF LongshotOn
<1> HIDE DEF evt
<1> QED
  BY <1>2, <1>3, <1>4, <1>5, StayRow DEF evt

-----------------------------------------------------------------------------
(* PREVIEW_STOPPED                                                         *)

\* SET_PARAMS_RESTART of a machine without a preview
LEMMA StoppedRestartRow ==
  ASSUME NEW b \in BOOLEAN, RowPre("SET_PARAMS_RESTART", b), RowFrame, StoppedRestart,
         m_state \in {"PREVIEW_STOPPED", "PIC_TAKING"}
  PROVE  Row("SET_PARAMS_RESTART", b)
<1> DEFINE evt == "SET_PARAMS_RESTART"
<1>1. MachineOK
  BY DEF RowPre
<1>2. evt \in CallEvents
  BY DEF CallEvents, SetEvents
<1>3. /\ channels' = channels /\ m_state' = m_state /\ Answers(evt, TRUE)
      /\ failures' \in 0 .. MaxFailures /\ failures' >= failures
  BY <1>1, <1>2, DoneFacts DEF StoppedRestart
<1>4. Others(evt)
  BY <1>1, <1>3 DEF Others, RowSettings, StoppedRestart, MachineOK, Posted
<1>5. UNCHANGED <<m_state, phase, channels>>
  BY <1>3 DEF StoppedRestart
<1> HIDE DEF evt
<1> QED
  BY <1>2, <1>3, <1>4, <1>5, StayRow DEF evt

\* SET_PREVIEW_WINDOW where it only notes the window
LEMMA WindowRow ==
  ASSUME NEW b \in BOOLEAN, RowPre("SET_PREVIEW_WINDOW", b), RowFrame,
         window' \in BOOLEAN, Done("SET_PREVIEW_WINDOW", channels, m_state),
         UNCHANGED <<params, newParams, needRestart, longshot, phase>>
  PROVE  Row("SET_PREVIEW_WINDOW", b)
<1> DEFINE evt == "SET_PREVIEW_WINDOW"
<1>1. MachineOK
  BY DEF RowPre
<1>2. evt \in CallEvents
  BY DEF CallEvents
<1>3. /\ channels' = channels /\ m_state' = m_state /\ Answers(evt, TRUE)
      /\ failures' \in 0 .. MaxFailures /\ failures' >= failures
  BY <1>1, <1>2, DoneFacts
<1>4. Others(evt)
  BY <1>1, <1>3 DEF Others, RowSettings, MachineOK, Posted
<1>5. UNCHANGED <<m_state, phase, channels>>
  BY <1>3
<1> HIDE DEF evt
<1> QED
  BY <1>2, <1>3, <1>4, <1>5, StayRow DEF evt

\* A call that starts the preview, prepares it, or undoes what it began
LEMMA StartPreviewRow ==
  ASSUME NEW evt \in PlayEvents \cup {"SET_PREVIEW_WINDOW"}, NEW b \in BOOLEAN, RowPre(evt, b), RowFrame,
         NEW ok \in BOOLEAN, Answers(evt, ok), phase' = phase,
         failures' \in 0 .. MaxFailures, failures' >= failures,
         UNCHANGED <<params, newParams, needRestart>>, window' \in BOOLEAN, longshot' \in BOOLEAN,
         longshot' => longshot, longshot /\ ~longshot' => evt \in PlayEvents,
         m_state \in {"PREVIEW_STOPPED", "PREVIEW_READY"},
         channels' \in Chan,
         \/ m_state' = "PREVIEW_STOPPED" /\ (~restart => Empty(channels'))
         \/ m_state' = "PREVIEW_READY"
         \/ m_state' = "PREVIEWING" /\ Up(channels')
  PROVE  Row(evt, b)
<1>1. MachineOK /\ LiveIsVideo /\ b = FALSE
  BY DEF RowPre, PlayEvents, Posted
<1>2. evt \in CallEvents /\ evt \notin {"CANCEL_PICTURE", "TAKE_PICTURE", "SET_PARAMS_STOP"}
  BY DEF CallEvents, PlayEvents
<1>3. Others(evt)
  BY <1>1 DEF Others, RowSettings, MachineOK, Posted, PlayEvents, CommandEvents, isCaptureRunning
<1>4. RowChannels(evt, b)
  BY <1>1, <1>2 DEF RowChannels, StillBetween, StoppedIsEmpty, VideoRuns, FramesFlow
<1>5. LiveIsVideo'
  BY <1>1 DEF LiveIsVideo
<1>6. m_state' \in States /\ phase' \in Phases
  BY <1>1 DEF MachineOK, States
<1> QED
  BY <1>1, <1>2, <1>3, <1>4, <1>5, <1>6, AnswerRow

\* start_preview of a stopped machine
LEMMA StoppedStartRow ==
  ASSUME NEW evt \in PlayEvents, NEW b \in BOOLEAN, RowPre(evt, b), RowFrame,
         m_state = "PREVIEW_STOPPED", StoppedStartPreview(evt)
  PROVE  Row(evt, b)
<1>1. MachineOK /\ (~restart => Empty(channels))
  BY DEF RowPre, StoppedIsEmpty
<1>2. evt \in CallEvents \ {"SET_PARAMS_STOP", "SET_PARAMS_COMMIT"}
  BY DEF CallEvents, PlayEvents
<1>3. longshot' \in BOOLEAN /\ (longshot' => longshot) /\ window' \in BOOLEAN
  BY <1>1 DEF StoppedStartPreview, endLongshot, MachineOK, Param
<1>4. channels \in Chan /\ params \in Param
  BY <1>1 DEF MachineOK
<1>5. CASE \E o \in preparePreview(channels, params) :
             Reply(evt, o, IF o.ok THEN "PREVIEW_READY" ELSE m_state)
  <2>1. PICK o \in preparePreview(channels, params) :
               Reply(evt, o, IF o.ok THEN "PREVIEW_READY" ELSE m_state)
    BY <1>5
  <2>2. /\ o.ok \in BOOLEAN /\ o.ch \in Chan /\ o.possible \in BOOLEAN
        /\ ~o.ok /\ Empty(channels) => Empty(o.ch)
    BY <1>4, PrepareFacts
  <2>3. /\ channels' = o.ch /\ m_state' = (IF o.ok THEN "PREVIEW_READY" ELSE m_state)
        /\ failures' \in 0 .. MaxFailures /\ failures' >= failures
        /\ Answers(evt, o.ok)
    BY <1>1, <1>2, <2>1, <2>2, ReplyFacts
  <2> QED
    BY <1>1, <1>3, <2>2, <2>3, StartPreviewRow DEF StoppedStartPreview
<1>6. CASE \E o \in PrepareAndStart(channels, params, TRUE) :
             Reply(evt, o, IF o.ok THEN "PREVIEWING" ELSE m_state)
  <2>1. PICK o \in PrepareAndStart(channels, params, TRUE) :
               Reply(evt, o, IF o.ok THEN "PREVIEWING" ELSE m_state)
    BY <1>6
  <2>2. /\ o.ok \in BOOLEAN /\ o.ch \in Chan /\ o.possible \in BOOLEAN
        /\ ~o.ok /\ Empty(channels) => Empty(o.ch)
        /\ o.ok => Up(o.ch)
    BY <1>4, PrepareAndStartFacts
  <2>3. /\ channels' = o.ch /\ m_state' = (IF o.ok THEN "PREVIEWING" ELSE m_state)
        /\ failures' \in 0 .. MaxFailures /\ failures' >= failures
        /\ Answers(evt, o.ok)
    BY <1>1, <1>2, <2>1, <2>2, ReplyFacts
  <2> QED
    BY <1>1, <1>3, <2>2, <2>3, StartPreviewRow DEF StoppedStartPreview
<1> QED
  BY <1>5, <1>6 DEF StoppedStartPreview

\* release() leaves no channel.
LEMMA ReleaseRow ==
  ASSUME NEW b \in BOOLEAN, RowPre("RELEASE", b), RowFrame, m_state = "PREVIEW_STOPPED", Release
  PROVE  Row("RELEASE", b)
<1> DEFINE evt == "RELEASE"
           c   == [k \in DOMAIN channels |-> "none"]
<1>1. MachineOK /\ LiveIsVideo
  BY DEF RowPre
<1>2. evt \in CallEvents
  BY DEF CallEvents
<1>3. c \in Chan /\ Empty(c)
  BY <1>1 DEF MachineOK, Chan, Empty
<1>4. /\ channels' = c /\ m_state' = m_state /\ Answers(evt, TRUE)
      /\ failures' \in 0 .. MaxFailures /\ failures' >= failures
  <2>1. Done(evt, c, m_state)
    BY DEF Release
  <2> HIDE DEF c
  <2> QED
    BY <1>1, <1>2, <2>1, DoneFacts
<1> HIDE DEF c
<1>5. Others(evt)
  BY <1>1, <1>4, QuietSettings DEF Release
<1>6. RowChannels(evt, b)
  BY <1>3, <1>4 DEF RowChannels, StoppedIsEmpty, VideoRuns, FramesFlow
<1>7. LiveIsVideo'
  BY <1>1, <1>4 DEF LiveIsVideo, Release
<1>8. m_state' \in States /\ channels' \in Chan /\ phase' \in Phases /\ phase' = phase
  BY <1>1, <1>3, <1>4 DEF MachineOK, Release
<1> HIDE DEF evt
<1> QED
  BY <1>2, <1>4, <1>5, <1>6, <1>7, <1>8, AnswerRow DEF evt

\* Every event in PREVIEW_STOPPED
LEMMA PreviewStoppedRows ==
  ASSUME NEW evt, NEW b \in BOOLEAN, RowPre(evt, b), RowFrame,
         m_state = "PREVIEW_STOPPED", procEvtPreviewStoppedState(evt)
  PROVE  Row(evt, b)
<1>1. CASE evt = "SET_PREVIEW_WINDOW" /\ StoppedSetWindow
  BY <1>1, WindowRow DEF StoppedSetWindow
<1>2. CASE evt = "SET_PARAMS" /\ SetParams
  BY <1>2, SetParamsRow
<1>3. CASE evt = "SET_PARAMS_STOP" /\ StopForParams(channels)
  <2>1. channels \in Chan /\ (~restart => Empty(channels)) /\ Stoppable
    BY DEF RowPre, StoppedIsEmpty, MachineOK, Stoppable
  <2> QED
    BY <1>3, <2>1, StopRow
<1>4. CASE evt = "SET_PARAMS_COMMIT" /\ commitParameterChanges
  BY <1>4, CommitRow
<1>5. CASE evt = "SET_PARAMS_RESTART" /\ StoppedRestart
  BY <1>5, StoppedRestartRow
<1>6. CASE evt \in PlayEvents /\ StoppedStartPreview(evt)
  BY <1>6, StoppedStartRow
<1>7. CASE evt = "RELEASE" /\ Release
  BY <1>7, ReleaseRow
<1>8. CASE evt \in RecordEvents \cup PictureEvents /\ Refuse(evt)
  <2>1. evt \in CallEvents \ ({"CANCEL_PICTURE"} \cup SetEvents)
    BY <1>8 DEF CallEvents, RecordEvents, PictureEvents, SetEvents
  <2> QED
    BY <1>8, <2>1, RefuseRow DEF SetEvents
<1>9. CASE evt \in {"STOP_PREVIEW", "CANCEL_PICTURE", "PLAIN"} /\ Accept(evt)
  <2>1. evt \in CallEvents
    BY <1>9 DEF CallEvents
  <2> QED
    BY <1>9, <2>1, AcceptRow
<1>10. CASE evt = "LONGSHOT_ON" /\ Done(evt, channels, m_state) /\ LongshotOn
  BY <1>10, LongshotOnRow
<1>11. CASE evt = "LONGSHOT_OFF" /\ LongshotOff(m_state)
  BY <1>11, LongshotOffRow DEF isCaptureRunning
<1> QED
  BY <1>1, <1>2, <1>3, <1>4, <1>5, <1>6, <1>7, <1>8, <1>9, <1>10, <1>11 DEF procEvtPreviewStoppedState

-----------------------------------------------------------------------------
(* PREVIEW_READY                                                           *)

\* The preview that is ready starts, or goes.
LEMMA ReadyStartRow ==
  ASSUME NEW evt \in PlayEvents \cup {"SET_PREVIEW_WINDOW"}, NEW b \in BOOLEAN, RowPre(evt, b), RowFrame,
         m_state = "PREVIEW_READY", ReadyStart(evt), window' \in BOOLEAN
  PROVE  Row(evt, b)
<1>1. MachineOK
  BY DEF RowPre
<1>2. evt \in CallEvents \ {"SET_PARAMS_STOP", "SET_PARAMS_COMMIT", "PRE_TAKE_PICTURE"}
  BY DEF CallEvents, PlayEvents
<1>3. PICK o \in startPreview(channels, params) :
        /\ Came(o)
        /\ channels' = IF o.ok THEN o.ch ELSE unpreparePreview(o.ch)
        /\ m_state' = IF o.ok THEN "PREVIEWING" ELSE "PREVIEW_STOPPED"
        /\ signalAPIResult(evt, o.ok \/ evt \in PlayEvents)
        /\ UNCHANGED <<params, newParams, needRestart, longshot, phase>>
  BY DEF ReadyStart
<1>4. o.ok \in BOOLEAN /\ o.ch \in Chan /\ o.possible \in BOOLEAN /\ (o.ok => Up(o.ch))
  BY <1>1, StartFacts DEF MachineOK
<1>5. failures' \in 0 .. MaxFailures /\ failures' >= failures
  BY <1>1, <1>3, <1>4, CameFacts
<1>6. channels' \in Chan /\ (~o.ok => Empty(channels'))
  BY <1>3, <1>4, UnprepareFacts
<1>7. PICK ok \in BOOLEAN : Answers(evt, ok)
  <2>1. PICK ok \in BOOLEAN : signalAPIResult(evt, ok)
    BY <1>3
  <2> QED
    BY <1>2, <2>1, SignalFacts
<1>8. longshot' \in BOOLEAN /\ longshot' = longshot
  BY <1>1, <1>3 DEF MachineOK
<1>9. \/ m_state' = "PREVIEW_STOPPED" /\ Empty(channels')
      \/ m_state' = "PREVIEWING" /\ Up(channels')
  BY <1>3, <1>4, <1>6
<1> QED
  BY <1>3, <1>5, <1>6, <1>7, <1>8, <1>9, StartPreviewRow

\* A call that stops the preview
LEMMA StopPreviewRow ==
  ASSUME NEW b \in BOOLEAN, RowPre("STOP_PREVIEW", b), RowFrame, NEW c \in Chan,
         Done("STOP_PREVIEW", c, "PREVIEW_STOPPED"), ~restart => Empty(c),
         phase' = "idle" \/ (phase' = phase /\ m_state # "VIDEO_PIC_TAKING"),
         UNCHANGED <<params, settings>>
  PROVE  Row("STOP_PREVIEW", b)
<1> DEFINE evt == "STOP_PREVIEW"
<1>1. MachineOK /\ LiveIsVideo /\ b = FALSE
  BY DEF RowPre, Posted
<1>2. evt \in CallEvents
  BY DEF CallEvents
<1>3. /\ channels' = c /\ m_state' = "PREVIEW_STOPPED" /\ Answers(evt, TRUE)
      /\ failures' \in 0 .. MaxFailures /\ failures' >= failures
  BY <1>1, <1>2, DoneFacts
<1>4. Others(evt)
  BY <1>1, <1>3, QuietSettings
<1>5. RowChannels(evt, b)
  BY <1>1, <1>3 DEF RowChannels, StillBetween, StoppedIsEmpty, VideoRuns, FramesFlow
<1>6. LiveIsVideo'
  BY <1>1 DEF LiveIsVideo
<1>7. m_state' \in States /\ channels' \in Chan /\ phase' \in Phases /\ phase' \in {"idle", phase}
  BY <1>1, <1>3 DEF MachineOK, Phases, States
<1> HIDE DEF evt
<1> QED
  BY <1>2, <1>3, <1>4, <1>5, <1>6, <1>7, AnswerRow DEF evt

\* Every event in PREVIEW_READY
LEMMA PreviewReadyRows ==
  ASSUME NEW evt, NEW b \in BOOLEAN, RowPre(evt, b), RowFrame,
         m_state = "PREVIEW_READY", procEvtPreviewReadyState(evt)
  PROVE  Row(evt, b)
<1>0. MachineOK /\ channels \in Chan /\ params \in Param
  BY DEF RowPre, MachineOK
<1>1. CASE evt = "SET_PREVIEW_WINDOW" /\ ReadySetWindow
  <2>1. CASE window' = TRUE /\ ReadyStart("SET_PREVIEW_WINDOW")
    BY <1>1, <2>1, ReadyStartRow
  <2>2. CASE ~(window' = TRUE /\ ReadyStart("SET_PREVIEW_WINDOW"))
    BY <1>1, <2>2, WindowRow DEF ReadySetWindow
  <2> QED
    BY <2>1, <2>2
<1>2. CASE evt = "SET_PARAMS" /\ SetParams
  BY <1>2, SetParamsRow
<1>3. CASE evt = "SET_PARAMS_STOP" /\ StopForParams(unpreparePreview(channels))
  BY <1>0, <1>3, UnprepareFacts, StopRow DEF Stoppable
<1>4. CASE evt = "SET_PARAMS_COMMIT" /\ commitParameterChanges
  BY <1>4, CommitRow
<1>5. CASE evt = "SET_PARAMS_RESTART" /\ ReadyRestart
  <2>1. PICK o \in preparePreview(channels, params) :
          /\ RestartForParams(o, IF o.ok THEN m_state ELSE "PREVIEW_STOPPED")
          /\ UNCHANGED phase
    BY <1>5 DEF ReadyRestart
  <2>2. /\ o.ok \in BOOLEAN /\ o.ch \in Chan /\ o.possible = TRUE
        /\ ~o.ok /\ Empty(channels) => Empty(o.ch)
    BY <1>0, PrepareFacts
  <2> DEFINE s == IF o.ok THEN m_state ELSE "PREVIEW_STOPPED"
  <2>3. s \in States /\ (s = m_state \/ (~o.ok /\ s \in {"PREVIEW_STOPPED", "PIC_TAKING"}))
    BY DEF States
  <2> QED
    BY <1>5, <2>1, <2>2, <2>3, RestartRow
<1>6. CASE evt \in PlayEvents /\ ReadyStartPreview(evt)
  <2>1. evt \in CallEvents
    BY <1>6 DEF CallEvents
  <2>2. CASE Accept(evt)
    BY <1>6, <2>1, <2>2, AcceptRow DEF PlayEvents
  <2>3. CASE ReadyStart(evt) /\ UNCHANGED window
    BY <1>0, <1>6, <2>3, ReadyStartRow DEF MachineOK
  <2> QED
    BY <1>6, <2>2, <2>3 DEF ReadyStartPreview
<1>7. CASE evt = "PLAIN" /\ Accept(evt)
  BY <1>7, AcceptRow DEF CallEvents
<1>8. CASE evt = "STOP_PREVIEW" /\ ReadyStop
  BY <1>0, <1>8, UnprepareFacts, StopPreviewRow DEF ReadyStop
<1>9. CASE evt \in RecordEvents \cup PictureEvents \cup {"CANCEL_PICTURE", "RELEASE"} /\ Refuse(evt)
  <2>1. evt \in CallEvents \ SetEvents
    BY <1>9 DEF CallEvents, RecordEvents, PictureEvents, SetEvents
  <2> QED
    BY <1>9, <2>1, RefuseRow DEF SetEvents
<1>10. CASE evt = "LONGSHOT_ON" /\ Done(evt, channels, m_state) /\ LongshotOn
  BY <1>10, LongshotOnRow
<1>11. CASE evt = "LONGSHOT_OFF" /\ LongshotOff(m_state)
  BY <1>11, LongshotOffRow DEF isCaptureRunning
<1> QED
  BY <1>1, <1>2, <1>3, <1>4, <1>5, <1>6, <1>7, <1>8, <1>9, <1>10, <1>11 DEF procEvtPreviewReadyState

-----------------------------------------------------------------------------
(* PREVIEWING                                                              *)

\* A row that puts its answer off
LEMMA DeferRow ==
  ASSUME NEW evt \in {"PREPARE_SNAPSHOT", "TAKE_PICTURE"}, NEW b \in BOOLEAN, RowPre(evt, b), RowFrame,
         Defers(evt), Others(evt), channels' \in Chan, RowChannels(evt, b)
  PROVE  Row(evt, b)
<1>1. MachineOK /\ LiveIsVideo
  BY DEF RowPre
<1>2. m_state' \in States /\ phase' \in Phases
  BY <1>1 DEF MachineOK, Defers, States, Phases
<1>3. MachineOK'
  BY <1>2 DEF MachineOK, Others
<1>4. LiveIsVideo'
  BY <1>1 DEF LiveIsVideo, Defers
<1>5. RowAnswer(evt)
  BY DEF RowAnswer
<1>6. /\ m_state' = "PREVIEW_PIC_TAKING" =>
           m_state = m_state' \/ (evt = "TAKE_PICTURE" /\ m_state = "PREVIEWING" /\ (retro => Defers(evt)))
      /\ m_state' = "PREPARE_SNAPSHOT" => m_state = m_state' \/ Defers(evt)
      /\ phase' = "preparing" => phase = "preparing" \/ (Defers(evt) /\ m_state = "PREVIEW_PIC_TAKING")
      /\ phase' = "retro" => phase = "retro" \/ (Defers(evt) /\ evt = "TAKE_PICTURE")
  BY DEF Defers
<1>7. evt \notin Posted \cup {"STOP_CAPTURE_CHANNEL", "CANCEL_PICTURE"}
  BY DEF Posted
<1>8. RowMoves(evt)
  BY <1>4, <1>6, <1>7 DEF RowMoves
<1> QED
  BY <1>3, <1>5, <1>8 DEF Row, Others

\* A preview that runs on, or whose failure was counted, while the machine
\* stays where it is
LEMMA PreviewRow ==
  ASSUME NEW evt \in {"PRE_START_RECORDING", "PRE_TAKE_PICTURE", "LONGSHOT_ON"},
         NEW b \in BOOLEAN, RowPre(evt, b), RowFrame,
         m_state \in {"PREVIEWING", "PREVIEW_PIC_TAKING"}, UNCHANGED <<m_state, phase>>,
         NEW ok \in BOOLEAN, Answers(evt, ok), channels' \in Chan,
         ok => Up(channels') \/ channels' = channels, ~ok => failures' # 0 \/ dead,
         Others(evt)
  PROVE  Row(evt, b)
<1>1. MachineOK /\ LiveIsVideo /\ b = FALSE
  BY DEF RowPre, Posted
<1>2. evt \in CallEvents /\ evt \notin {"SET_PARAMS_STOP", "CANCEL_PICTURE"}
  BY DEF CallEvents, RecordEvents, PictureEvents, CommandEvents
<1>3. Untroubled' => Untroubled /\ ok
  BY <1>1, ConstantsAssumption DEF MachineOK, ConstantsAssumption, Untroubled, RowFrame, Others, RowSettings
<1>4. Untroubled => Up(channels)
  BY <1>1 DEF RowPre, FramesFlow
<1>5. RowChannels(evt, b)
  BY <1>1, <1>2, <1>3, <1>4 DEF RowChannels, StillBetween, StoppedIsEmpty, VideoRuns, FramesFlow
<1>6. LiveIsVideo'
  BY <1>1 DEF LiveIsVideo
<1>7. m_state' \in States /\ phase' \in Phases
  BY <1>1 DEF MachineOK
<1> QED
  BY <1>2, <1>5, <1>6, <1>7, AnswerRow

\* The preview is restarted for a video, which may fail and is counted then.
LEMMA PreStartRecordingRow ==
  ASSUME NEW b \in BOOLEAN, RowPre("PRE_START_RECORDING", b), RowFrame,
         preStartRecording, UNCHANGED phase,
         m_state = "PREVIEWING" \/ (m_state = "PREVIEW_PIC_TAKING" /\ ~longshot)
  PROVE  Row("PRE_START_RECORDING", b)
<1> DEFINE evt == "PRE_START_RECORDING"
<1>1. MachineOK /\ channels \in Chan
  BY DEF RowPre, MachineOK
<1>2. evt \in CallEvents \ {"SET_PARAMS_STOP", "SET_PARAMS_COMMIT", "PRE_TAKE_PICTURE"}
  BY DEF CallEvents, RecordEvents
<1>3. CASE params.hint
  <2>1. Done(evt, channels, m_state) /\ UNCHANGED <<params, newParams, longshot, needRestart, window>>
    BY <1>3 DEF preStartRecording
  <2>2. /\ channels' = channels /\ m_state' = m_state /\ Answers(evt, TRUE)
        /\ failures' \in 0 .. MaxFailures /\ failures' >= failures
    BY <1>1, <1>2, <2>1, DoneFacts
  <2>3. Others(evt)
    BY <1>1, <2>1, <2>2 DEF Others, RowSettings, MachineOK, Posted
  <2> HIDE DEF evt
  <2> QED
    BY <1>1, <2>2, <2>3, PreviewRow DEF evt
<1>4. CASE ~params.hint
  <2> DEFINE p == [newParams EXCEPT !.hint = TRUE]
  <2>1. PICK o \in PrepareAndStart(stopPreview(channels), p, FALSE) :
          Reply(evt, o, m_state)
    BY <1>4 DEF preStartRecording
  <2>2. p \in Param
    BY <1>1 DEF MachineOK, Param
  <2>3. params' = p /\ newParams' = p /\ longshot' = FALSE /\ UNCHANGED <<needRestart, window>>
    BY <1>4 DEF preStartRecording
  <2> HIDE DEF p
  <2>4. o.ok \in BOOLEAN /\ o.ch \in Chan /\ o.possible = TRUE /\ o.possible \in BOOLEAN /\ (o.ok => Up(o.ch))
    BY <1>1, <2>2, UnprepareFacts, PrepareAndStartFacts DEF stopPreview
  <2>5. /\ channels' = o.ch /\ m_state' = m_state /\ Answers(evt, o.ok)
        /\ failures' \in 0 .. MaxFailures /\ failures' >= failures
        /\ ~o.ok => failures' # 0 \/ dead
    BY <1>1, <1>2, <2>1, <2>4, ReplyFacts
  <2>6. longshot /\ evt \in PlayEvents \cup {"PRE_START_RECORDING"} => ~isCaptureRunning
    BY DEF isCaptureRunning
  <2>7. Others(evt)
    BY <1>1, <2>2, <2>3, <2>5, <2>6 DEF Others, RowSettings, MachineOK, Posted
  <2> HIDE DEF evt
  <2> QED
    BY <2>4, <2>5, <2>7, PreviewRow DEF evt
<1> QED
  BY <1>3, <1>4

\* The preview is restarted for a picture.
LEMMA PreTakePictureRow ==
  ASSUME NEW b \in BOOLEAN, RowPre("PRE_TAKE_PICTURE", b), RowFrame, preTakePicture, m_state = "PREVIEWING"
  PROVE  Row("PRE_TAKE_PICTURE", b)
<1> DEFINE evt == "PRE_TAKE_PICTURE"
<1>1. MachineOK /\ channels \in Chan
  BY DEF RowPre, MachineOK
<1>2. evt \in CallEvents \ {"SET_PARAMS_STOP", "SET_PARAMS_COMMIT"}
  BY DEF CallEvents, PictureEvents
<1>3. CASE ~params.hint
  <2>1. Done(evt, channels, m_state) /\ UNCHANGED <<params, newParams, longshot, needRestart, window, phase>>
    BY <1>3 DEF preTakePicture
  <2>2. /\ channels' = channels /\ m_state' = m_state /\ Answers(evt, TRUE)
        /\ failures' \in 0 .. MaxFailures /\ failures' >= failures
    BY <1>1, <1>2, <2>1, DoneFacts
  <2>3. Others(evt)
    BY <1>1, <2>1, <2>2 DEF Others, RowSettings, MachineOK, Posted
  <2> HIDE DEF evt
  <2> QED
    BY <1>1, <2>1, <2>2, <2>3, PreviewRow DEF evt
<1>4. CASE params.hint
  <2> DEFINE p == [newParams EXCEPT !.hint = FALSE]
  <2>1. PICK o \in PrepareAndStart(stopPreview(channels), p, TRUE) :
          Reply(evt, o, m_state)
    BY <1>4 DEF preTakePicture
  <2>2. p \in Param
    BY <1>1 DEF MachineOK, Param
  <2>3. params' = p /\ newParams' = p /\ UNCHANGED <<needRestart, window, longshot, phase>>
    BY <1>4 DEF preTakePicture
  <2> HIDE DEF p
  <2>4. o.ok \in BOOLEAN /\ o.ch \in Chan /\ o.possible = TRUE /\ o.possible \in BOOLEAN /\ (o.ok => Up(o.ch))
    BY <1>1, <2>2, UnprepareFacts, PrepareAndStartFacts DEF stopPreview
  <2>5. /\ channels' = o.ch /\ m_state' = m_state /\ Answers(evt, o.ok)
        /\ failures' \in 0 .. MaxFailures /\ failures' >= failures
        /\ ~o.ok => failures' # 0 \/ dead
    BY <1>1, <1>2, <2>1, <2>4, ReplyFacts
  <2>6. Others(evt)
    BY <1>1, <2>2, <2>3, <2>5 DEF Others, RowSettings, MachineOK, Posted
  <2> HIDE DEF evt
  <2> QED
    BY <2>3, <2>4, <2>5, <2>6, PreviewRow DEF evt
<1> QED
  BY <1>3, <1>4

\* A recording starts on a channel that runs, or the machine stays.
LEMMA StartRecordingRow ==
  ASSUME NEW b \in BOOLEAN, RowPre("START_RECORDING", b), RowFrame,
         NEW o \in startRecording(channels), NEW s,
         Reply("START_RECORDING", o, IF o.ok THEN s ELSE m_state),
         UNCHANGED <<params, settings, phase>>,
         \/ m_state = "PREVIEWING" /\ s = "RECORDING"
         \/ m_state = "PREVIEW_PIC_TAKING" /\ s = "VIDEO_PIC_TAKING"
  PROVE  Row("START_RECORDING", b)
<1> DEFINE evt == "START_RECORDING"
           d   == [channels EXCEPT !.video = "running"]
<1>1. MachineOK /\ LiveIsVideo /\ b = FALSE /\ channels \in Chan
  BY DEF RowPre, MachineOK, Posted
<1>2. evt \in CallEvents \ {"SET_PARAMS_STOP", "SET_PARAMS_COMMIT"}
  BY DEF CallEvents, RecordEvents
<1>3. d \in Chan /\ d.video = "running" /\ (Up(channels) => Up(d))
  BY <1>1 DEF Chan, Up
<1>4. o \in OnChannel("video", channels, d)
  BY DEF startRecording
<1> HIDE DEF d
<1>5. o.ok \in BOOLEAN /\ o.possible \in BOOLEAN /\ (o.ok => o.ch = d) /\ (~o.ok => o.ch = channels)
  <2>1. CASE channels["video"] = "none"
    <3>1. o = [ok |-> FALSE, ch |-> channels, possible |-> FALSE]
      BY <1>4, <2>1 DEF OnChannel
    <3> QED
      BY <3>1
  <2>2. CASE channels["video"] # "none"
    <3>1. o = Outcome(FALSE, channels) \/ o = Outcome(TRUE, d)
      BY <1>4, <2>2 DEF OnChannel
    <3> QED
      BY <3>1, OutcomeFields
  <2> QED
    BY <2>1, <2>2
<1>6. /\ channels' = o.ch /\ m_state' = (IF o.ok THEN s ELSE m_state) /\ Answers(evt, o.ok)
      /\ failures' \in 0 .. MaxFailures /\ failures' >= failures
  BY <1>1, <1>2, <1>5, ReplyFacts
<1>7. Others(evt)
  BY <1>1, <1>6, QuietSettings
<1>8. Untroubled' => Up(channels)
  BY <1>1, <1>6, ConstantsAssumption
     DEF ConstantsAssumption, MachineOK, RowPre, Untroubled, RowFrame, FramesFlow
<1>9. channels' \in Chan /\ (Up(channels) => Up(channels')) /\ (o.ok => channels'.video = "running")
  BY <1>1, <1>3, <1>5, <1>6
<1>10. RowChannels(evt, b)
  BY <1>1, <1>5, <1>6, <1>8, <1>9 DEF RowChannels, StillBetween, StoppedIsEmpty, VideoRuns, FramesFlow
<1>11. LiveIsVideo' /\ m_state' \in States /\ phase' \in Phases
  BY <1>1, <1>6 DEF LiveIsVideo, MachineOK, States
<1>12. (m_state' = "PREVIEW_PIC_TAKING" => m_state = m_state') /\ m_state' # "PREPARE_SNAPSHOT"
  BY <1>6
<1> HIDE DEF evt
<1> QED
  BY <1>2, <1>5, <1>6, <1>7, <1>9, <1>10, <1>11, <1>12, AnswerRow DEF evt

\* takeCapturePicture disturbs only the capture channel, and can always work.
LEMMA TakeCaptureFacts ==
  ASSUME NEW c \in Chan, NEW o \in takeCapturePicture(c)
  PROVE  /\ o.ok \in BOOLEAN /\ o.ch \in Chan /\ o.possible = TRUE
         /\ Empty(c) => Empty(o.ch)
<1>1. PICK x \in {"none", "ready", "running"} :
        o = Outcome(TRUE, [c EXCEPT !.capture = x]) \/ o = Outcome(FALSE, [c EXCEPT !.capture = x])
  BY DEF takeCapturePicture
<1> DEFINE d == [c EXCEPT !.capture = x]
<1>2. d \in Chan /\ (Empty(c) => Empty(d))
  BY DEF Chan, Empty
<1>3. o = Outcome(TRUE, d) \/ o = Outcome(FALSE, d)
  BY <1>1
<1> HIDE DEF d
<1> QED
  BY <1>2, <1>3, OutcomeFields

\* A picture taken on the ZSL channel changes no channel.
LEMMA TakeZSLFacts ==
  ASSUME NEW c \in Chan, NEW o \in takeZSLPicture(c)
  PROVE  o.ok \in BOOLEAN /\ o.ch = c /\ o.possible \in BOOLEAN
<1>1. CASE c["zsl"] = "none"
  <2>1. o = [ok |-> FALSE, ch |-> c, possible |-> FALSE]
    BY <1>1 DEF takeZSLPicture, OnChannel
  <2> QED
    BY <2>1
<1>2. CASE c["zsl"] # "none"
  <2>1. o = Outcome(FALSE, c) \/ o = Outcome(TRUE, c)
    BY <1>2 DEF takeZSLPicture, OnChannel
  <2> QED
    BY <2>1, OutcomeFields
<1> QED
  BY <1>1, <1>2

\* The flash is prepared with the preview running, or the call fails.
LEMMA PrepareSnapshotRow ==
  ASSUME NEW b \in BOOLEAN, RowPre("PREPARE_SNAPSHOT", b), RowFrame,
         PreviewingPrepareSnapshot, m_state = "PREVIEWING"
  PROVE  Row("PREPARE_SNAPSHOT", b)
<1> DEFINE evt == "PREPARE_SNAPSHOT"
<1>1. MachineOK /\ channels \in Chan /\ b = FALSE
  BY DEF RowPre, MachineOK, Posted
<1>2. evt \in CallEvents \ {"SET_PARAMS_STOP", "SET_PARAMS_COMMIT"}
  BY DEF CallEvents, PictureEvents
<1>3. UNCHANGED <<params, settings, phase>>
  BY DEF PreviewingPrepareSnapshot
<1>4. CASE Came(Outcome(TRUE, channels)) /\ m_state' = "PREPARE_SNAPSHOT" /\ UNCHANGED <<channels, results, woken>>
  <2> DEFINE o == Outcome(TRUE, channels)
  <2>1. o.ok = TRUE /\ o.possible = TRUE
    BY OutcomeFields
  <2>2. Came(o)
    BY <1>4
  <2> HIDE DEF o
  <2>3. failures' \in 0 .. MaxFailures /\ failures' >= failures /\ ~dead
    <3>1. o.ok \in BOOLEAN /\ o.possible \in BOOLEAN
      BY <2>1
    <3>2. failures' \in 0 .. MaxFailures /\ failures' >= failures /\ (o.ok => ~dead)
      BY <1>1, <2>2, <3>1, CameFacts
    <3> QED
      BY <2>1, <3>2
  <2>4. Others(evt)
    BY <1>1, <1>3, <2>3, QuietSettings
  <2>5. Defers(evt)
    BY <1>3, <1>4, <2>3 DEF Defers
  <2>6. Untroubled' => Up(channels)
    BY <1>1, <2>3, ConstantsAssumption
       DEF ConstantsAssumption, MachineOK, RowPre, Untroubled, RowFrame, FramesFlow
  <2>7. RowChannels(evt, b)
    BY <1>1, <1>4, <2>6 DEF RowChannels, StillBetween, StoppedIsEmpty, VideoRuns, FramesFlow
  <2>8. channels' \in Chan
    BY <1>1, <1>4
  <2> HIDE DEF evt
  <2> QED
    BY <2>4, <2>5, <2>7, <2>8, DeferRow DEF evt
<1>5. CASE Reply("PREPARE_SNAPSHOT", Outcome(FALSE, channels), m_state)
  <2> DEFINE o == Outcome(FALSE, channels)
  <2>1. o.ok = FALSE /\ o.possible = TRUE /\ o.ch = channels
    BY OutcomeFields
  <2>2. Reply(evt, o, m_state)
    BY <1>5
  <2> HIDE DEF o
  <2>3. /\ channels' = channels /\ m_state' = m_state /\ Answers(evt, FALSE)
        /\ failures' \in 0 .. MaxFailures /\ failures' >= failures
    <3>1. o.ok \in BOOLEAN /\ o.possible \in BOOLEAN
      BY <2>1
    <3>2. /\ channels' = o.ch /\ m_state' = m_state /\ Answers(evt, o.ok)
          /\ failures' \in 0 .. MaxFailures /\ failures' >= failures
      BY <1>1, <1>2, <2>2, <3>1, ReplyFacts
    <3> QED
      BY <2>1, <3>2
  <2>4. Others(evt)
    BY <1>1, <1>3, <2>3, QuietSettings
  <2> HIDE DEF evt
  <2> QED
    BY <1>2, <1>3, <2>3, <2>4, StayRow DEF evt
<1> QED
  BY <1>4, <1>5 DEF PreviewingPrepareSnapshot

\* A picture on top of the preview: the channels of a run without trouble stay
\* as they are.
LEMMA TakeOnPreviewRow ==
  ASSUME NEW b \in BOOLEAN, RowPre("TAKE_PICTURE", b), RowFrame, m_state = "PREVIEWING",
         NEW o, o.ok \in BOOLEAN, o.ch \in Chan, o.possible \in BOOLEAN,
         longshot \/ o.ch = channels,
         TakePictureOnPreview(o), UNCHANGED <<params, settings>>
  PROVE  Row("TAKE_PICTURE", b)
<1> DEFINE evt == "TAKE_PICTURE"
<1>1. MachineOK /\ LiveIsVideo /\ b = FALSE
  BY DEF RowPre, Posted
<1>2. evt \in CallEvents
  BY DEF CallEvents, PictureEvents
<1>3. /\ failures' \in 0 .. MaxFailures /\ failures' >= failures
      /\ o.ok => ~dead
  BY <1>1, CameFacts DEF TakePictureOnPreview
<1>4. Others(evt)
  BY <1>1, <1>3, QuietSettings
<1>5. channels' = o.ch /\ m_state' = IF o.ok THEN "PREVIEW_PIC_TAKING" ELSE "PREVIEWING"
  BY DEF TakePictureOnPreview
<1>6. RowChannels(evt, b)
  <2>1. Untroubled' => Up(channels) /\ o.ch = channels
    BY <1>1, <1>3, ConstantsAssumption
       DEF ConstantsAssumption, MachineOK, RowPre, Untroubled, RowFrame, FramesFlow
  <2>2. m_state' \in {"PREVIEWING", "PREVIEW_PIC_TAKING"} /\ StillBetween(evt, b) = FALSE
    BY <1>1, <1>5 DEF StillBetween
  <2> QED
    BY <1>5, <2>1, <2>2 DEF RowChannels, StoppedIsEmpty, VideoRuns, FramesFlow
<1>7. CASE o.ok /\ retro
  <2>1. Defers(evt)
    BY <1>3, <1>5, <1>7 DEF Defers, TakePictureOnPreview
  <2> HIDE DEF evt
  <2> QED
    BY <1>4, <1>5, <1>6, <2>1, DeferRow DEF evt
<1>8. CASE ~(o.ok /\ retro)
  <2>1. signalAPIResult(evt, o.ok)
    BY <1>8 DEF TakePictureOnPreview
  <2>2. Answers(evt, o.ok)
    BY <1>2, <2>1, SignalFacts
  <2>3. phase' \in {phase, "taken"} /\ phase' \in Phases
    BY <1>1, <1>8 DEF TakePictureOnPreview, MachineOK, Phases
  <2>4. LiveIsVideo' /\ m_state' \in States
    BY <1>1, <1>5, <2>3 DEF LiveIsVideo, States
  <2>5. m_state' = "PREVIEW_PIC_TAKING" => m_state = "PREVIEWING" /\ ~retro
    BY <1>5, <1>8
  <2>6. m_state' # "PREPARE_SNAPSHOT"
    BY <1>5
  <2> HIDE DEF evt
  <2> QED
    BY <1>2, <1>4, <1>5, <1>6, <2>2, <2>3, <2>4, <2>5, <2>6, AnswerRow DEF evt
<1> QED
  BY <1>7, <1>8

\* A picture in place of the preview: the machine is stopped with it, or
\* brings the preview back.
LEMMA TakeAloneRow ==
  ASSUME NEW b \in BOOLEAN, RowPre("TAKE_PICTURE", b), RowFrame, m_state = "PREVIEWING",
         NEW o \in takeCapturePicture(stopPreview(channels)),
         NEW again \in PrepareAndStart(stopPreview(o.ch), params, TRUE),
         TakePictureAlone(o, again), UNCHANGED <<params, settings>>
  PROVE  Row("TAKE_PICTURE", b)
<1> DEFINE evt == "TAKE_PICTURE"
<1>1. MachineOK /\ LiveIsVideo /\ b = FALSE /\ channels \in Chan /\ params \in Param
  BY DEF RowPre, Posted, MachineOK
<1>2. evt \in CallEvents
  BY DEF CallEvents, PictureEvents
<1>3. o.ok \in BOOLEAN /\ o.ch \in Chan /\ o.possible = TRUE /\ o.possible \in BOOLEAN /\ Empty(o.ch)
  BY <1>1, UnprepareFacts, TakeCaptureFacts DEF stopPreview
<1>4. again.ok \in BOOLEAN /\ again.ch \in Chan /\ (~again.ok => Empty(again.ch))
  BY <1>1, <1>3, UnprepareFacts, PrepareAndStartFacts DEF stopPreview
<1>5. /\ failures' \in 0 .. MaxFailures /\ failures' >= failures
      /\ ~o.ok => failures' # 0 \/ dead
  BY <1>1, <1>3, CameFacts DEF TakePictureAlone
<1>6. Others(evt)
  BY <1>1, <1>5, QuietSettings
<1>7. signalAPIResult(evt, o.ok)
  BY DEF TakePictureAlone
<1>8. Answers(evt, o.ok)
  BY <1>2, <1>7, SignalFacts
<1>9. /\ m_state' = IF o.ok THEN "PIC_TAKING" ELSE IF again.ok THEN "PREVIEWING" ELSE "PREVIEW_STOPPED"
      /\ channels' = IF o.ok THEN o.ch ELSE again.ch
  BY DEF TakePictureAlone
<1>10. RowChannels(evt, b)
  <2>1. Untroubled' => o.ok
    BY <1>5 DEF Untroubled, RowFrame
  <2>2. StillBetween(evt, b) = FALSE
    BY <1>1 DEF StillBetween
  <2>3. m_state' \in {"PREVIEW_STOPPED", "PIC_TAKING"} => Empty(channels')
    BY <1>3, <1>4, <1>9
  <2> QED
    BY <1>9, <2>1, <2>2, <2>3 DEF RowChannels, StoppedIsEmpty, VideoRuns, FramesFlow
<1>11. phase' \in {phase, "taken"} /\ phase' \in Phases
  BY <1>1 DEF TakePictureAlone, MachineOK, Phases
<1>12. LiveIsVideo' /\ m_state' \in States /\ channels' \in Chan
  BY <1>1, <1>3, <1>4, <1>9, <1>11 DEF LiveIsVideo, States
<1>13. m_state' \notin {"PREVIEW_PIC_TAKING", "PREPARE_SNAPSHOT"}
  BY <1>9
<1> HIDE DEF evt
<1> QED
  BY <1>2, <1>3, <1>6, <1>8, <1>10, <1>11, <1>12, <1>13, AnswerRow DEF evt

\* take_picture in PREVIEWING
LEMMA TakePictureRow ==
  ASSUME NEW b \in BOOLEAN, RowPre("TAKE_PICTURE", b), RowFrame, m_state = "PREVIEWING", PreviewingTakePicture
  PROVE  Row("TAKE_PICTURE", b)
<1>1. channels \in Chan
  BY DEF RowPre, MachineOK
<1>2. UNCHANGED <<params, settings>>
  BY DEF PreviewingTakePicture
<1>3. PICK o \in takePicture(channels, params) :
        IF params.zsl \/ longshot
        THEN TakePictureOnPreview(o)
        ELSE \E again \in PrepareAndStart(stopPreview(o.ch), params, TRUE) :
               (dead => ~again.ok) /\ TakePictureAlone(o, again)
  BY DEF PreviewingTakePicture
<1>4. CASE params.zsl
  <2>1. o.ok \in BOOLEAN /\ o.ch = channels /\ o.possible \in BOOLEAN
    BY <1>1, <1>4, TakeZSLFacts DEF takePicture
  <2> QED
    BY <1>1, <1>2, <1>3, <1>4, <2>1, TakeOnPreviewRow
<1>5. CASE ~params.zsl
  <2>1. o \in takeCapturePicture(stopPreview(channels))
    BY <1>5 DEF takePicture
  <2>2. CASE longshot
    <3>1. o.ok \in BOOLEAN /\ o.ch \in Chan /\ o.possible \in BOOLEAN
      BY <1>1, <2>1, UnprepareFacts, TakeCaptureFacts DEF stopPreview
    <3> QED
      BY <1>2, <1>3, <2>2, <3>1, TakeOnPreviewRow
  <2>3. CASE ~longshot
    <3>1. PICK again \in PrepareAndStart(stopPreview(o.ch), params, TRUE) : TakePictureAlone(o, again)
      BY <1>3, <1>5, <2>3
    <3> QED
      BY <1>2, <2>1, <3>1, TakeAloneRow
  <2> QED
    BY <2>2, <2>3
<1> QED
  BY <1>4, <1>5

\* LONGSHOT_ON restarts a preview that needs more buffers.
LEMMA PreviewingLongshotOnRow ==
  ASSUME NEW b \in BOOLEAN, RowPre("LONGSHOT_ON", b), RowFrame, m_state = "PREVIEWING", PreviewingLongshotOn
  PROVE  Row("LONGSHOT_ON", b)
<1> DEFINE evt == "LONGSHOT_ON"
<1>1. MachineOK /\ channels \in Chan /\ params \in Param
  BY DEF RowPre, MachineOK
<1>2. evt \in CallEvents \ {"SET_PARAMS_STOP", "SET_PARAMS_COMMIT", "PRE_TAKE_PICTURE"}
  BY DEF CallEvents, CommandEvents
<1>3. LongshotOn
  BY DEF PreviewingLongshotOn
<1>4. CASE Done("LONGSHOT_ON", channels, m_state)
  BY <1>3, <1>4, LongshotOnRow
<1>5. CASE \E o \in PrepareAndStart(stopPreview(channels), params, TRUE) : Reply("LONGSHOT_ON", o, m_state)
  <2>1. PICK o \in PrepareAndStart(stopPreview(channels), params, TRUE) : Reply(evt, o, m_state)
    BY <1>5
  <2>2. o.ok \in BOOLEAN /\ o.ch \in Chan /\ o.possible = TRUE /\ o.possible \in BOOLEAN /\ (o.ok => Up(o.ch))
    BY <1>1, UnprepareFacts, PrepareAndStartFacts DEF stopPreview
  <2>3. /\ channels' = o.ch /\ m_state' = m_state /\ Answers(evt, o.ok)
        /\ failures' \in 0 .. MaxFailures /\ failures' >= failures
        /\ ~o.ok => failures' # 0 \/ dead
    BY <1>1, <1>2, <2>1, <2>2, ReplyFacts
  <2>4. Others(evt) /\ phase' = phase
    BY <1>1, <1>3, <2>3 DEF Others, RowSettings, LongshotOn, MachineOK, Posted
  <2> HIDE DEF evt
  <2> QED
    BY <2>2, <2>3, <2>4, PreviewRow DEF evt
<1> QED
  BY <1>4, <1>5 DEF PreviewingLongshotOn

\* Every event in PREVIEWING
LEMMA PreviewingRows ==
  ASSUME NEW evt, NEW b \in BOOLEAN, RowPre(evt, b), RowFrame,
         m_state = "PREVIEWING", procEvtPreviewingState(evt)
  PROVE  Row(evt, b)
<1>0. MachineOK /\ channels \in Chan /\ params \in Param
  BY DEF RowPre, MachineOK
<1>1. CASE evt = "SET_PARAMS" /\ SetParams
  BY <1>1, SetParamsRow
<1>2. CASE evt = "SET_PARAMS_STOP" /\ StopForParams(stopPreview(channels))
  BY <1>0, <1>2, UnprepareFacts, StopRow DEF Stoppable, stopPreview
<1>3. CASE evt = "SET_PARAMS_COMMIT" /\ commitParameterChanges
  BY <1>3, CommitRow
<1>4. CASE evt = "SET_PARAMS_RESTART" /\ PreviewingRestart
  <2>1. PICK o \in PrepareAndStart(channels, params, TRUE) :
          /\ RestartForParams(o, IF o.ok THEN m_state ELSE "PREVIEW_STOPPED")
          /\ UNCHANGED phase
    BY <1>4 DEF PreviewingRestart
  <2>2. /\ o.ok \in BOOLEAN /\ o.ch \in Chan /\ o.possible = TRUE
        /\ ~o.ok /\ Empty(channels) => Empty(o.ch)
        /\ o.ok => Up(o.ch)
    BY <1>0, PrepareAndStartFacts
  <2> DEFINE s == IF o.ok THEN m_state ELSE "PREVIEW_STOPPED"
  <2>3. s \in States /\ (s = m_state \/ (~o.ok /\ s \in {"PREVIEW_STOPPED", "PIC_TAKING"}))
    BY DEF States
  <2> QED
    BY <1>4, <2>1, <2>2, <2>3, RestartRow
<1>5. CASE evt \in PlayEvents \cup {"PLAIN"} /\ Accept(evt)
  <2>1. evt \in CallEvents /\ evt \notin {"SET_PARAMS_STOP", "SET_PARAMS_RESTART"}
    BY <1>5 DEF CallEvents, PlayEvents
  <2> QED
    BY <1>5, <2>1, AcceptRow
<1>6. CASE evt = "STOP_PREVIEW" /\ PreviewingStop
  BY <1>0, <1>6, UnprepareFacts, StopPreviewRow DEF PreviewingStop, stopPreview
<1>7. CASE evt = "PRE_START_RECORDING" /\ preStartRecording /\ UNCHANGED phase
  BY <1>7, PreStartRecordingRow
<1>8. CASE evt = "START_RECORDING" /\ PreviewingStartRecording
  BY <1>8, StartRecordingRow DEF PreviewingStartRecording
<1>9. CASE evt = "PREPARE_SNAPSHOT" /\ PreviewingPrepareSnapshot
  BY <1>9, PrepareSnapshotRow
<1>10. CASE evt = "PRE_TAKE_PICTURE" /\ preTakePicture
  BY <1>10, PreTakePictureRow
<1>11. CASE evt = "TAKE_PICTURE" /\ PreviewingTakePicture
  BY <1>11, TakePictureRow
<1>12. CASE evt \in {"SET_PREVIEW_WINDOW", "CANCEL_PICTURE", "STOP_RECORDING", "RELEASE"} /\ Refuse(evt)
  <2>1. evt \in CallEvents
    BY <1>12 DEF CallEvents, RecordEvents
  <2> QED
    BY <1>12, <2>1, RefuseRow
<1>13. CASE evt = "LONGSHOT_ON" /\ PreviewingLongshotOn
  BY <1>13, PreviewingLongshotOnRow
<1>14. CASE evt = "LONGSHOT_OFF" /\ LongshotOff(m_state)
  BY <1>14, LongshotOffRow DEF isCaptureRunning
<1> QED
  BY <1>1, <1>2, <1>3, <1>4, <1>5, <1>6, <1>7, <1>8, <1>9, <1>10, <1>11, <1>12, <1>13, <1>14
     DEF procEvtPreviewingState

-----------------------------------------------------------------------------
(* PREPARE_SNAPSHOT and PIC_TAKING                                         *)

\* Every event in PREPARE_SNAPSHOT
LEMMA PrepareSnapshotRows ==
  ASSUME NEW evt, NEW b \in BOOLEAN, RowPre(evt, b), RowFrame,
         m_state = "PREPARE_SNAPSHOT", procEvtPrepareSnapshotState(evt)
  PROVE  Row(evt, b)
BY RefuseRow DEF procEvtPrepareSnapshotState, Stoppable

\* A long shot goes on, or is refused.
LEMMA LongShotRow ==
  ASSUME NEW b \in BOOLEAN, RowPre("TAKE_PICTURE", b), RowFrame, PicTakingLongShot
  PROVE  Row("TAKE_PICTURE", b)
<1> DEFINE evt == "TAKE_PICTURE"
<1>1. MachineOK
  BY DEF RowPre
<1>2. evt \in CallEvents \ {"SET_PARAMS_STOP", "SET_PARAMS_COMMIT"}
  BY DEF CallEvents, PictureEvents
<1>3. CASE Refuse(evt)
  BY <1>2, <1>3, RefuseRow
<1>4. CASE /\ \E o \in longShot(channels, params) : Reply(evt, o, m_state)
           /\ UNCHANGED <<params, settings, phase>>
  <2>1. PICK o \in longShot(channels, params) : Reply(evt, o, m_state)
    BY <1>4
  <2>2. PICK k \in {"zsl", "capture"} : o \in OnChannel(k, channels, channels)
    BY DEF longShot
  <2>3. o.ok \in BOOLEAN /\ o.possible \in BOOLEAN /\ o.ch = channels
    <3>1. CASE channels[k] = "none"
      <4>1. o = [ok |-> FALSE, ch |-> channels, possible |-> FALSE]
        BY <2>2, <3>1 DEF OnChannel
      <4> QED
        BY <4>1
    <3>2. CASE channels[k] # "none"
      <4>1. o = Outcome(FALSE, channels) \/ o = Outcome(TRUE, channels)
        BY <2>2, <3>2 DEF OnChannel
      <4> QED
        BY <4>1, OutcomeFields
    <3> QED
      BY <3>1, <3>2
  <2>4. /\ channels' = o.ch /\ m_state' = m_state /\ Answers(evt, o.ok)
        /\ failures' \in 0 .. MaxFailures /\ failures' >= failures
    BY <1>1, <1>2, <2>1, <2>3, ReplyFacts
  <2>5. Others(evt)
    BY <1>1, <1>4, <2>4, QuietSettings
  <2> HIDE DEF evt
  <2> QED
    BY <1>2, <1>4, <2>3, <2>4, <2>5, StayRow DEF evt
<1> QED
  BY <1>3, <1>4 DEF PicTakingLongShot

\* A picture is cancelled, and the machine stops or shows the preview again.
LEMMA CancelRow ==
  ASSUME NEW evt \in {"STOP_PREVIEW", "CANCEL_PICTURE"}, NEW b \in BOOLEAN, RowPre(evt, b), RowFrame,
         NEW s, CancelPicture(evt, s),
         \/ m_state = "PIC_TAKING" /\ s = "PREVIEW_STOPPED"
         \/ m_state = "PREVIEW_PIC_TAKING" /\ s = "PREVIEWING" /\ evt = "CANCEL_PICTURE"
  PROVE  Row(evt, b)
<1> DEFINE c == cancelPicture(channels, params)
<1>1. MachineOK
  BY DEF RowPre
<1>2. evt \in CallEvents
  BY DEF CallEvents
<1>3. /\ channels' = c /\ m_state' = s /\ Answers(evt, TRUE)
      /\ failures' \in 0 .. MaxFailures /\ failures' >= failures
      /\ phase' = "idle"
  <2>1. Done(evt, c, s)
    BY DEF CancelPicture
  <2> HIDE DEF c
  <2> QED
    BY <1>1, <1>2, <2>1, DoneFacts DEF CancelPicture
<1>4. c \in Chan /\ c.zsl = channels.zsl /\ c.preview = channels.preview /\ c.video = channels.video
  BY <1>1, CancelFacts DEF MachineOK
<1>5. Others(evt)
  BY <1>1, <1>3, QuietSettings DEF CancelPicture
<1> HIDE DEF c
<1>6. RowChannels(evt, b)
  <2>1. Untroubled' => Untroubled
    BY <1>1, <1>3, ConstantsAssumption DEF ConstantsAssumption, MachineOK, Untroubled, RowFrame
  <2>2. StillBetween(evt, b) = (b /\ evt = "CANCEL_PICTURE")
    BY DEF StillBetween, Posted
  <2>3. evt # "CANCEL_PICTURE" => ~b
    BY DEF RowPre, Posted
  <2> QED
    BY <1>3, <1>4, <2>1, <2>2, <2>3
       DEF RowPre, RowChannels, StoppedIsEmpty, VideoRuns, FramesFlow, Empty, Up, RowFrame
<1>7. LiveIsVideo' /\ m_state' \in States /\ channels' \in Chan /\ phase' \in Phases
  BY <1>3, <1>4 DEF LiveIsVideo, States, Phases
<1> QED
  BY <1>2, <1>3, <1>5, <1>6, <1>7, AnswerRow

\* The post-processor's stop of the capture channel: without the early restart
\* of the preview no other channel is touched.
LEMMA StopCaptureRow ==
  ASSUME NEW b \in BOOLEAN, RowPre("STOP_CAPTURE_CHANNEL", b), RowFrame,
         m_state = "PIC_TAKING", PicTakingStopCapture
  PROVE  Row("STOP_CAPTURE_CHANNEL", b)
<1> DEFINE evt == "STOP_CAPTURE_CHANNEL"
<1>1. MachineOK /\ LiveIsVideo /\ channels \in Chan /\ params \in Param
  BY DEF RowPre, MachineOK
<1>2. PICK o \in stopCaptureChannel(channels, restart) :
        /\ IF restart /\ o.ok
           THEN \E again \in PrepareAndStart(o.ch, params, FALSE) :
                  /\ Reply(evt, again, m_state)
                  /\ endLongshot
           ELSE Reply(evt, o, m_state) /\ UNCHANGED longshot
        /\ UNCHANGED <<params, newParams, needRestart, window, phase>>
  BY DEF PicTakingStopCapture
<1> DEFINE d == [channels EXCEPT !.capture = IF restart \/ @ = "none" THEN "none" ELSE "ready"]
<1>3. d \in Chan /\ (Empty(channels) => Empty(d))
  BY <1>1 DEF Chan, Empty
<1>4. o = Outcome(FALSE, channels) \/ o = Outcome(TRUE, d)
  BY <1>2 DEF stopCaptureChannel
<1> HIDE DEF d
<1>5. o.ok \in BOOLEAN /\ o.possible \in BOOLEAN /\ o.ch \in Chan /\ (Empty(channels) => Empty(o.ch))
  BY <1>1, <1>3, <1>4, OutcomeFields
<1>6. PICK r, s : /\ r.ok \in BOOLEAN /\ r.possible \in BOOLEAN /\ r.ch \in Chan
                  /\ ~restart /\ Empty(channels) => Empty(r.ch)
                  /\ Came(r) /\ channels' = r.ch /\ m_state' = m_state
                  /\ signalAPIResult(evt, s)
                  /\ longshot' \in BOOLEAN /\ (longshot' => longshot)
  <2>1. CASE restart /\ o.ok
    <3>1. PICK again \in PrepareAndStart(o.ch, params, FALSE) : Reply(evt, again, m_state) /\ endLongshot
      BY <1>2, <2>1
    <3>2. again.ok \in BOOLEAN /\ again.ch \in Chan /\ again.possible \in BOOLEAN
      BY <1>1, <1>5, PrepareAndStartFacts
    <3> QED
      BY <1>1, <2>1, <3>1, <3>2 DEF Reply, endLongshot, MachineOK, Param
  <2>2. CASE ~(restart /\ o.ok)
    <3>1. Reply(evt, o, m_state) /\ UNCHANGED longshot
      BY <1>2, <2>2
    <3> QED
      BY <1>1, <1>5, <3>1 DEF Reply, MachineOK
  <2> QED
    BY <2>1, <2>2
<1>7. failures' \in 0 .. MaxFailures /\ failures' >= failures
  BY <1>1, <1>6, CameFacts
<1>8. MachineOK'
  BY <1>1, <1>2, <1>6, <1>7 DEF MachineOK
<1>9. RowChannels(evt, b)
  <2>1. ~restart => Empty(channels)
    BY DEF RowPre, StoppedIsEmpty
  <2>2. m_state' = "PIC_TAKING"
    BY <1>6
  <2>3. StoppedIsEmpty(StillBetween(evt, b), m_state', channels')
    BY <1>6, <2>1 DEF StoppedIsEmpty
  <2> QED
    BY <2>2, <2>3 DEF RowChannels, VideoRuns, FramesFlow
<1>10. RowAnswer(evt)
  BY <1>6 DEF RowAnswer, signalAPIResult
<1>11. RowSettings(evt)
  BY <1>2, <1>6, <1>7 DEF RowSettings, PlayEvents
<1>12. RowMoves(evt)
  BY <1>1, <1>2, <1>6 DEF RowMoves, LiveIsVideo
<1> QED
  BY <1>8, <1>9, <1>10, <1>11, <1>12 DEF Row

\* Every event in PIC_TAKING
LEMMA PicTakingRows ==
  ASSUME NEW evt, NEW b \in BOOLEAN, RowPre(evt, b), RowFrame,
         m_state = "PIC_TAKING", procEvtPicTakingState(evt)
  PROVE  Row(evt, b)
<1>1. CASE evt = "SET_PARAMS" /\ SetParams
  BY <1>1, SetParamsRow
<1>2. CASE evt = "SET_PARAMS_STOP" /\ StopForParams(channels)
  <2>1. channels \in Chan /\ (~restart => Empty(channels)) /\ Stoppable
    BY DEF RowPre, StoppedIsEmpty, MachineOK, Stoppable
  <2> QED
    BY <1>2, <2>1, StopRow
<1>3. CASE evt = "SET_PARAMS_COMMIT" /\ commitParameterChanges
  BY <1>3, CommitRow
<1>4. CASE evt = "SET_PARAMS_RESTART" /\ StoppedRestart
  BY <1>4, StoppedRestartRow
<1>5. CASE evt \in {"STOP_PREVIEW", "CANCEL_PICTURE"} /\ CancelPicture(evt, "PREVIEW_STOPPED")
  BY <1>5, CancelRow
<1>6. CASE evt = "PRE_TAKE_PICTURE" /\ IF longshot THEN Accept(evt) ELSE Refuse(evt)
  <2>1. evt \in CallEvents
    BY <1>6 DEF CallEvents, PictureEvents
  <2> QED
    BY <1>6, <2>1, AcceptRow, RefuseRow
<1>7. CASE evt = "TAKE_PICTURE" /\ PicTakingLongShot
  BY <1>7, LongShotRow
<1>8. CASE /\ evt \in RecordEvents \cup PlayEvents \cup {"PREPARE_SNAPSHOT", "SET_PREVIEW_WINDOW", "RELEASE", "LONGSHOT_ON"}
           /\ Refuse(evt)
  <2>1. evt \in CallEvents \ ({"CANCEL_PICTURE"} \cup SetEvents)
    BY <1>8 DEF CallEvents, RecordEvents, PlayEvents, PictureEvents, CommandEvents, SetEvents
  <2> QED
    BY <1>8, <2>1, RefuseRow DEF SetEvents
<1>9. CASE evt = "LONGSHOT_OFF" /\ LongshotOff("PREVIEWING")
  BY <1>9, LongshotOffRow
<1>10. CASE evt = "STOP_CAPTURE_CHANNEL" /\ PicTakingStopCapture
  BY <1>10, StopCaptureRow
<1>11. CASE evt = "PLAIN" /\ Accept(evt)
  BY <1>11, AcceptRow DEF CallEvents
<1> QED
  BY <1>1, <1>2, <1>3, <1>4, <1>5, <1>6, <1>7, <1>8, <1>9, <1>10, <1>11 DEF procEvtPicTakingState

-----------------------------------------------------------------------------
(* RECORDING and VIDEO_PIC_TAKING                                          *)

\* A picture is taken of the video.
LEMMA LiveSnapshotRow ==
  ASSUME NEW b \in BOOLEAN, RowPre("TAKE_PICTURE", b), RowFrame, m_state = "RECORDING", TakeLiveSnapshot
  PROVE  Row("TAKE_PICTURE", b)
<1> DEFINE evt == "TAKE_PICTURE"
<1>1. MachineOK /\ LiveIsVideo /\ b = FALSE
  BY DEF RowPre, Posted
<1>2. evt \in CallEvents \ {"SET_PARAMS_STOP", "SET_PARAMS_COMMIT"}
  BY DEF CallEvents, PictureEvents
<1>3. PICK ok \in BOOLEAN :
        /\ Reply(evt, Outcome(ok, channels), IF ok THEN "VIDEO_PIC_TAKING" ELSE m_state)
        /\ phase' = IF ok THEN "live" ELSE phase
        /\ UNCHANGED <<params, settings>>
  BY DEF TakeLiveSnapshot
<1> DEFINE o == Outcome(ok, channels)
<1>4. o.ok = ok /\ o.ch = channels /\ o.possible = TRUE /\ o.ok \in BOOLEAN /\ o.possible \in BOOLEAN
  BY OutcomeOf
<1>5. Reply(evt, o, IF ok THEN "VIDEO_PIC_TAKING" ELSE m_state)
  BY <1>3
<1> HIDE DEF o
<1>6. /\ channels' = o.ch /\ m_state' = (IF ok THEN "VIDEO_PIC_TAKING" ELSE m_state) /\ Answers(evt, o.ok)
      /\ failures' \in 0 .. MaxFailures /\ failures' >= failures
  BY <1>1, <1>2, <1>4, <1>5, ReplyFacts
<1>7. Others(evt)
  BY <1>1, <1>3, <1>6, QuietSettings
<1>8. channels' = channels /\ m_state' \in {"RECORDING", "VIDEO_PIC_TAKING"}
  BY <1>4, <1>6
<1>9. RowChannels(evt, b)
  <2>1. Untroubled' => Untroubled
    BY <1>1, <1>6, ConstantsAssumption DEF ConstantsAssumption, MachineOK, Untroubled, RowFrame
  <2> QED
    BY <1>1, <1>8, <2>1
       DEF RowPre, RowChannels, StillBetween, StoppedIsEmpty, VideoRuns, FramesFlow
<1>10. LiveIsVideo' /\ m_state' \in States /\ channels' \in Chan /\ phase' \in Phases
  BY <1>1, <1>3, <1>6, <1>8 DEF LiveIsVideo, MachineOK, States, Phases
<1>11. phase' \in {"live", phase}
  BY <1>3
<1> HIDE DEF evt
<1> QED
  BY <1>2, <1>4, <1>6, <1>7, <1>8, <1>9, <1>10, <1>11, AnswerRow DEF evt

\* The video stops, or only the picture taken of it.
LEMMA LeaveVideoRow ==
  ASSUME NEW evt \in {"STOP_RECORDING", "CANCEL_PICTURE"}, NEW b \in BOOLEAN, RowPre(evt, b), RowFrame,
         m_state \in {"RECORDING", "VIDEO_PIC_TAKING"},
         NEW c \in Chan, NEW s, Done(evt, c, s), UNCHANGED <<params, settings>>,
         phase' = "idle" \/ (phase' = phase /\ m_state = "RECORDING"),
         \/ evt = "STOP_RECORDING" /\ s = "PREVIEWING" /\ (Up(channels) => Up(c))
         \/ evt = "CANCEL_PICTURE" /\ s = "RECORDING" /\ c = channels
  PROVE  Row(evt, b)
<1>1. MachineOK /\ LiveIsVideo
  BY DEF RowPre
<1>2. evt \in CallEvents
  BY DEF CallEvents, RecordEvents
<1>3. /\ channels' = c /\ m_state' = s /\ Answers(evt, TRUE)
      /\ failures' \in 0 .. MaxFailures /\ failures' >= failures
  BY <1>1, <1>2, DoneFacts
<1>4. Others(evt)
  BY <1>1, <1>3, QuietSettings
<1>5. RowChannels(evt, b)
  <2>1. Untroubled' => Up(channels)
    BY <1>1, <1>3, ConstantsAssumption
       DEF ConstantsAssumption, MachineOK, Untroubled, RowFrame, RowPre, FramesFlow
  <2>2. StillBetween(evt, b) => b
    BY DEF StillBetween, Posted
  <2>3. evt = "STOP_RECORDING" => ~b
    BY DEF RowPre, Posted
  <2> QED
    BY <1>3, <2>1, <2>2, <2>3
       DEF RowPre, RowChannels, StoppedIsEmpty, VideoRuns, FramesFlow, RowFrame
<1>6. LiveIsVideo' /\ m_state' \in States /\ channels' \in Chan /\ phase' \in Phases /\ phase' \in {"idle", phase}
  BY <1>1, <1>3 DEF LiveIsVideo, MachineOK, States, Phases
<1>7. m_state' \in {"PREVIEWING", "RECORDING"} /\ (evt = "CANCEL_PICTURE" => m_state' = "RECORDING")
  BY <1>3
<1> QED
  BY <1>2, <1>3, <1>4, <1>5, <1>6, <1>7, AnswerRow

\* Every event in RECORDING
LEMMA RecordingRows ==
  ASSUME NEW evt, NEW b \in BOOLEAN, RowPre(evt, b), RowFrame,
         m_state = "RECORDING", procEvtRecordingState(evt)
  PROVE  Row(evt, b)
<1>0. channels \in Chan
  BY DEF RowPre, MachineOK
<1>1. CASE evt = "SET_PARAMS" /\ SetParamsRecording
  BY <1>1, SetParamsRecordingRow
<1>2. CASE evt = "SET_PARAMS_COMMIT" /\ commitParameterChanges
  BY <1>2, CommitRow
<1>3. CASE evt = "TAKE_PICTURE" /\ TakeLiveSnapshot
  BY <1>3, LiveSnapshotRow
<1>4. CASE evt = "STOP_RECORDING" /\ RecordingStop(evt, stopRecording(channels), "PREVIEWING")
  BY <1>0, <1>4, StopRecordingFacts, LeaveVideoRow DEF RecordingStop, Up
<1>5. CASE evt = "STOP_PREVIEW" /\ RecordingStop(evt, stopPreview(stopRecording(channels)), "PREVIEW_STOPPED")
  BY <1>0, <1>5, StopRecordingFacts, UnprepareFacts, StopPreviewRow DEF RecordingStop, stopPreview
<1>6. CASE /\ evt \in {"START_PREVIEW", "SET_PREVIEW_WINDOW", "PRE_TAKE_PICTURE", "PRE_START_RECORDING",
                       "START_RECORDING", "PREPARE_SNAPSHOT", "PLAIN"}
           /\ Accept(evt)
  <2>1. evt \in CallEvents
    BY <1>6 DEF CallEvents, PlayEvents, PictureEvents, RecordEvents
  <2> QED
    BY <1>6, <2>1, AcceptRow
<1>7. CASE /\ evt \in {"SET_PARAMS_STOP", "SET_PARAMS_RESTART", "CANCEL_PICTURE", "START_NODISPLAY_PREVIEW", "RELEASE"}
           /\ Refuse(evt)
  <2>1. evt \in CallEvents
    BY <1>7 DEF CallEvents, PlayEvents, SetEvents
  <2> QED
    BY <1>7, <2>1, RefuseRow DEF Stoppable
<1>8. CASE evt = "LONGSHOT_ON" /\ Done(evt, channels, m_state) /\ LongshotOn
  BY <1>8, LongshotOnRow
<1>9. CASE evt = "LONGSHOT_OFF" /\ LongshotOff(m_state)
  BY <1>9, LongshotOffRow DEF isCaptureRunning
<1> QED
  BY <1>1, <1>2, <1>3, <1>4, <1>5, <1>6, <1>7, <1>8, <1>9 DEF procEvtRecordingState

\* Every event in VIDEO_PIC_TAKING
LEMMA VideoPicTakingRows ==
  ASSUME NEW evt, NEW b \in BOOLEAN, RowPre(evt, b), RowFrame,
         m_state = "VIDEO_PIC_TAKING", procEvtVideoPicTakingState(evt)
  PROVE  Row(evt, b)
<1>0. channels \in Chan
  BY DEF RowPre, MachineOK
<1>1. CASE evt = "SET_PARAMS" /\ SetParamsRecording
  BY <1>1, SetParamsRecordingRow
<1>2. CASE evt = "SET_PARAMS_COMMIT" /\ commitParameterChanges
  BY <1>2, CommitRow
<1>3. CASE evt = "STOP_RECORDING" /\ CancelLive(evt, stopRecording(channels), "PREVIEWING")
  BY <1>0, <1>3, StopRecordingFacts, LeaveVideoRow DEF CancelLive, Up
<1>4. CASE evt = "CANCEL_PICTURE" /\ CancelLive(evt, channels, "RECORDING")
  BY <1>0, <1>4, LeaveVideoRow DEF CancelLive
<1>5. CASE evt = "STOP_PREVIEW" /\ CancelLive(evt, stopPreview(stopRecording(channels)), "PREVIEW_STOPPED")
  BY <1>0, <1>5, StopRecordingFacts, UnprepareFacts, StopPreviewRow DEF CancelLive, stopPreview
<1>6. CASE evt = "PLAIN" /\ Accept(evt)
  BY <1>6, AcceptRow DEF CallEvents
<1>7. CASE /\ evt \in PlayEvents \cup PictureEvents \cup
                      {"PRE_START_RECORDING", "START_RECORDING", "SET_PARAMS_STOP", "SET_PARAMS_RESTART",
                       "SET_PREVIEW_WINDOW", "RELEASE", "LONGSHOT_ON"}
           /\ Refuse(evt)
  <2>1. evt \in CallEvents \ {"CANCEL_PICTURE", "SET_PARAMS_COMMIT"}
    BY <1>7 DEF CallEvents, PlayEvents, PictureEvents, RecordEvents, SetEvents, CommandEvents
  <2> QED
    BY <1>7, <2>1, RefuseRow DEF Stoppable
<1>8. CASE evt = "LONGSHOT_OFF" /\ LongshotOff(m_state)
  BY <1>8, LongshotOffRow
<1> QED
  BY <1>1, <1>2, <1>3, <1>4, <1>5, <1>6, <1>7, <1>8 DEF procEvtVideoPicTakingState

-----------------------------------------------------------------------------
(* PREVIEW_PIC_TAKING                                                      *)

\* A restart of the preview under a picture
LEMMA PicRestartRow ==
  ASSUME NEW b \in BOOLEAN, RowPre("SET_PARAMS_RESTART", b), RowFrame,
         m_state = "PREVIEW_PIC_TAKING", PreviewPicTakingRestart
  PROVE  Row("SET_PARAMS_RESTART", b)
<1> DEFINE c == IF longshot /\ params.hint THEN cancelPicture(channels, params) ELSE channels
<1>1. MachineOK /\ channels \in Chan /\ params \in Param
  BY DEF RowPre, MachineOK
<1>2. PICK o \in PrepareAndStart(c, params, TRUE) :
        /\ RestartForParams(o, IF o.ok THEN m_state ELSE "PIC_TAKING")
        /\ phase' = IF longshot /\ params.hint THEN "idle" ELSE phase
  BY DEF PreviewPicTakingRestart
<1>3. c \in Chan /\ (Empty(channels) => Empty(c))
  BY <1>1, CancelFacts DEF Empty
<1> HIDE DEF c
<1>4. /\ o.ok \in BOOLEAN /\ o.ch \in Chan /\ o.possible = TRUE
      /\ ~o.ok /\ Empty(channels) => Empty(o.ch)
      /\ o.ok => Up(o.ch)
  BY <1>1, <1>3, PrepareAndStartFacts
<1> DEFINE s == IF o.ok THEN m_state ELSE "PIC_TAKING"
<1>5. s \in States /\ (s = m_state \/ (~o.ok /\ s \in {"PREVIEW_STOPPED", "PIC_TAKING"}))
  BY DEF States
<1> QED
  BY <1>2, <1>4, <1>5, RestartRow

\* The flash of a picture with frames from the past, whose answer is put off
LEMMA PicPrepareRow ==
  ASSUME NEW b \in BOOLEAN, RowPre("PREPARE_SNAPSHOT", b), RowFrame,
         m_state = "PREVIEW_PIC_TAKING", PreviewPicTakingPrepare
  PROVE  Row("PREPARE_SNAPSHOT", b)
<1> DEFINE evt == "PREPARE_SNAPSHOT"
<1>1. MachineOK /\ LiveIsVideo /\ channels \in Chan /\ b = FALSE
  BY DEF RowPre, MachineOK, Posted
<1>2. evt \in CallEvents \ {"SET_PARAMS_STOP", "SET_PARAMS_COMMIT"}
  BY DEF CallEvents, PictureEvents
<1>3. CASE Refuse(evt)
  BY <1>2, <1>3, RefuseRow
<1>4. CASE /\ retro /\ UNCHANGED <<m_state, params, settings>>
           /\ Came(Outcome(TRUE, channels))
           /\ phase' = IF phase = "ready" THEN "preparing" ELSE phase
           /\ UNCHANGED <<channels, results, woken>>
  <2> DEFINE o == Outcome(TRUE, channels)
  <2>1. o.ok = TRUE /\ o.possible = TRUE /\ o.ok \in BOOLEAN /\ o.possible \in BOOLEAN
    BY OutcomeFields
  <2>2. Came(o)
    BY <1>4
  <2> HIDE DEF o
  <2>3. failures' \in 0 .. MaxFailures /\ failures' >= failures /\ (o.ok => ~dead)
    BY <1>1, <2>1, <2>2, CameFacts
  <2>4. Others(evt)
    BY <1>1, <1>4, <2>3, QuietSettings
  <2>5. ~dead
    BY <2>1, <2>3
  <2>6. Defers(evt)
    BY <1>4, <2>5 DEF Defers
  <2>7. Untroubled' => Up(channels)
    BY <1>1, <2>3, ConstantsAssumption
       DEF ConstantsAssumption, MachineOK, RowPre, Untroubled, RowFrame, FramesFlow
  <2>8. RowChannels(evt, b)
    BY <1>1, <1>4, <2>7 DEF RowChannels, StillBetween, StoppedIsEmpty, VideoRuns, FramesFlow
  <2>9. channels' \in Chan
    BY <1>1, <1>4
  <2> HIDE DEF evt
  <2> QED
    BY <2>4, <2>6, <2>8, <2>9, DeferRow DEF evt
<1>5. CASE /\ UNCHANGED <<m_state, params, settings>>
           /\ Reply(evt, Outcome(FALSE, channels), m_state)
           /\ phase' = IF phase = "ready" THEN "prepared" ELSE phase
  <2> DEFINE o == Outcome(FALSE, channels)
  <2>1. o.ok = FALSE /\ o.possible = TRUE /\ o.ch = channels /\ o.ok \in BOOLEAN /\ o.possible \in BOOLEAN
    BY OutcomeFields
  <2>2. Reply(evt, o, m_state)
    BY <1>5
  <2> HIDE DEF o
  <2>3. /\ channels' = o.ch /\ m_state' = m_state /\ Answers(evt, o.ok)
        /\ failures' \in 0 .. MaxFailures /\ failures' >= failures
    BY <1>1, <1>2, <2>1, <2>2, ReplyFacts
  <2>4. Others(evt)
    BY <1>1, <1>5, <2>3, QuietSettings
  <2>5. Untroubled' => Up(channels)
    BY <1>1, <2>3, ConstantsAssumption
       DEF ConstantsAssumption, MachineOK, RowPre, Untroubled, RowFrame, FramesFlow
  <2>6. RowChannels(evt, b)
    BY <1>1, <2>1, <2>3, <2>5 DEF RowChannels, StillBetween, StoppedIsEmpty, VideoRuns, FramesFlow
  <2>7. LiveIsVideo' /\ m_state' \in States /\ channels' \in Chan /\ phase' \in Phases
    BY <1>1, <1>5, <2>1, <2>3 DEF LiveIsVideo, MachineOK, Phases
  <2>8. phase' \in {"prepared", phase}
    BY <1>5
  <2> HIDE DEF evt
  <2> QED
    BY <1>2, <2>1, <2>3, <2>4, <2>6, <2>7, <2>8, AnswerRow DEF evt
<1> QED
  BY <1>3, <1>4, <1>5 DEF PreviewPicTakingPrepare

\* Every event in PREVIEW_PIC_TAKING
LEMMA PreviewPicTakingRows ==
  ASSUME NEW evt, NEW b \in BOOLEAN, RowPre(evt, b), RowFrame,
         m_state = "PREVIEW_PIC_TAKING", procEvtPreviewPicTakingState(evt)
  PROVE  Row(evt, b)
<1>0. channels \in Chan
  BY DEF RowPre, MachineOK
<1>1. CASE evt = "SET_PARAMS" /\ SetParams
  BY <1>1, SetParamsRow
<1>2. CASE evt = "SET_PARAMS_STOP" /\ StopForParams(stopPreview(channels))
  BY <1>0, <1>2, UnprepareFacts, StopRow DEF Stoppable, stopPreview
<1>3. CASE evt = "SET_PARAMS_COMMIT" /\ commitParameterChanges
  BY <1>3, CommitRow
<1>4. CASE evt = "SET_PARAMS_RESTART" /\ PreviewPicTakingRestart
  BY <1>4, PicRestartRow
<1>5. CASE evt = "CANCEL_PICTURE" /\ PreviewPicTakingCancel
  BY <1>5, CancelRow DEF PreviewPicTakingCancel
<1>6. CASE evt = "STOP_PREVIEW" /\ PreviewPicTakingStop
  <2> DEFINE c == IF params.zsl \/ longshot THEN cancelPicture(channels, params) ELSE channels
  <2>1. c \in Chan
    BY <1>0, CancelFacts
  <2>2. Done("STOP_PREVIEW", unpreparePreview(c), "PREVIEW_STOPPED") /\ phase' = "idle"
        /\ UNCHANGED <<params, settings>>
    BY <1>6 DEF PreviewPicTakingStop
  <2> HIDE DEF c
  <2> QED
    BY <1>6, <2>1, <2>2, UnprepareFacts, StopPreviewRow
<1>7. CASE evt = "PLAIN" /\ Accept(evt)
  BY <1>7, AcceptRow DEF CallEvents
<1>8. CASE /\ evt = "PRE_START_RECORDING"
           /\ IF params.zsl \/ longshot THEN Refuse(evt) ELSE preStartRecording /\ UNCHANGED phase
  <2>1. evt \in CallEvents
    BY <1>8 DEF CallEvents, RecordEvents
  <2> QED
    BY <1>8, <2>1, RefuseRow, PreStartRecordingRow
<1>9. CASE /\ evt = "START_RECORDING"
           /\ IF params.zsl \/ longshot THEN Refuse(evt) ELSE PreviewPicTakingStartRecording
  <2>1. evt \in CallEvents
    BY <1>9 DEF CallEvents, RecordEvents
  <2> QED
    BY <1>9, <2>1, RefuseRow, StartRecordingRow DEF PreviewPicTakingStartRecording
<1>10. CASE evt = "PRE_TAKE_PICTURE" /\ IF longshot THEN Accept(evt) ELSE Refuse(evt)
  <2>1. evt \in CallEvents
    BY <1>10 DEF CallEvents, PictureEvents
  <2> QED
    BY <1>10, <2>1, AcceptRow, RefuseRow
<1>11. CASE evt = "TAKE_PICTURE" /\ PicTakingLongShot
  BY <1>11, LongShotRow
<1>12. CASE evt = "PREPARE_SNAPSHOT" /\ PreviewPicTakingPrepare
  BY <1>12, PicPrepareRow
<1>13. CASE /\ evt \in PlayEvents \cup {"STOP_RECORDING", "SET_PREVIEW_WINDOW", "RELEASE", "LONGSHOT_ON"}
            /\ Refuse(evt)
  <2>1. evt \in CallEvents \ ({"CANCEL_PICTURE"} \cup SetEvents)
    BY <1>13 DEF CallEvents, PlayEvents, RecordEvents, SetEvents, CommandEvents
  <2> QED
    BY <1>13, <2>1, RefuseRow DEF SetEvents
<1>14. CASE evt = "LONGSHOT_OFF" /\ LongshotOff("PREVIEWING")
  BY <1>14, LongshotOffRow
<1> QED
  BY <1>1, <1>2, <1>3, <1>4, <1>5, <1>6, <1>7, <1>8, <1>9, <1>10, <1>11, <1>12, <1>13, <1>14
     DEF procEvtPreviewPicTakingState

-----------------------------------------------------------------------------
(* The machine                                                             *)

\* What an event does in any state is a row.
LEMMA StateMachineRow ==
  ASSUME NEW evt, NEW b \in BOOLEAN, RowPre(evt, b), RowFrame, stateMachine(evt)
  PROVE  Row(evt, b)
<1>1. CASE /\ evt = "STOP_CAPTURE_CHANNEL" /\ m_state # "PIC_TAKING"
           /\ Quiet /\ UNCHANGED <<m_state, results, woken, params, settings>>
  <2>1. MachineOK /\ LiveIsVideo /\ failures' = failures
    BY <1>1 DEF RowPre, Quiet
  <2>2. MachineOK'
    BY <1>1, <2>1 DEF MachineOK, Quiet, settings
  <2>3. RowChannels(evt, b)
    BY <1>1 DEF RowPre, RowChannels, RowFrame, StillBetween, Posted, Quiet, Untroubled,
                StoppedIsEmpty, VideoRuns, FramesFlow
  <2>4. RowAnswer(evt)
    BY <1>1 DEF RowAnswer
  <2>5. RowSettings(evt)
    BY <1>1, <2>1, ConstantsAssumption DEF ConstantsAssumption, MachineOK, RowSettings, settings
  <2>6. RowMoves(evt)
    BY <1>1, <2>1 DEF RowMoves, Quiet, LiveIsVideo
  <2> QED
    BY <2>2, <2>3, <2>4, <2>5, <2>6 DEF Row
<1> QED
  BY <1>1, PreviewStoppedRows, PreviewReadyRows, PreviewingRows, PrepareSnapshotRows, PicTakingRows,
     RecordingRows, VideoPicTakingRows, PreviewPicTakingRows DEF stateMachine

-----------------------------------------------------------------------------
(* The invariant                                                           *)

\* The death of the daemon has not been handled, and no picture was overtaken
Told == ~dead \/ "DAEMON_DIED" \in Range(evt_queue)
Calm == ~overtaken /\ Told

Queued(e)    == e \in Range(api_queue)
Coming(e)    == e \in Range(evt_queue)
Given(e, ok) == Result(e, ok) \in Range(results)
Answered(e)  == Given(e, TRUE) \/ Given(e, FALSE)
Waiting(e)   == fw = e /\ ~Queued(e) /\ ~Answered(e)

\* Once the machine handled the death it may have answered a call of these two
\* that nobody makes
Deferred == {"PREPARE_SNAPSHOT", "TAKE_PICTURE"}

\* The events of a call that are not posted, and whose answers are asked for
Known == CallEvents \ ({"CANCEL_PICTURE"} \cup IF Told THEN {} ELSE Deferred)

\* Is the event e in the sequence s at most once?
Once(s, e) == \A i, j \in DOMAIN s : s[i] = e /\ s[j] = e => i = j

\* Only posted events follow e in the queue s
PostedAfter(s, e) == \A i, j \in DOMAIN s : s[i] = e /\ i < j => s[j] \in Posted

\* An f comes after an e in the sequence s
Before(s, e, f) == \E i, j \in DOMAIN s : i < j /\ s[i] = e /\ s[j] = f

\* There is an e in s, and no f before it
Ahead(s, e, f) == \E i \in DOMAIN s : s[i] = e /\ \A j \in DOMAIN s : j < i => s[j] # f

\* There is at most one answer to e in the list rs
OnceFor(rs, e) ==
  \A i, j \in DOMAIN rs : rs[i].request_api = e /\ rs[j].request_api = e => i = j

\* The event of the call is in the queue or its answer in the list, once; what
\* else is there was posted
Mail ==
  /\ \A e \in Known : Queued(e) => fw = e /\ PostedAfter(api_queue, e)
  /\ \A e \in Known : Answered(e) => fw = e /\ ~Queued(e) /\ OnceFor(results, e)
  /\ fw \in Known /\ ~Queued(fw) => Range(api_queue) \subseteq Posted
  /\ fw \in {"SET_PARAMS_STOP", "SET_PARAMS_COMMIT", "SET_PARAMS_RESTART"} =>
       Range(api_queue) \subseteq Posted \cup {fw}

\* set_parameters is between its stop and its restart
Between ==
  \/ fw = "SET_PARAMS_STOP" /\ Given("SET_PARAMS_STOP", TRUE)
  \/ fw = "SET_PARAMS_COMMIT" /\ needRestart
  \/ fw = "SET_PARAMS_RESTART" /\ Queued("SET_PARAMS_RESTART")

ChannelsInv ==
  /\ StoppedIsEmpty(Between, m_state, channels)
  /\ VideoRuns(m_state, channels)
  /\ Untroubled => FramesFlow(Between, m_state, channels)
  /\ LiveIsVideo
  /\ longshot \/ fw \in CommandEvents => longshotUsed
  /\ fw = "SET_PARAMS_STOP" => needRestart
  /\ fw = "SET_PARAMS_COMMIT" /\ Given("SET_PARAMS_COMMIT", FALSE) => failures > 0 \/ dead

\* What the daemon owes and sends is for the call that waits
DaemonInv ==
  /\ ~dead => ~Coming("DAEMON_DIED")
  /\ \A e \in {"DAEMON_DIED", "PREP_SNAPSHOT_DONE", "READY_FOR_SNAPSHOT"} : Once(evt_queue, e)
  /\ Told =>
       /\ Coming("PREP_SNAPSHOT_DONE") => Waiting("PREPARE_SNAPSHOT")
       /\ Coming("READY_FOR_SNAPSHOT") => Waiting("TAKE_PICTURE")
       /\ m_state = "PREPARE_SNAPSHOT" => Waiting("PREPARE_SNAPSHOT")
       /\ phase = "preparing" =>
            /\ Waiting("PREPARE_SNAPSHOT") /\ ~Coming("PREP_SNAPSHOT_DONE")
            /\ m_state = "PREVIEW_PIC_TAKING" /\ retro
       /\ phase = "retro" =>
            /\ Waiting("TAKE_PICTURE") /\ ~Coming("READY_FOR_SNAPSHOT")
            /\ m_state = "PREVIEW_PIC_TAKING" /\ retro

Unhurried == notifier = "idle" /\ ~Coming("SNAPSHOT_DONE")

\* A picture with frames from the past begins when none is under way; it is
\* not cancelled behind its call
PictureInv ==
  /\ retro /\ fw \in {"PRE_TAKE_PICTURE", "TAKE_PICTURE"} => ~longshot
  /\ Told =>
       /\ retro /\ (\/ fw = "PRE_TAKE_PICTURE" /\ Given("PRE_TAKE_PICTURE", TRUE)
                    \/ fw = "TAKE_PICTURE" /\ Queued("TAKE_PICTURE")) =>
            m_state # "PREVIEW_PIC_TAKING"
       /\ \A e \in Deferred : Before(api_queue, e, "CANCEL_PICTURE") =>
            m_state \in {"RECORDING", "VIDEO_PIC_TAKING"}

\* The frames from the past are there, and the flash is not asked for
Fresh == phase = "ready" /\ Unhurried

\* While a call waits for the daemon its picture lasts
TakeInv ==
  Calm /\ Waiting("TAKE_PICTURE") =>
    /\ m_state = "PREVIEW_PIC_TAKING" /\ retro /\ Unhurried /\ ~Queued("CANCEL_PICTURE")
    /\ phase = "retro" \/ (phase = "ready" /\ Coming("READY_FOR_SNAPSHOT"))

FlashInv ==
  Calm /\ Waiting("PREPARE_SNAPSHOT") =>
    \/ m_state = "PREPARE_SNAPSHOT"
    \/ /\ m_state = "PREVIEW_PIC_TAKING" /\ retro /\ ~Queued("CANCEL_PICTURE")
       /\ \/ phase = "preparing" /\ Unhurried
          \/ Ahead(evt_queue, "PREP_SNAPSHOT_DONE", "SNAPSHOT_DONE")

FreshInv ==
  Calm /\ retro /\ m_state = "PREVIEW_PIC_TAKING"
    /\ (\/ fw = "PREPARE_SNAPSHOT" /\ Queued("PREPARE_SNAPSHOT")
        \/ fw = "TAKE_PICTURE" /\ Answered("TAKE_PICTURE")) => Fresh

WaiterInv ==
  fw # None /\ ~overtaken =>
    \/ Queued(fw)
    \/ woken /\ Answered(fw)
    \/ Calm /\ Waiting(fw) /\ fw \in Deferred

IInv ==
  /\ TypeOK /\ Mail /\ ChannelsInv /\ DaemonInv
  /\ PictureInv /\ TakeInv /\ FlashInv /\ FreshInv /\ WaiterInv

-----------------------------------------------------------------------------
(* Sequences                                                               *)

\* What an event at the end of a queue changes
LEMMA AppendFacts ==
  ASSUME NEW S, NEW s \in Seq(S), NEW x \in S
  PROVE  /\ Append(s, x) \in Seq(S) /\ Range(Append(s, x)) = Range(s) \cup {x}
         /\ \A e : Once(s, e) /\ (x = e => e \notin Range(s)) => Once(Append(s, x), e)
         /\ \A e : x \in Posted /\ PostedAfter(s, e) => PostedAfter(Append(s, x), e)
         /\ \A e : e \notin Range(s) => PostedAfter(Append(s, x), e)
         /\ \A e, f : Before(Append(s, x), e, f) => Before(s, e, f) \/ (x = f /\ e \in Range(s))
         /\ \A e, f : Ahead(s, e, f) => Ahead(Append(s, x), e, f)
         /\ \A f : f \notin Range(s) => Ahead(Append(s, x), x, f)
<1> DEFINE t == Append(s, x)
           n == Len(s)
<1>1. /\ t \in Seq(S) /\ Len(t) = n + 1 /\ n \in Nat
      /\ DOMAIN s = 1 .. n /\ DOMAIN t = 1 .. n + 1
      /\ \A i \in 1 .. n : t[i] = s[i]
      /\ t[n + 1] = x
  OBVIOUS
<1> HIDE DEF t, n
<1>2. Range(t) = Range(s) \cup {x}
  <2>1. Range(t) \subseteq Range(s) \cup {x}
    BY <1>1 DEF Range
  <2>2. Range(s) \subseteq Range(t)
    BY <1>1 DEF Range
  <2>3. n + 1 \in DOMAIN t
    BY <1>1
  <2>4. x \in Range(t)
    BY <1>1, <2>3 DEF Range
  <2> QED
    BY <2>1, <2>2, <2>4
<1>3. \A i \in DOMAIN s : s[i] \in Range(s)
  BY DEF Range
<1>4. \A e : Once(s, e) /\ (x = e => e \notin Range(s)) => Once(t, e)
  BY <1>1, <1>3 DEF Once
<1>5. \A e : x \in Posted /\ PostedAfter(s, e) => PostedAfter(t, e)
  BY <1>1 DEF PostedAfter
<1>6. \A e : e \notin Range(s) => PostedAfter(t, e)
  BY <1>1, <1>3 DEF PostedAfter
<1>7. \A e, f : Before(t, e, f) => Before(s, e, f) \/ (x = f /\ e \in Range(s))
  BY <1>1, <1>3 DEF Before
<1>8. \A e, f : Ahead(s, e, f) => Ahead(t, e, f)
  BY <1>1 DEF Ahead
<1>9. \A f : f \notin Range(s) => Ahead(t, x, f)
  <2> TAKE f
  <2> SUFFICES ASSUME f \notin Range(s) PROVE Ahead(t, x, f)
    OBVIOUS
  <2>1. n + 1 \in DOMAIN t /\ t[n + 1] = x
    BY <1>1
  <2>2. \A j \in DOMAIN t : j < n + 1 => t[j] # f
    BY <1>1, <1>3
  <2> QED
    BY <2>1, <2>2 DEF Ahead
<1> QED
  BY <1>1, <1>2, <1>4, <1>5, <1>6, <1>7, <1>8, <1>9 DEF t

\* What taking the first event from a queue changes
LEMMA TailFacts ==
  ASSUME NEW S, NEW s \in Seq(S), s # <<>>
  PROVE  /\ Head(s) \in S /\ Tail(s) \in Seq(S) /\ Range(s) = {Head(s)} \cup Range(Tail(s))
         /\ \A e : Once(s, e) => Once(Tail(s), e) /\ (Head(s) = e => e \notin Range(Tail(s)))
         /\ \A e : PostedAfter(s, e) => PostedAfter(Tail(s), e) /\ (Head(s) = e => Range(Tail(s)) \subseteq Posted)
         /\ \A e, f : Before(Tail(s), e, f) => Before(s, e, f) /\ e \in Range(Tail(s))
         /\ \A f : f \in Range(Tail(s)) => Before(s, Head(s), f)
         /\ \A e, f : Ahead(s, e, f) /\ Head(s) # e => Ahead(Tail(s), e, f) /\ Head(s) # f
<1> DEFINE t == Tail(s)
           n == Len(s)
           h == Head(s)
<1>1. /\ t \in Seq(S) /\ n \in Nat /\ n > 0 /\ h = s[1] /\ h \in S
      /\ DOMAIN s = 1 .. n /\ DOMAIN t = 1 .. n - 1
      /\ \A i \in 1 .. n - 1 : t[i] = s[i + 1]
  BY HeadTailProperties, EmptySeq, LenProperties
<1> HIDE DEF t, n, h
<1>2. \A i \in 2 .. n : i - 1 \in DOMAIN t /\ s[i] = t[i - 1]
  BY <1>1
<1>11. \A i \in DOMAIN s : i = 1 \/ i \in 2 .. n
  BY <1>1
<1>12. \A i \in DOMAIN t : i + 1 \in DOMAIN s /\ t[i] = s[i + 1] /\ 1 < i + 1 /\ 1 \in DOMAIN s
  BY <1>1
<1>3. \A i \in DOMAIN t : t[i] \in Range(t)
  BY DEF Range
<1>4. \A x \in Range(t) : \E i \in DOMAIN t : x = t[i]
  BY DEF Range
<1>5. Range(s) = {h} \cup Range(t)
  <2>1. Range(s) \subseteq {h} \cup Range(t)
    <3> SUFFICES ASSUME NEW i \in DOMAIN s PROVE s[i] \in {h} \cup Range(t)
      BY DEF Range
    <3>1. CASE i = 1
      BY <1>1, <3>1
    <3>2. CASE i \in 2 .. n
      <4>1. i - 1 \in DOMAIN t /\ s[i] = t[i - 1]
        BY <1>2, <3>2
      <4> QED
        BY <1>3, <4>1
    <3> QED
      BY <1>11, <3>1, <3>2
  <2>2. \A i \in DOMAIN s : s[i] \in Range(s)
    BY DEF Range
  <2>3. h \in Range(s)
    BY <1>1, <2>2
  <2>4. Range(t) \subseteq Range(s)
    <3> SUFFICES ASSUME NEW i \in DOMAIN t PROVE t[i] \in Range(s)
      BY <1>4
    <3> QED
      BY <1>12, <2>2
  <2> QED
    BY <2>1, <2>3, <2>4
<1>6. \A e : Once(s, e) => Once(t, e) /\ (h = e => e \notin Range(t))
  <2> TAKE e
  <2> SUFFICES ASSUME Once(s, e) PROVE Once(t, e) /\ (h = e => e \notin Range(t))
    OBVIOUS
  <2>1. Once(t, e)
    <3> SUFFICES ASSUME NEW i \in DOMAIN t, NEW j \in DOMAIN t, t[i] = e, t[j] = e PROVE i = j
      BY DEF Once
    <3>1. i + 1 = j + 1
      BY <1>12 DEF Once
    <3> QED
      BY <1>1, <3>1
  <2>2. h = e => e \notin Range(t)
    <3> SUFFICES ASSUME h = e, NEW i \in DOMAIN t, t[i] = e PROVE FALSE
      BY <1>4
    <3>1. 1 = i + 1
      BY <1>1, <1>12 DEF Once
    <3> QED
      BY <1>1, <3>1
  <2> QED
    BY <2>1, <2>2
<1>7. \A e : PostedAfter(s, e) => PostedAfter(t, e) /\ (h = e => Range(t) \subseteq Posted)
  <2> TAKE e
  <2> SUFFICES ASSUME PostedAfter(s, e) PROVE PostedAfter(t, e) /\ (h = e => Range(t) \subseteq Posted)
    OBVIOUS
  <2>1. PostedAfter(t, e)
    <3> SUFFICES ASSUME NEW i \in DOMAIN t, NEW j \in DOMAIN t, t[i] = e, i < j PROVE t[j] \in Posted
      BY DEF PostedAfter
    <3>1. i + 1 < j + 1
      BY <1>1
    <3> QED
      BY <1>12, <3>1 DEF PostedAfter
  <2>2. h = e => Range(t) \subseteq Posted
    <3> SUFFICES ASSUME h = e, NEW i \in DOMAIN t PROVE t[i] \in Posted
      BY <1>4
    <3> QED
      BY <1>1, <1>12 DEF PostedAfter
  <2> QED
    BY <2>1, <2>2
<1>8. \A e, f : Before(t, e, f) => Before(s, e, f) /\ e \in Range(t)
  <2> TAKE e, f
  <2> SUFFICES ASSUME Before(t, e, f) PROVE Before(s, e, f) /\ e \in Range(t)
    OBVIOUS
  <2>1. PICK i \in DOMAIN t, j \in DOMAIN t : i < j /\ t[i] = e /\ t[j] = f
    BY DEF Before
  <2>2. i + 1 \in DOMAIN s /\ j + 1 \in DOMAIN s /\ i + 1 < j + 1 /\ s[i + 1] = e /\ s[j + 1] = f
    BY <1>1, <2>1
  <2> QED
    BY <1>3, <2>1, <2>2 DEF Before
<1>9. \A f : f \in Range(t) => Before(s, h, f)
  <2> TAKE f
  <2> SUFFICES ASSUME f \in Range(t) PROVE Before(s, h, f)
    OBVIOUS
  <2>1. PICK j \in DOMAIN t : t[j] = f
    BY <1>4
  <2>2. 1 \in DOMAIN s /\ j + 1 \in DOMAIN s /\ 1 < j + 1 /\ s[1] = h /\ s[j + 1] = f
    BY <1>1, <2>1
  <2> QED
    BY <2>2 DEF Before
<1>10. \A e, f : Ahead(s, e, f) /\ h # e => Ahead(t, e, f) /\ h # f
  <2> TAKE e, f
  <2> SUFFICES ASSUME Ahead(s, e, f), h # e PROVE Ahead(t, e, f) /\ h # f
    OBVIOUS
  <2>1. PICK i \in DOMAIN s : s[i] = e /\ \A j \in DOMAIN s : j < i => s[j] # f
    BY DEF Ahead
  <2>2. i \in 2 .. n /\ 1 \in DOMAIN s /\ 1 < i
    BY <1>1, <2>1
  <2>3. i - 1 \in DOMAIN t /\ t[i - 1] = e
    BY <1>2, <2>1, <2>2
  <2>5. h # f
    BY <1>1, <2>1, <2>2
  <2>4. \A j \in DOMAIN t : j < i - 1 => t[j] # f
    <3> TAKE j \in DOMAIN t
    <3> HAVE j < i - 1
    <3>1. j + 1 < i
      BY <1>1, <2>2
    <3> QED
      BY <1>12, <2>1, <3>1
  <2> QED
    BY <2>3, <2>4, <2>5 DEF Ahead
<1> QED
  BY <1>1, <1>5, <1>6, <1>7, <1>8, <1>9, <1>10 DEF t, h

-----------------------------------------------------------------------------
(* Events and results                                                      *)

Entry == [request_api : CallEvents, status : BOOLEAN]

\* Which events are calls, posted, and known
LEMMA EventFacts ==
  /\ None \notin CallEvents /\ Deferred \subseteq CallEvents
  /\ Posted \subseteq APIEvents /\ "STOP_CAPTURE_CHANNEL" \notin CallEvents
  /\ \A evt \in APIEvents : evt \in CallEvents \/ evt = "STOP_CAPTURE_CHANNEL"
  /\ SetEvents \cup CommandEvents \cup {"PRE_TAKE_PICTURE"} \subseteq CallEvents
  /\ CallEvents \subseteq APIEvents
BY ConstantsAssumption
   DEF ConstantsAssumption, CallEvents, APIEvents, Posted, Deferred, SetEvents, PlayEvents,
       RecordEvents, PictureEvents, CommandEvents

\* Likewise
LEMMA KnownFacts ==
  /\ Known \subseteq CallEvents /\ None \notin Known /\ Known \cap Posted = {}
  /\ SetEvents \cup CommandEvents \cup {"PRE_TAKE_PICTURE"} \subseteq Known
  /\ CallEvents \ (Deferred \cup {"CANCEL_PICTURE"}) \subseteq Known
  /\ Told => Deferred \subseteq Known /\ \A evt \in APIEvents : evt \in Known \/ evt \in Posted
BY EventFacts DEF Known, Deferred, Posted, SetEvents, CommandEvents

\* A result is its event and its status.
LEMMA ResultFacts ==
  ASSUME NEW a, NEW x
  PROVE  /\ Result(a, x).request_api = a
         /\ \A e, y : Result(e, y) = Result(a, x) => e = a /\ y = x
         /\ a \in CallEvents /\ x \in BOOLEAN => Result(a, x) \in Entry
<1>1. \A e, y : Result(e, y).request_api = e /\ Result(e, y).status = y
  BY DEF Result
<1>2. a \in CallEvents /\ x \in BOOLEAN => Result(a, x) \in Entry
  BY DEF Result, Entry
<1>3. \A e, y : Result(e, y) = Result(a, x) => e = a /\ y = x
  <2> TAKE e, y
  <2> HAVE Result(e, y) = Result(a, x)
  <2>1. Result(e, y).request_api = Result(a, x).request_api /\ Result(e, y).status = Result(a, x).status
    OBVIOUS
  <2> QED
    BY <1>1, <2>1
<1> QED
  BY <1>1, <1>2, <1>3

\* Results are the same only if their events and statuses are.
LEMMA ResultsDiffer == \A a, x, e, y : Result(e, y) = Result(a, x) => e = a /\ y = x
<1> TAKE a, x, e, y
<1> QED
  BY ResultFacts

\* The entries of a list are results.
LEMMA EntryFacts ==
  ASSUME NEW rs \in Seq(Entry), NEW i \in DOMAIN rs
  PROVE  /\ rs[i].request_api \in CallEvents /\ rs[i].status \in BOOLEAN
         /\ rs[i] = Result(rs[i].request_api, rs[i].status)
         /\ Result(rs[i].request_api, rs[i].status) \in Range(rs)
<1>1. rs[i] \in Entry
  BY ElementOfSeq, LenProperties
<1>2. rs[i] = Result(rs[i].request_api, rs[i].status)
  BY <1>1 DEF Entry, Result
<1>3. rs[i] \in Range(rs)
  BY DEF Range
<1> QED
  BY <1>1, <1>2, <1>3 DEF Entry

\* A result at the end of a list
LEMMA ListAppend ==
  ASSUME NEW rs \in Seq(Entry), NEW a \in CallEvents, NEW ok \in BOOLEAN
  PROVE  /\ Append(rs, Result(a, ok)) \in Seq(Entry)
         /\ Range(Append(rs, Result(a, ok))) = Range(rs) \cup {Result(a, ok)}
         /\ \A e : OnceFor(rs, e) /\ (e = a => \A x \in BOOLEAN : Result(e, x) \notin Range(rs)) =>
              OnceFor(Append(rs, Result(a, ok)), e)
<1> DEFINE r == Result(a, ok)
           t == Append(rs, r)
           n == Len(rs)
<1>1. r \in Entry /\ r.request_api = a
  BY ResultFacts
<1> HIDE DEF r
<1>2. t \in Seq(Entry) /\ Range(t) = Range(rs) \cup {r}
  BY <1>1, AppendFacts
<1>3. /\ n \in Nat /\ DOMAIN rs = 1 .. n /\ DOMAIN t = 1 .. n + 1
      /\ \A i \in 1 .. n : t[i] = rs[i]
      /\ t[n + 1] = r
  BY <1>1
<1> HIDE DEF t, n
<1>4. \A i \in DOMAIN rs : rs[i].status \in BOOLEAN /\ Result(rs[i].request_api, rs[i].status) \in Range(rs)
  BY EntryFacts
<1>5. ASSUME NEW e, OnceFor(rs, e), e = a => \A x \in BOOLEAN : Result(e, x) \notin Range(rs)
      PROVE  OnceFor(t, e)
  <2>1. e = a => \A i \in DOMAIN rs : rs[i].request_api # e
    BY <1>4, <1>5
  <2>2. ASSUME NEW i \in DOMAIN t, NEW j \in DOMAIN t, t[i].request_api = e, t[j].request_api = e
        PROVE  i = j
    <3>1. CASE i \in 1 .. n /\ j \in 1 .. n
      BY <1>3, <1>5, <2>2, <3>1 DEF OnceFor
    <3>2. CASE i = n + 1 \/ j = n + 1
      <4>1. e = a
        BY <1>1, <1>3, <2>2, <3>2
      <4>2. i \notin 1 .. n /\ j \notin 1 .. n
        BY <1>3, <2>1, <2>2, <4>1
      <4> QED
        BY <1>3, <4>2
    <3> QED
      BY <1>3, <3>1, <3>2
  <2> QED
    BY <2>2 DEF OnceFor
<1> QED
  BY <1>2, <1>5 DEF t, r

\* A result is taken from a list.
LEMMA ListRemove ==
  ASSUME NEW rs \in Seq(Entry), NEW i \in DOMAIN rs
  PROVE  /\ RemoveAt(rs, i) \in Seq(Entry) /\ Range(RemoveAt(rs, i)) \subseteq Range(rs)
         /\ OnceFor(rs, rs[i].request_api) =>
              \A x : Result(rs[i].request_api, x) \notin Range(RemoveAt(rs, i))
<1> DEFINE n == Len(rs)
           u == SubSeq(rs, 1, i - 1)
           v == SubSeq(rs, i + 1, n)
           t == RemoveAt(rs, i)
           e == rs[i].request_api
<1>1. n \in Nat /\ DOMAIN rs = 1 .. n /\ i \in 1 .. n /\ \A j \in 1 .. n : rs[j] \in Entry
  BY ElementOfSeq, LenProperties
<1>2. u \in Seq(Entry) /\ Len(u) = i - 1 /\ \A j \in 1 .. i - 1 : u[j] = rs[j]
  BY <1>1
<1>3. v \in Seq(Entry) /\ Len(v) = n - i /\ \A j \in 1 .. n - i : v[j] = rs[i + j]
  <2>1. i + 1 \in Int /\ n \in Int /\ \A j \in i + 1 .. n : rs[j] \in Entry
    BY <1>1
  <2>2. /\ v \in Seq(Entry) /\ Len(v) = IF i + 1 <= n THEN n - (i + 1) + 1 ELSE 0
        /\ \A j \in 1 .. n - (i + 1) + 1 : v[j] = rs[(i + 1) + j - 1]
    BY <2>1, SubSeqProperties
  <2>3. n - (i + 1) + 1 = n - i
    BY <1>1
  <2>4. \A j \in 1 .. n - i : v[j] = rs[i + j]
    <3> TAKE j \in 1 .. n - i
    <3>1. (i + 1) + j - 1 = i + j
      BY <1>1
    <3> QED
      BY <2>2, <2>3, <3>1
  <2> HIDE DEF v
  <2> QED
    BY <1>1, <2>2, <2>3, <2>4
<1>4. t = u \o v
  BY DEF RemoveAt
<1> HIDE DEF n, u, v, t
<1>5. /\ t \in Seq(Entry) /\ DOMAIN t = 1 .. n - 1
      /\ \A j \in 1 .. n - 1 : t[j] = IF j <= i - 1 THEN u[j] ELSE v[j - (i - 1)]
  BY <1>1, <1>2, <1>3, <1>4, ConcatProperties, LenProperties
<1>6. \A j \in DOMAIN t : \E k \in DOMAIN rs : k # i /\ t[j] = rs[k]
  <2> TAKE j \in DOMAIN t
  <2>1. CASE j <= i - 1
    <3>1. j \in 1 .. i - 1 /\ j \in DOMAIN rs /\ j # i
      BY <1>1, <1>5, <2>1
    <3>2. t[j] = rs[j]
      BY <1>2, <1>5, <2>1, <3>1
    <3> QED
      BY <3>1, <3>2
  <2>2. CASE ~(j <= i - 1)
    <3>1. j - (i - 1) \in 1 .. n - i /\ i + (j - (i - 1)) = j + 1
      BY <1>1, <1>5, <2>2
    <3>2. t[j] = rs[j + 1] /\ j + 1 \in DOMAIN rs /\ j + 1 # i
      BY <1>1, <1>3, <1>5, <2>2, <3>1
    <3> QED
      BY <3>2
  <2> QED
    BY <2>1, <2>2
<1>7. \A r \in Range(t) : \E k \in DOMAIN rs : k # i /\ r = rs[k]
  BY <1>6 DEF Range
<1>8. Range(t) \subseteq Range(rs)
  BY <1>7 DEF Range
<1>9. ASSUME OnceFor(rs, e), NEW x, Result(e, x) \in Range(t)
      PROVE  FALSE
  <2>1. PICK k \in DOMAIN rs : k # i /\ Result(e, x) = rs[k]
    BY <1>7, <1>9
  <2>2. rs[k].request_api = e
    BY <2>1, ResultFacts
  <2> QED
    BY <1>9, <2>1, <2>2 DEF OnceFor
<1> QED
  BY <1>5, <1>8, <1>9 DEF t

-----------------------------------------------------------------------------
(* The framework's calls                                                   *)

\* What the type invariant says of the parts
LEMMA TypeFacts ==
  ASSUME TypeOK
  PROVE  /\ MachineOK /\ results \in Seq(Entry)
         /\ api_queue \in Seq(APIEvents) /\ evt_queue \in Seq(Events)
BY DEF TypeOK, MachineOK, Entry, Chan, Param

\* The invariant holds initially.
LEMMA InitInvariant == Init => IInv
<1> SUFFICES ASSUME Init PROVE IInv
  OBVIOUS
<1>1. /\ m_state = "PREVIEW_STOPPED" /\ api_queue = <<>> /\ evt_queue = <<>> /\ results = <<>>
      /\ fw = None /\ phase = "idle" /\ dead = FALSE /\ longshot = FALSE /\ retro = FALSE
      /\ channels = [k \in {"zsl", "preview", "video", "capture"} |-> "none"]
  BY DEF Init
<1>2. Range(<<>>) = {}
  BY DEF Range
<1>3. \A e : ~Queued(e) /\ ~Coming(e) /\ ~Answered(e)
  BY <1>1, <1>2 DEF Queued, Coming, Answered, Given
<1>4. None \notin CallEvents
  BY EventFacts
<1>5. fw \notin SetEvents \cup CommandEvents \cup PictureEvents
  BY <1>1, <1>4 DEF CallEvents
<1>6. TypeOK
  <2>1. api_queue \in Seq(APIEvents) /\ evt_queue \in Seq(Events)
        /\ results \in Seq([request_api : CallEvents, status : BOOLEAN])
    BY <1>1
  <2>2. failures \in 0 .. MaxFailures /\ calls \in 0 .. MaxCalls
    BY ConstantsAssumption DEF ConstantsAssumption, Init
  <2>3. fw \in CallEvents \cup {None}
    BY <1>1
  <2>4. m_state \in States /\ phase \in Phases
    BY <1>1 DEF States, Phases
  <2>5. channels \in [{"zsl", "preview", "video", "capture"} -> {"none", "ready", "running"}]
    BY <1>1
  <2>6. params \in [zsl : BOOLEAN, hint : BOOLEAN] /\ newParams \in [zsl : BOOLEAN, hint : BOOLEAN]
    BY DEF Init
  <2> QED
    BY <2>1, <2>2, <2>3, <2>4, <2>5, <2>6 DEF Init, TypeOK
<1>7. Mail
  BY <1>1, <1>2, <1>3, <1>5, KnownFacts DEF Mail, SetEvents, Queued
<1>8. ChannelsInv
  <2>1. Empty(channels)
    BY <1>1 DEF Empty
  <2>2. fw \notin {"SET_PARAMS_STOP", "SET_PARAMS_COMMIT", "SET_PARAMS_RESTART"}
    BY <1>5 DEF SetEvents
  <2> QED
    BY <1>1, <1>5, <2>1, <2>2 DEF ChannelsInv, Between, StoppedIsEmpty, VideoRuns, FramesFlow, LiveIsVideo
<1>9. DaemonInv
  <2>1. DOMAIN evt_queue = {}
    BY <1>1
  <2> QED
    BY <1>1, <1>3, <2>1 DEF DaemonInv, Once
<1>10. PictureInv
  <2>1. DOMAIN api_queue = {}
    BY <1>1
  <2> QED
    BY <1>1, <1>3, <1>5, <2>1 DEF PictureInv, Before, PictureEvents
<1>11. TakeInv /\ FlashInv /\ FreshInv /\ WaiterInv
  BY <1>1, <1>5 DEF TakeInv, FlashInv, FreshInv, WaiterInv, Waiting, PictureEvents
<1> QED
  BY <1>6, <1>7, <1>8, <1>9, <1>10, <1>11 DEF IInv

\* While no call waits, no known event is in the queue or in the list, and
\* the daemon owes nothing.
LEMMA NoCall ==
  ASSUME IInv, fw = None
  PROVE  /\ \A e \in Known : ~Queued(e) /\ ~Answered(e)
         /\ \A e \in CallEvents : ~Waiting(e) /\ fw # e
         /\ Told => /\ ~Coming("PREP_SNAPSHOT_DONE") /\ ~Coming("READY_FOR_SNAPSHOT")
                    /\ m_state # "PREPARE_SNAPSHOT" /\ phase \notin {"preparing", "retro"}
<1>1. Mail /\ DaemonInv
  BY DEF IInv
<1>2. \A e \in CallEvents : ~Waiting(e) /\ fw # e
  BY EventFacts DEF Waiting
<1>3. \A e \in Known : ~Queued(e) /\ ~Answered(e)
  BY <1>1, KnownFacts DEF Mail
<1>4. ~Waiting("PREPARE_SNAPSHOT") /\ ~Waiting("TAKE_PICTURE")
  BY <1>2, EventFacts DEF Deferred
<1> QED
  BY <1>1, <1>2, <1>3, <1>4 DEF DaemonInv

\* A call begins with its first event.
LEMMA CallBegins ==
  ASSUME IInv, fw = None, NEW evt \in (CallEvents \ (SetEvents \cup {"TAKE_PICTURE"})) \cup {"SET_PARAMS"},
         processAPI(evt), fw' = evt, woken' = FALSE, retro' \in BOOLEAN,
         evt = "PREPARE_SNAPSHOT" => ~retro',
         evt = "PRE_TAKE_PICTURE" /\ retro' => ~longshot,
         longshotUsed' = (longshotUsed \/ evt \in CommandEvents),
         calls < MaxCalls, calls' = calls + 1,
         UNCHANGED <<results, machine, elsewhere>>
  PROVE  IInv'
<1>1. /\ TypeOK /\ Mail /\ ChannelsInv /\ DaemonInv /\ PictureInv
      /\ MachineOK /\ results \in Seq(Entry) /\ api_queue \in Seq(APIEvents) /\ evt_queue \in Seq(Events)
  BY TypeFacts DEF IInv
<1>2. evt \in CallEvents /\ evt \in APIEvents
  BY EventFacts DEF SetEvents
<1>3. /\ UNCHANGED <<results, evt_queue, notifier, restart, dead, m_state, channels, params, newParams,
                     needRestart, window, longshot, phase, overtaken, failures>>
      /\ api_queue' = Append(api_queue, evt)
  BY DEF machine, elsewhere, settings, processAPI
<1>4. /\ \A e \in Known : ~Queued(e) /\ ~Answered(e)
      /\ \A e \in CallEvents : ~Waiting(e) /\ fw # e
      /\ Told => /\ ~Coming("PREP_SNAPSHOT_DONE") /\ ~Coming("READY_FOR_SNAPSHOT")
                 /\ m_state # "PREPARE_SNAPSHOT" /\ phase \notin {"preparing", "retro"}
  BY NoCall
<1>5. /\ Told' = Told /\ Calm' = Calm /\ Known' = Known
      /\ \A e : Coming(e)' = Coming(e) /\ Answered(e)' = Answered(e)
      /\ \A e, ok : Given(e, ok)' = Given(e, ok)
  BY <1>3 DEF Told, Calm, Known, Coming, Answered, Given
<1>6. \A e : Queued(e)' = (Queued(e) \/ e = evt)
  BY <1>1, <1>2, <1>3, AppendFacts DEF Queued
<1>7. PostedAfter(api_queue, evt)' \/ evt \notin Known
  BY <1>1, <1>2, <1>3, <1>4, AppendFacts DEF Queued
<1>8. TypeOK'
  <2>1. api_queue' \in Seq(APIEvents)
    BY <1>1, <1>2, <1>3, AppendFacts
  <2>2. calls' \in 0 .. MaxCalls
    BY <1>1, ConstantsAssumption DEF TypeOK, ConstantsAssumption
  <2>3. longshotUsed' \in BOOLEAN /\ woken' \in BOOLEAN /\ fw' \in CallEvents \cup {None}
    BY <1>1, <1>2 DEF TypeOK
  <2> QED
    BY <1>1, <1>3, <2>1, <2>2, <2>3 DEF TypeOK
<1>9. Mail'
  <2>1. evt \notin {"SET_PARAMS_STOP", "SET_PARAMS_COMMIT", "SET_PARAMS_RESTART"}
    BY DEF SetEvents
  <2>2. \A e \in Known' : Queued(e)' => fw' = e /\ PostedAfter(api_queue, e)'
    BY <1>4, <1>5, <1>6, <1>7
  <2>3. \A e \in Known' : ~Answered(e)'
    BY <1>4, <1>5
  <2>4. Queued(fw)'
    BY <1>6 DEF Queued
  <2> QED
    BY <2>1, <2>2, <2>3, <2>4 DEF Mail
<1>10. ChannelsInv'
  <2>1. evt \notin {"SET_PARAMS_STOP", "SET_PARAMS_COMMIT", "SET_PARAMS_RESTART"}
    BY DEF SetEvents
  <2>2. Between' = FALSE /\ Between = FALSE
    BY <1>4, <2>1, EventFacts DEF Between, SetEvents
  <2>3. Untroubled' => Untroubled
    BY <1>1, <1>3 DEF Untroubled, TypeOK
  <2> QED
    BY <1>1, <1>3, <2>1, <2>2, <2>3 DEF ChannelsInv, StoppedIsEmpty, VideoRuns, FramesFlow, LiveIsVideo
<1>11. DaemonInv'
  BY <1>1, <1>3, <1>4, <1>5 DEF DaemonInv
<1>12. PictureInv'
  <2>1. ASSUME Told, NEW e \in Deferred, Before(api_queue, e, "CANCEL_PICTURE")' PROVE FALSE
    <3>1. e \in Known
      BY <2>1, KnownFacts
    <3>2. CASE Before(api_queue, e, "CANCEL_PICTURE")
      BY <3>1, <3>2, <1>4 DEF Before, Queued, Range
    <3>3. CASE e \in Range(api_queue)
      BY <3>1, <3>3, <1>4 DEF Queued
    <3> QED
      BY <1>1, <1>2, <1>3, <2>1, <3>2, <3>3, AppendFacts
  <2>2. Told => ~Given("PRE_TAKE_PICTURE", TRUE)
    BY <1>4, KnownFacts DEF Answered
  <2> QED
    BY <1>3, <1>5, <2>1, <2>2 DEF PictureInv
<1>13. TakeInv' /\ FlashInv' /\ WaiterInv'
  BY <1>6 DEF TakeInv, FlashInv, WaiterInv, Waiting, Queued
<1>14. FreshInv'
  BY DEF FreshInv
<1> QED
  BY <1>8, <1>9, <1>10, <1>11, <1>12, <1>13, <1>14 DEF IInv

\* A call of one event, or set_parameters or start_recording
LEMMA CallStep == ASSUME IInv, Call PROVE IInv'
<1>1. PICK evt \in {"SET_PARAMS", "PRE_START_RECORDING", "STOP_RECORDING", "CANCEL_PICTURE", "STOP_PREVIEW",
                    "SET_PREVIEW_WINDOW", "RELEASE", "PLAIN"} \cup PlayEvents \cup CommandEvents :
        processAPI(evt) /\ fw' = evt /\ longshotUsed' = (longshotUsed \/ evt \in CommandEvents)
  BY DEF Call
<1>2. evt \in CallEvents
  BY <1>1 DEF CallEvents, SetEvents, RecordEvents
<1>4. evt \notin PictureEvents /\ (evt \in SetEvents => evt = "SET_PARAMS")
  BY <1>1 DEF SetEvents, PictureEvents, PlayEvents, CommandEvents
<1>3. retro' \in BOOLEAN
  BY DEF Call, IInv, TypeOK
<1> QED
  BY <1>1, <1>2, <1>3, <1>4, CallBegins DEF Call, PictureEvents

\* A picture
LEMMA TakePictureStep == ASSUME IInv, take_picture PROVE IInv'
<1>1. fw' \in {"PREPARE_SNAPSHOT", "PRE_TAKE_PICTURE"} /\ fw' \notin CommandEvents
  BY DEF take_picture, CommandEvents
<1>2. fw' \in (CallEvents \ (SetEvents \cup {"TAKE_PICTURE"})) \cup {"SET_PARAMS"}
  BY <1>1 DEF CallEvents, SetEvents, PictureEvents
<1>3. retro' \in BOOLEAN /\ longshotUsed \in BOOLEAN
  BY DEF take_picture, IInv, TypeOK
<1>4. longshotUsed' = (longshotUsed \/ fw' \in CommandEvents)
  BY <1>1, <1>3 DEF take_picture
<1> QED
  BY <1>1, <1>2, <1>3, <1>4, CallBegins DEF take_picture

\* The call finds a result, and goes on or returns.
LEMMA AnswerFound ==
  ASSUME IInv, fw # None, woken' = FALSE, NEW i \in DOMAIN results, IsFirst(i, fw),
         results' = RemoveAt(results, i),
         NEW next \in Onward(fw, results[i].status),
         fw' = next, IF next = None THEN UNCHANGED api_queue ELSE processAPI(next),
         UNCHANGED <<retro, longshotUsed, calls, machine, elsewhere>>
  PROVE  IInv'
<1> DEFINE ok == results[i].status
<1>1. /\ TypeOK /\ Mail /\ ChannelsInv /\ DaemonInv /\ PictureInv /\ FreshInv
      /\ MachineOK /\ results \in Seq(Entry) /\ api_queue \in Seq(APIEvents) /\ evt_queue \in Seq(Events)
  BY TypeFacts DEF IInv
<1>2. ok \in BOOLEAN /\ fw \in CallEvents /\ results[i].request_api = fw /\ Given(fw, ok)
  <2>1. results[i].request_api = fw
    BY DEF IsFirst
  <2> QED
    BY <1>1, <2>1, EntryFacts DEF Given
<1> HIDE DEF ok
<1>3. Answered(fw) /\ \A e : ~Waiting(e)
  <2>1. Answered(fw)
    BY <1>2 DEF Answered
  <2> QED
    BY <2>1 DEF Waiting
<1>4. next \in Onward(fw, ok)
  BY DEF ok
<1>5. \/ next = None
      \/ fw = "SET_PARAMS" /\ ok /\ next = IF needRestart THEN "SET_PARAMS_STOP" ELSE "SET_PARAMS_COMMIT"
      \/ fw = "SET_PARAMS_STOP" /\ ok /\ next = "SET_PARAMS_COMMIT"
      \/ fw = "SET_PARAMS_COMMIT" /\ ok /\ needRestart /\ next = "SET_PARAMS_RESTART"
      \/ fw = "PRE_START_RECORDING" /\ next = "START_RECORDING"
      \/ fw = "PREPARE_SNAPSHOT" /\ ~retro /\ next = "PRE_TAKE_PICTURE"
      \/ fw = "PRE_TAKE_PICTURE" /\ ok /\ next = "TAKE_PICTURE"
      \/ fw = "TAKE_PICTURE" /\ retro /\ next = "PREPARE_SNAPSHOT"
  BY <1>2, <1>4 DEF Onward
<1>6. /\ fw = "SET_PARAMS_STOP" /\ ok => next # None
      /\ fw = "SET_PARAMS_COMMIT" /\ ok /\ needRestart => next # None
  <2>1. None # "SET_PARAMS_COMMIT" /\ None # "SET_PARAMS_RESTART"
    BY EventFacts DEF SetEvents
  <2> QED
    BY <1>2, <1>4, <2>1 DEF Onward
<1>7. /\ UNCHANGED <<evt_queue, notifier, restart, dead, m_state, channels, params, newParams,
                     needRestart, window, longshot, phase, overtaken, failures, retro, longshotUsed, calls>>
  BY DEF machine, elsewhere, settings
<1>8. /\ Told' = Told /\ Calm' = Calm /\ Known' = Known
      /\ \A e : Coming(e)' = Coming(e)
  BY <1>7 DEF Told, Calm, Known, Coming
<1>9. /\ fw \in Known => Range(api_queue) \subseteq Posted /\ OnceFor(results, fw)
      /\ \A e \in Known : ~Queued(e)
  <2>1. CASE fw \in Known
    <3>1. Range(api_queue) \subseteq Posted /\ OnceFor(results, fw)
      BY <1>1, <1>3, <2>1 DEF Mail
    <3> QED
      BY <3>1, KnownFacts DEF Queued
  <2>2. CASE fw \notin Known
    BY <1>1, <2>2 DEF Mail
  <2> QED
    BY <2>1, <2>2
<1>10. /\ results' \in Seq(Entry)
       /\ \A e, x : Given(e, x)' => Given(e, x)
       /\ \A e \in Known : ~Answered(e)'
  <2>1. /\ results' \in Seq(Entry) /\ Range(results') \subseteq Range(results)
        /\ OnceFor(results, fw) => \A x : Result(fw, x) \notin Range(results')
    BY <1>1, <1>2, ListRemove
  <2>2. \A e, x : Given(e, x)' => Given(e, x)
    BY <2>1 DEF Given
  <2>3. \A e \in Known : ~Answered(e)'
    <3> TAKE e \in Known
    <3>1. CASE e = fw
      BY <1>9, <2>1, <3>1 DEF Answered, Given
    <3>2. CASE e # fw
      BY <1>1, <2>2, <3>2 DEF Mail, Answered
    <3> QED
      BY <3>1, <3>2
  <2> QED
    BY <2>1, <2>2, <2>3
<1>11. next # None => next \in CallEvents /\ next \in APIEvents /\ next # "CANCEL_PICTURE"
  BY <1>5, EventFacts DEF SetEvents, CallEvents, RecordEvents, PictureEvents
<1>12. /\ api_queue' \in Seq(APIEvents)
       /\ \A e : Queued(e)' = (Queued(e) \/ (next # None /\ e = next))
       /\ \A e : PostedAfter(api_queue, e) => PostedAfter(api_queue, e)' \/ next # None
       /\ next \in Known => PostedAfter(api_queue, next)'
       /\ \A e, f : Before(api_queue, e, f)' => Before(api_queue, e, f) \/ (next = f /\ Queued(e))
  <2>1. CASE next = None
    BY <1>1, <2>1, KnownFacts DEF Queued
  <2>2. CASE next # None
    <3>1. api_queue' = Append(api_queue, next)
      BY <2>2 DEF processAPI
    <3>2. /\ api_queue' \in Seq(APIEvents) /\ Range(api_queue') = Range(api_queue) \cup {next}
          /\ \A e : e \notin Range(api_queue) => PostedAfter(api_queue', e)
          /\ \A e, f : Before(api_queue', e, f) => Before(api_queue, e, f) \/ (next = f /\ e \in Range(api_queue))
      BY <1>1, <1>11, <2>2, <3>1, AppendFacts
    <3> QED
      BY <1>9, <2>2, <3>2 DEF Queued
  <2> QED
    BY <2>1, <2>2
<1>13. TypeOK'
  <2>1. fw' \in CallEvents \cup {None} /\ woken' \in BOOLEAN
    BY <1>11
  <2>2. results' \in Seq([request_api : CallEvents, status : BOOLEAN])
    BY <1>10 DEF Entry
  <2> QED
    BY <1>1, <1>7, <1>12, <2>1, <2>2 DEF TypeOK
<1>14. Mail'
  <2>1. \A e \in Known' : Queued(e)' => fw' = e /\ PostedAfter(api_queue, e)'
    BY <1>8, <1>9, <1>12
  <2>2. \A e \in Known' : ~Answered(e)'
    BY <1>8, <1>10
  <2>3. fw' \in Known' => Queued(fw)'
    BY <1>8, <1>12, KnownFacts DEF Queued
  <2>4. fw' \in {"SET_PARAMS_STOP", "SET_PARAMS_COMMIT", "SET_PARAMS_RESTART"} =>
          (Range(api_queue) \subseteq Posted \cup {fw})'
    <3> SUFFICES ASSUME next \in {"SET_PARAMS_STOP", "SET_PARAMS_COMMIT", "SET_PARAMS_RESTART"}
                 PROVE  Range(api_queue') \subseteq Posted \cup {next}
      OBVIOUS
    <3>1. next # None
      BY EventFacts DEF SetEvents
    <3>2. fw \in Known
      BY <1>5, <3>1, KnownFacts DEF SetEvents
    <3> QED
      BY <1>9, <1>12, <3>2 DEF Queued
  <2> QED
    BY <2>1, <2>2, <2>3, <2>4 DEF Mail
<1>15. ChannelsInv'
  <2>1. \A e \in {"SET_PARAMS_STOP", "SET_PARAMS_COMMIT", "SET_PARAMS_RESTART"} :
          e \in Known /\ ~Queued(e) /\ ~Answered(e)' /\ e # None
    BY <1>9, <1>10, KnownFacts DEF SetEvents
  <2>2. next = "SET_PARAMS_STOP" => needRestart
    BY <1>1, <1>5, <2>1 DEF TypeOK
  <2>3. Between' => Between
    <3>1. Between' => (fw' = "SET_PARAMS_COMMIT" /\ needRestart) \/ fw' = "SET_PARAMS_RESTART"
      BY <1>7, <2>1 DEF Between, Answered
    <3>2. next = "SET_PARAMS_COMMIT" /\ needRestart => Between
      BY <1>1, <1>2, <1>5, <2>1 DEF Between, TypeOK
    <3>3. next = "SET_PARAMS_RESTART" => Between
      BY <1>5, <2>1 DEF Between
    <3> QED
      BY <3>1, <3>2, <3>3
  <2>4. Between /\ Untroubled' => Between'
    <3> SUFFICES ASSUME Between, Untroubled' PROVE Between'
      OBVIOUS
    <3>1. CASE fw = "SET_PARAMS_STOP" /\ Given("SET_PARAMS_STOP", TRUE)
      <4>1. ok = TRUE
        <5>1. OnceFor(results, fw)
          BY <1>9, <2>1, <3>1
        <5>2. PICK j \in DOMAIN results : results[j] = Result(fw, TRUE)
          BY <3>1 DEF Given, Range
        <5>3. results[j].request_api = fw /\ results[j].status = TRUE
          BY <5>2 DEF Result
        <5>4. j = i
          BY <1>2, <5>1, <5>3 DEF OnceFor
        <5> QED
          BY <5>3, <5>4 DEF ok
      <4>2. next = "SET_PARAMS_COMMIT"
        BY <1>5, <1>6, <3>1, <4>1
      <4>3. needRestart
        BY <1>1, <3>1 DEF ChannelsInv
      <4> QED
        BY <1>7, <4>2, <4>3 DEF Between
    <3>2. CASE fw = "SET_PARAMS_COMMIT" /\ needRestart
      <4>1. ok = TRUE
        <5> SUFFICES ASSUME ok = FALSE PROVE FALSE
          BY <1>2
        <5>1. failures > 0 \/ dead
          BY <1>1, <1>2, <3>2 DEF ChannelsInv
        <5> QED
          BY <1>1, <1>7, <5>1 DEF Untroubled, TypeOK
      <4>2. next = "SET_PARAMS_RESTART"
        BY <1>5, <1>6, <3>2, <4>1
      <4> QED
        BY <1>12, <2>1, <4>2 DEF Between
    <3>3. CASE fw = "SET_PARAMS_RESTART" /\ Queued("SET_PARAMS_RESTART")
      BY <2>1, <3>3
    <3> QED
      BY <3>1, <3>2, <3>3 DEF Between
  <2>5. Untroubled' = Untroubled /\ Between \in BOOLEAN /\ Between' \in BOOLEAN
    BY <1>7 DEF Untroubled, Between
  <2>6. /\ StoppedIsEmpty(Between, m_state, channels)'
        /\ Untroubled' => FramesFlow(Between, m_state, channels)'
    BY <1>1, <1>7, <2>3, <2>4, <2>5 DEF ChannelsInv, StoppedIsEmpty, FramesFlow
  <2>7. fw' \notin CommandEvents
    BY <1>5, KnownFacts DEF CommandEvents
  <2>8. fw' = "SET_PARAMS_COMMIT" => ~Given("SET_PARAMS_COMMIT", FALSE)'
    BY <2>1 DEF Answered
  <2>9. VideoRuns(m_state, channels)' /\ LiveIsVideo' /\ (longshot' => longshotUsed')
    BY <1>1, <1>7 DEF ChannelsInv, VideoRuns, LiveIsVideo
  <2>10. fw' = "SET_PARAMS_STOP" => needRestart'
    BY <1>7, <2>2
  <2> QED
    BY <2>6, <2>7, <2>8, <2>9, <2>10 DEF ChannelsInv
<1>16. DaemonInv'
  BY <1>1, <1>3, <1>7, <1>8 DEF DaemonInv
<1>17. PictureInv'
  <2>1. retro' /\ fw' \in {"PRE_TAKE_PICTURE", "TAKE_PICTURE"} =>
          fw = "PRE_TAKE_PICTURE" /\ ok = TRUE /\ fw' = "TAKE_PICTURE"
    BY <1>2, <1>5, <1>7, EventFacts DEF Deferred
  <2>2. ASSUME Told, NEW e \in Deferred PROVE ~Before(api_queue, e, "CANCEL_PICTURE")'
    <3>1. ~Queued(e)
      BY <1>9, <2>2, KnownFacts
    <3>2. ~Before(api_queue, e, "CANCEL_PICTURE")
      BY <3>1 DEF Before, Queued, Range
    <3> QED
      BY <1>12, <3>1, <3>2
  <2>3. retro' /\ fw' \in {"PRE_TAKE_PICTURE", "TAKE_PICTURE"} => ~longshot'
    BY <1>1, <1>7, <2>1 DEF PictureInv
  <2>4. Told /\ retro' /\ fw' \in {"PRE_TAKE_PICTURE", "TAKE_PICTURE"} => m_state' # "PREVIEW_PIC_TAKING"
    <3> SUFFICES ASSUME Told, retro', fw' \in {"PRE_TAKE_PICTURE", "TAKE_PICTURE"}
                 PROVE  m_state' # "PREVIEW_PIC_TAKING"
      OBVIOUS
    <3>1. fw = "PRE_TAKE_PICTURE" /\ ok = TRUE
      BY <2>1
    <3>2. Given("PRE_TAKE_PICTURE", TRUE)
      BY <1>2, <3>1
    <3>3. retro
      BY <1>7
    <3> QED
      BY <1>1, <1>7, <3>1, <3>2, <3>3 DEF PictureInv
  <2> QED
    BY <1>8, <2>2, <2>3, <2>4 DEF PictureInv
<1>18. TakeInv' /\ FlashInv' /\ WaiterInv'
  BY <1>12, EventFacts DEF TakeInv, FlashInv, WaiterInv, Waiting, Deferred
<1>19. FreshInv'
  <2>1. Told => ~Answered("TAKE_PICTURE")'
    BY <1>10, KnownFacts DEF Deferred
  <2>2. fw' = "PREPARE_SNAPSHOT" => fw = "TAKE_PICTURE"
    BY <1>5, EventFacts DEF Deferred
  <2>3. Calm => Told
    BY DEF Calm
  <2> QED
    BY <1>1, <1>3, <1>7, <1>8, <2>1, <2>2, <2>3 DEF FreshInv, Fresh, Unhurried
<1> QED
  BY <1>13, <1>14, <1>15, <1>16, <1>17, <1>18, <1>19 DEF IInv

\* The call looks for its result when it is woken.
LEMMA WaitStep == ASSUME IInv, waitAPIResult PROVE IInv'
<1>1. CASE \E i \in DOMAIN results :
             /\ IsFirst(i, fw)
             /\ results' = RemoveAt(results, i)
             /\ \E next \in Onward(fw, results[i].status) :
                  /\ fw' = next
                  /\ IF next = None THEN UNCHANGED api_queue ELSE processAPI(next)
  BY <1>1, AnswerFound DEF waitAPIResult
<1>2. CASE /\ \A i \in DOMAIN results : results[i].request_api # fw
           /\ UNCHANGED <<results, fw, api_queue>>
  <2>1. /\ UNCHANGED <<evt_queue, notifier, restart, dead, m_state, channels, params, newParams,
                       needRestart, window, longshot, phase, overtaken, failures, retro, longshotUsed, calls>>
        /\ woken' = FALSE
    BY DEF waitAPIResult, machine, elsewhere, settings
  <2>2. ~Answered(fw)
    <3> SUFFICES ASSUME NEW x, Given(fw, x) PROVE FALSE
      BY DEF Answered
    <3>1. PICK j \in DOMAIN results : results[j] = Result(fw, x)
      BY DEF Given, Range
    <3> QED
      BY <1>2, <3>1, ResultFacts
  <2>3. /\ Told' = Told /\ Calm' = Calm /\ Known' = Known /\ Between' = Between /\ Untroubled' = Untroubled
        /\ \A e : Coming(e)' = Coming(e) /\ Queued(e)' = Queued(e) /\ Answered(e)' = Answered(e)
        /\ \A e : Waiting(e)' = Waiting(e)
        /\ \A e, ok : Given(e, ok)' = Given(e, ok)
    BY <1>2, <2>1 DEF Told, Calm, Known, Coming, Queued, Answered, Given, Waiting, Between, Untroubled
  <2>9. TypeOK'
    <3>1. TypeOK /\ woken' \in BOOLEAN
      BY <2>1 DEF IInv
    <3> QED
      BY <1>2, <2>1, <3>1 DEF TypeOK
  <2>4. Mail'
    <3>1. \A e \in Known' : Queued(e)' => fw' = e /\ PostedAfter(api_queue, e)'
      BY <1>2, <2>3 DEF IInv, Mail
    <3>2. \A e \in Known' : Answered(e)' => fw' = e /\ ~Queued(e)' /\ OnceFor(results, e)'
      BY <1>2, <2>3 DEF IInv, Mail
    <3>3. Queued(fw)' = Queued(fw)
      BY <1>2 DEF Queued
    <3>4. Mail
      BY DEF IInv
    <3> QED
      BY <1>2, <2>3, <3>1, <3>2, <3>3, <3>4 DEF Mail
  <2>5. ChannelsInv'
    BY <1>2, <2>1, <2>3 DEF IInv, ChannelsInv, StoppedIsEmpty, VideoRuns, FramesFlow, LiveIsVideo
  <2>6. DaemonInv' /\ PictureInv'
    BY <1>2, <2>1, <2>3 DEF IInv, DaemonInv, PictureInv
  <2>7. TakeInv' /\ FlashInv' /\ FreshInv'
    BY <1>2, <2>1, <2>3 DEF IInv, TakeInv, FlashInv, FreshInv, Unhurried, Fresh
  <2>8. WaiterInv'
    BY <1>2, <2>1, <2>2, <2>3 DEF IInv, WaiterInv
  <2> QED
    BY <2>4, <2>5, <2>6, <2>7, <2>8, <2>9 DEF IInv
<1> QED
  BY <1>1, <1>2 DEF waitAPIResult

-----------------------------------------------------------------------------
(* The daemon, the post-processor and the notifier                         *)

\* What is about the call alone is the same when nothing of it changes.
LEMMA SameCall ==
  ASSUME UNCHANGED others
  PROVE  /\ UNCHANGED <<m_state, api_queue, results, fw, woken, channels, params, newParams, needRestart,
                        window, longshot, retro, restart, overtaken, longshotUsed, failures, calls>>
         /\ \A e : Queued(e)' = Queued(e) /\ Answered(e)' = Answered(e)
         /\ \A e : Waiting(e)' = Waiting(e)
         /\ \A e, ok : Given(e, ok)' = Given(e, ok)
         /\ Between' = Between
         /\ Told' = Told => Known' = Known /\ Calm' = Calm
<1>1. UNCHANGED <<m_state, api_queue, results, fw, woken, channels, params, newParams, needRestart,
                  window, longshot, retro, restart, overtaken, longshotUsed, failures, calls>>
  BY DEF others, settings
<1> QED
  BY <1>1 DEF Queued, Answered, Given, Waiting, Between, Known, Calm

\* A step of another thread, which leaves the call and the machine alone: what
\* is left to show is what the daemon owes and what the pictures need.
LEMMA SideStep ==
  ASSUME IInv, UNCHANGED others, Told' = Told,
         phase' \in Phases, notifier' \in {"idle", "counted", "waiting"}, dead' \in BOOLEAN,
         evt_queue' \in Seq(Events), dead => dead', phase' = "live" => phase = "live",
         DaemonInv', TakeInv', FlashInv', FreshInv'
  PROVE  IInv'
<1>1. /\ UNCHANGED <<m_state, api_queue, results, fw, woken, channels, params, newParams, needRestart,
                     window, longshot, retro, restart, overtaken, longshotUsed, failures, calls>>
      /\ \A e : Queued(e)' = Queued(e) /\ Answered(e)' = Answered(e)
      /\ \A e : Waiting(e)' = Waiting(e)
      /\ \A e, ok : Given(e, ok)' = Given(e, ok)
      /\ Between' = Between /\ Known' = Known /\ Calm' = Calm
  BY SameCall
<1>2. TypeOK /\ Mail /\ ChannelsInv /\ PictureInv /\ WaiterInv
  BY DEF IInv
<1>3. TypeOK'
  BY <1>1, <1>2 DEF TypeOK
<1>4. Mail'
  <2>1. \A e \in Known' : Queued(e)' => fw' = e /\ PostedAfter(api_queue, e)'
    BY <1>1, <1>2 DEF Mail
  <2>2. \A e \in Known' : Answered(e)' => fw' = e /\ ~Queued(e)' /\ OnceFor(results, e)'
    BY <1>1, <1>2 DEF Mail
  <2>3. Queued(fw)' = Queued(fw)
    BY <1>1 DEF Queued
  <2> QED
    BY <1>1, <1>2, <2>1, <2>2, <2>3 DEF Mail
<1>5. ChannelsInv'
  <2>1. Untroubled' => Untroubled
    BY <1>1 DEF Untroubled
  <2>2. /\ StoppedIsEmpty(Between, m_state, channels)' /\ VideoRuns(m_state, channels)' /\ LiveIsVideo'
        /\ Untroubled' => FramesFlow(Between, m_state, channels)'
    BY <1>1, <1>2, <2>1 DEF ChannelsInv, StoppedIsEmpty, VideoRuns, LiveIsVideo, FramesFlow
  <2>3. longshot' \/ fw' \in CommandEvents => longshotUsed'
    BY <1>1, <1>2 DEF ChannelsInv
  <2>4. fw' = "SET_PARAMS_STOP" => needRestart'
    BY <1>1, <1>2 DEF ChannelsInv
  <2>5. fw' = "SET_PARAMS_COMMIT" /\ Given("SET_PARAMS_COMMIT", FALSE)' => failures' > 0 \/ dead'
    BY <1>1, <1>2 DEF ChannelsInv
  <2> QED
    BY <2>2, <2>3, <2>4, <2>5 DEF ChannelsInv
<1>6. PictureInv'
  BY <1>1, <1>2 DEF PictureInv
<1>7. WaiterInv'
  <2>1. Queued(fw)' = Queued(fw) /\ Answered(fw)' = Answered(fw) /\ Waiting(fw)' = Waiting(fw)
    BY <1>1 DEF Queued, Answered, Given, Waiting
  <2> QED
    BY <1>1, <1>2, <2>1 DEF WaiterInv
<1> QED
  BY <1>3, <1>4, <1>5, <1>6, <1>7 DEF IInv

\* An event of the daemon or of the notifier comes to the queue.
LEMMA EventComes ==
  ASSUME IInv, NEW x \in Events, evt_queue' = Append(evt_queue, x)
  PROVE  /\ evt_queue' \in Seq(Events)
         /\ \A e : Coming(e)' = (Coming(e) \/ e = x)
         /\ \A e : Once(evt_queue, e) /\ (x = e => ~Coming(e)) => Once(evt_queue, e)'
         /\ \A e, f : Ahead(evt_queue, e, f) => Ahead(evt_queue, e, f)'
         /\ \A f : ~Coming(f) => Ahead(evt_queue, x, f)'
         /\ x # "DAEMON_DIED" /\ dead' = dead => Told' = Told
<1>1. evt_queue \in Seq(Events)
  BY DEF IInv, TypeOK
<1>2. /\ evt_queue' \in Seq(Events) /\ Range(evt_queue') = Range(evt_queue) \cup {x}
      /\ \A e : Once(evt_queue, e) /\ (x = e => e \notin Range(evt_queue)) => Once(evt_queue', e)
      /\ \A e, f : Ahead(evt_queue, e, f) => Ahead(evt_queue', e, f)
      /\ \A f : f \notin Range(evt_queue) => Ahead(evt_queue', x, f)
  BY <1>1, AppendFacts
<1>3. \A e : Coming(e)' = (Coming(e) \/ e = x)
  BY <1>2 DEF Coming
<1>4. x # "DAEMON_DIED" /\ dead' = dead => Told' = Told
  BY <1>2 DEF Told
<1> QED
  BY <1>2, <1>3, <1>4 DEF Coming

\* The flash is prepared, for the call that waits for it.
LEMMA PrepareDoneStep == ASSUME IInv, PrepareDone PROVE IInv'
<1> DEFINE x == "PREP_SNAPSHOT_DONE"
<1>1. /\ ~dead /\ ~Coming(x) /\ (m_state = "PREPARE_SNAPSHOT" \/ phase = "preparing")
      /\ evt_queue' = Append(evt_queue, x) /\ phase' = (IF phase = "preparing" THEN "prepared" ELSE phase)
      /\ UNCHANGED others /\ UNCHANGED <<notifier, dead>>
  BY DEF PrepareDone, Coming
<1>2. x \in Events
  BY DEF Events
<1> HIDE DEF x
<1>3. /\ evt_queue' \in Seq(Events) /\ \A e : Coming(e)' = (Coming(e) \/ e = x)
      /\ \A e : Once(evt_queue, e) /\ (x = e => ~Coming(e)) => Once(evt_queue, e)'
      /\ \A e, f : Ahead(evt_queue, e, f) => Ahead(evt_queue, e, f)'
      /\ \A f : ~Coming(f) => Ahead(evt_queue, x, f)'
      /\ Told' = Told
  BY <1>1, <1>2, EventComes DEF x
<1>4. /\ UNCHANGED <<m_state, fw, retro>>
      /\ \A e : Queued(e)' = Queued(e) /\ Answered(e)' = Answered(e) /\ Waiting(e)' = Waiting(e)
      /\ Calm' = Calm
  BY <1>1, <1>3, SameCall
<1>5. TypeOK /\ DaemonInv /\ TakeInv /\ FlashInv /\ FreshInv /\ Told
  BY <1>1 DEF IInv, Told
<1>6. Waiting("PREPARE_SNAPSHOT") /\ fw = "PREPARE_SNAPSHOT" /\ ~Queued("PREPARE_SNAPSHOT")
  BY <1>1, <1>5 DEF DaemonInv, Waiting
<1>7. phase' \in Phases /\ phase' # "preparing" /\ phase' # "retro"
  BY <1>1, <1>5, <1>6 DEF TypeOK, Phases, DaemonInv, Waiting
<1>8. DaemonInv'
  <2>1. /\ ~dead' => ~Coming("DAEMON_DIED")'
        /\ \A e \in {"DAEMON_DIED", "PREP_SNAPSHOT_DONE", "READY_FOR_SNAPSHOT"} : Once(evt_queue, e)'
    BY <1>1, <1>3, <1>5 DEF DaemonInv, x
  <2>2. ~Coming("READY_FOR_SNAPSHOT")'
    BY <1>3, <1>5, <1>6 DEF DaemonInv, Waiting, x
  <2> QED
    BY <1>4, <1>6, <1>7, <2>1, <2>2 DEF DaemonInv
<1>9. TakeInv' /\ FreshInv'
  BY <1>4, <1>6 DEF TakeInv, FreshInv, Waiting
<1>10. FlashInv'
  <2>1. CASE m_state = "PREPARE_SNAPSHOT"
    BY <1>4, <2>1 DEF FlashInv
  <2>2. CASE m_state # "PREPARE_SNAPSHOT"
    <3>1. CASE phase = "preparing" /\ Unhurried
      BY <1>3, <1>4, <1>5, <1>6, <2>2, <3>1 DEF FlashInv, Unhurried, x
    <3>2. CASE Ahead(evt_queue, "PREP_SNAPSHOT_DONE", "SNAPSHOT_DONE")
      BY <1>3, <1>4, <1>5, <1>6, <2>2, <3>2 DEF FlashInv
    <3> QED
      BY <1>4, <1>5, <1>6, <2>2, <3>1, <3>2 DEF FlashInv
  <2> QED
    BY <2>1, <2>2
<1> QED
  BY <1>1, <1>3, <1>5, <1>7, <1>8, <1>9, <1>10, SideStep DEF TypeOK

\* The frames from the past are delivered, for the call that waits for them.
LEMMA ReadyStep == ASSUME IInv, ReadyForSnapshot PROVE IInv'
<1> DEFINE x == "READY_FOR_SNAPSHOT"
<1>1. /\ ~dead /\ phase = "retro" /\ phase' = "ready"
      /\ evt_queue' = Append(evt_queue, x)
      /\ UNCHANGED others /\ UNCHANGED <<notifier, dead>>
  BY DEF ReadyForSnapshot
<1>2. x \in Events
  BY DEF Events
<1> HIDE DEF x
<1>3. /\ evt_queue' \in Seq(Events) /\ \A e : Coming(e)' = (Coming(e) \/ e = x)
      /\ \A e : Once(evt_queue, e) /\ (x = e => ~Coming(e)) => Once(evt_queue, e)'
      /\ Told' = Told
  BY <1>1, <1>2, EventComes DEF x
<1>4. /\ UNCHANGED <<m_state, fw, retro>>
      /\ \A e : Queued(e)' = Queued(e) /\ Answered(e)' = Answered(e) /\ Waiting(e)' = Waiting(e)
      /\ Calm' = Calm
  BY <1>1, <1>3, SameCall
<1>5. TypeOK /\ DaemonInv /\ TakeInv /\ FlashInv /\ FreshInv /\ Told
  BY <1>1 DEF IInv, Told
<1>6. Waiting("TAKE_PICTURE") /\ fw = "TAKE_PICTURE" /\ ~Answered("TAKE_PICTURE") /\ ~Coming(x)
  BY <1>1, <1>5 DEF DaemonInv, Waiting, x
<1>7. phase' \in Phases
  BY <1>1 DEF Phases
<1>8. DaemonInv'
  <2>1. /\ ~dead' => ~Coming("DAEMON_DIED")'
        /\ \A e \in {"DAEMON_DIED", "PREP_SNAPSHOT_DONE", "READY_FOR_SNAPSHOT"} : Once(evt_queue, e)'
    BY <1>1, <1>3, <1>5, <1>6 DEF DaemonInv, x
  <2>2. ~Coming("PREP_SNAPSHOT_DONE")' /\ m_state' # "PREPARE_SNAPSHOT"
    BY <1>3, <1>4, <1>5, <1>6 DEF DaemonInv, Waiting, x
  <2> QED
    BY <1>1, <1>4, <1>6, <2>1, <2>2 DEF DaemonInv
<1>9. FlashInv' /\ FreshInv'
  BY <1>4, <1>6 DEF FlashInv, FreshInv, Waiting
<1>10. TakeInv'
  BY <1>1, <1>3, <1>4, <1>5, <1>6 DEF TakeInv, Unhurried, x
<1> QED
  BY <1>1, <1>3, <1>5, <1>7, <1>8, <1>9, <1>10, SideStep DEF TypeOK

\* The daemon dies, and the queue will tell it.
LEMMA DieStep == ASSUME IInv, Die PROVE IInv'
<1> DEFINE x == "DAEMON_DIED"
<1>1. /\ ~dead /\ dead' = TRUE /\ evt_queue' = Append(evt_queue, x)
      /\ UNCHANGED others /\ UNCHANGED <<notifier, phase>>
  BY DEF Die
<1>2. x \in Events
  BY DEF Events
<1> HIDE DEF x
<1>3. /\ evt_queue' \in Seq(Events) /\ \A e : Coming(e)' = (Coming(e) \/ e = x)
      /\ \A e : Once(evt_queue, e) /\ (x = e => ~Coming(e)) => Once(evt_queue, e)'
      /\ \A e, f : Ahead(evt_queue, e, f) => Ahead(evt_queue, e, f)'
  BY <1>1, <1>2, EventComes
<1>4. Told' = Told
  BY <1>1, <1>3 DEF Told, Coming, x
<1>5. /\ UNCHANGED <<m_state, fw, retro>>
      /\ \A e : Queued(e)' = Queued(e) /\ Answered(e)' = Answered(e) /\ Waiting(e)' = Waiting(e)
      /\ Calm' = Calm
  BY <1>1, <1>4, SameCall
<1>6. TypeOK /\ DaemonInv /\ TakeInv /\ FlashInv /\ FreshInv
  BY DEF IInv
<1>7. DaemonInv'
  BY <1>1, <1>3, <1>4, <1>5, <1>6 DEF DaemonInv, x
<1>8. Unhurried' = Unhurried
  BY <1>1, <1>3 DEF Unhurried, x
<1>9. TakeInv' /\ FlashInv' /\ FreshInv'
  BY <1>1, <1>3, <1>5, <1>6, <1>8 DEF TakeInv, FlashInv, FreshInv, Fresh
<1> QED
  BY <1>1, <1>3, <1>4, <1>6, <1>7, <1>9, SideStep DEF TypeOK

\* The notifier has the snapshots: of no picture whose call waits.
LEMMA SnapshotsCountedStep == ASSUME IInv, SnapshotsCounted PROVE IInv'
<1>1. /\ phase \in {"taken", "captured", "live", "prepared"} \/ (phase = "ready" /\ fw = None)
      /\ notifier' = "counted" /\ phase' = "done"
      /\ UNCHANGED others /\ UNCHANGED <<evt_queue, dead>>
  BY DEF SnapshotsCounted
<1>2. Told' = Told /\ \A e : Coming(e)' = Coming(e)
  BY <1>1 DEF Told, Coming
<1>3. /\ UNCHANGED <<m_state, fw, retro>>
      /\ \A e : Queued(e)' = Queued(e) /\ Answered(e)' = Answered(e) /\ Waiting(e)' = Waiting(e)
      /\ Calm' = Calm
  BY <1>1, <1>2, SameCall
<1>4. TypeOK /\ DaemonInv /\ TakeInv /\ FlashInv /\ FreshInv
  BY DEF IInv
<1>5. DaemonInv'
  BY <1>1, <1>2, <1>3, <1>4 DEF DaemonInv
<1>6. fw \in Deferred => phase # "ready"
  BY <1>1, EventFacts
<1>7. TakeInv' /\ FlashInv' /\ FreshInv'
  BY <1>1, <1>3, <1>4, <1>6 DEF TakeInv, FlashInv, FreshInv, Fresh, Waiting, Deferred
<1>8. phase' \in Phases
  BY <1>1 DEF Phases
<1> QED
  BY <1>1, <1>2, <1>4, <1>5, <1>7, <1>8, SideStep DEF TypeOK

\* The notifier tells that the picture is done: no call waits for a picture
\* of the past then.
LEMMA SnapshotDoneStep == ASSUME IInv, SnapshotDone PROVE IInv'
<1> DEFINE x == "SNAPSHOT_DONE"
<1>1. /\ notifier = "counted" /\ notifier' = "waiting" /\ evt_queue' = Append(evt_queue, x)
      /\ UNCHANGED others /\ UNCHANGED <<phase, dead>>
  BY DEF SnapshotDone
<1>2. x \in Events
  BY DEF Events
<1> HIDE DEF x
<1>3. /\ evt_queue' \in Seq(Events) /\ \A e : Coming(e)' = (Coming(e) \/ e = x)
      /\ \A e : Once(evt_queue, e) /\ (x = e => ~Coming(e)) => Once(evt_queue, e)'
      /\ \A e, f : Ahead(evt_queue, e, f) => Ahead(evt_queue, e, f)'
      /\ Told' = Told
  BY <1>1, <1>2, EventComes DEF x
<1>4. /\ UNCHANGED <<m_state, fw, retro>>
      /\ \A e : Queued(e)' = Queued(e) /\ Answered(e)' = Answered(e) /\ Waiting(e)' = Waiting(e)
      /\ Calm' = Calm
  BY <1>1, <1>3, SameCall
<1>5. TypeOK /\ DaemonInv /\ TakeInv /\ FlashInv /\ FreshInv
  BY DEF IInv
<1>6. DaemonInv'
  BY <1>1, <1>3, <1>4, <1>5 DEF DaemonInv, x
<1>7. ~Unhurried
  BY <1>1 DEF Unhurried
<1>8. TakeInv' /\ FlashInv' /\ FreshInv'
  BY <1>3, <1>4, <1>5, <1>7 DEF TakeInv, FlashInv, FreshInv, Fresh
<1> QED
  BY <1>1, <1>3, <1>5, <1>6, <1>8, SideStep DEF TypeOK

\* Another thread posts an event of a picture that no call waits for.
LEMMA PostStep ==
  ASSUME IInv, NEW x \in Posted, processAPI(x), UNCHANGED posted,
         phase \in {"taken", "live"}, phase' \in {"captured", "done"},
         failures' \in 0 .. MaxFailures, failures' >= failures,
         x = "CANCEL_PICTURE" => m_state = "VIDEO_PIC_TAKING"
  PROVE  IInv'
<1>1. /\ TypeOK /\ Mail /\ ChannelsInv /\ DaemonInv /\ PictureInv /\ TakeInv /\ FlashInv /\ FreshInv /\ WaiterInv
      /\ api_queue \in Seq(APIEvents) /\ x \in APIEvents
  BY EventFacts DEF IInv, TypeOK
<1>2. /\ UNCHANGED <<m_state, evt_queue, results, fw, woken, notifier, channels, params, newParams,
                     needRestart, window, longshot, retro, restart, overtaken, longshotUsed, dead, calls>>
      /\ api_queue' = Append(api_queue, x)
  BY DEF posted, settings, processAPI
<1>3. /\ api_queue' \in Seq(APIEvents) /\ Range(api_queue') = Range(api_queue) \cup {x}
      /\ \A e : PostedAfter(api_queue, e) => PostedAfter(api_queue', e)
      /\ \A e, f : Before(api_queue', e, f) => Before(api_queue, e, f) \/ (x = f /\ e \in Range(api_queue))
  BY <1>1, <1>2, AppendFacts
<1>4. \A e : Queued(e)' = (Queued(e) \/ e = x)
  BY <1>3 DEF Queued
<1>5. /\ Told' = Told /\ Calm' = Calm /\ Known' = Known /\ Unhurried' = Unhurried
      /\ \A e : Coming(e)' = Coming(e) /\ Answered(e)' = Answered(e)
      /\ \A e, ok : Given(e, ok)' = Given(e, ok)
  BY <1>2 DEF Told, Calm, Known, Coming, Answered, Given, Unhurried
<1>6. x \notin Known /\ x \notin Deferred /\ x \notin SetEvents /\ x # "PRE_TAKE_PICTURE"
  BY KnownFacts DEF Posted, Deferred, SetEvents
<1>7. \A e \in Deferred : Waiting(e)' = Waiting(e)
  BY <1>2, <1>4, <1>5, <1>6 DEF Waiting
<1>8. TypeOK'
  BY <1>1, <1>2, <1>3 DEF TypeOK, Phases
<1>9. Mail'
  <2>1. \A e \in Known' : Queued(e)' => fw' = e /\ PostedAfter(api_queue, e)'
    BY <1>1, <1>2, <1>3, <1>4, <1>5, <1>6 DEF Mail
  <2>2. \A e \in Known' : Answered(e)' => fw' = e /\ ~Queued(e)' /\ OnceFor(results, e)'
    BY <1>1, <1>2, <1>4, <1>5, <1>6 DEF Mail
  <2>3. fw' \in Known' /\ ~Queued(fw)' => Range(api_queue') \subseteq Posted
    BY <1>1, <1>2, <1>3, <1>5 DEF Mail, Queued
  <2>4. fw' \in {"SET_PARAMS_STOP", "SET_PARAMS_COMMIT", "SET_PARAMS_RESTART"} =>
          Range(api_queue') \subseteq Posted \cup {fw'}
    BY <1>1, <1>2, <1>3 DEF Mail
  <2> QED
    BY <2>1, <2>2, <2>3, <2>4 DEF Mail
<1>10. ChannelsInv'
  <2>1. Between' = Between
    BY <1>2, <1>4, <1>5, <1>6 DEF Between, SetEvents
  <2>2. Untroubled' => Untroubled
    BY <1>1, <1>2 DEF Untroubled, TypeOK
  <2>3. /\ StoppedIsEmpty(Between, m_state, channels)' /\ VideoRuns(m_state, channels)' /\ LiveIsVideo'
        /\ Untroubled' => FramesFlow(Between, m_state, channels)'
    BY <1>1, <1>2, <2>1, <2>2 DEF ChannelsInv, StoppedIsEmpty, VideoRuns, LiveIsVideo, FramesFlow
  <2>4. longshot' \/ fw' \in CommandEvents => longshotUsed'
    BY <1>1, <1>2 DEF ChannelsInv
  <2>5. fw' = "SET_PARAMS_STOP" => needRestart'
    BY <1>1, <1>2 DEF ChannelsInv
  <2>6. fw' = "SET_PARAMS_COMMIT" /\ Given("SET_PARAMS_COMMIT", FALSE)' => failures' > 0 \/ dead'
    <3>1. fw = "SET_PARAMS_COMMIT" /\ Given("SET_PARAMS_COMMIT", FALSE) => failures > 0 \/ dead
      BY <1>1 DEF ChannelsInv
    <3>2. failures \in Int /\ failures' \in Int
      BY <1>1 DEF TypeOK
    <3>3. Given("SET_PARAMS_COMMIT", FALSE)' => Given("SET_PARAMS_COMMIT", FALSE)
      BY <1>2 DEF Given
    <3>4. failures > 0 => failures' > 0
      BY <3>2
    <3> QED
      BY <1>2, <3>1, <3>3, <3>4
  <2> QED
    BY <2>3, <2>4, <2>5, <2>6 DEF ChannelsInv
<1>11. DaemonInv'
  <2>1. /\ Waiting("PREPARE_SNAPSHOT")' = Waiting("PREPARE_SNAPSHOT")
        /\ Waiting("TAKE_PICTURE")' = Waiting("TAKE_PICTURE")
    BY <1>7 DEF Deferred
  <2> QED
    BY <1>1, <1>2, <1>5, <2>1 DEF DaemonInv
<1>12. PictureInv'
  <2>1. Queued("TAKE_PICTURE")' = Queued("TAKE_PICTURE")
    BY <1>4, <1>6 DEF Deferred, Queued
  <2>2. \A e \in Deferred : Before(api_queue, e, "CANCEL_PICTURE")' =>
          Before(api_queue, e, "CANCEL_PICTURE") \/ m_state = "VIDEO_PIC_TAKING"
    BY <1>3
  <2> QED
    BY <1>1, <1>2, <1>5, <2>1, <2>2 DEF PictureInv
<1>13. TakeInv' /\ FlashInv' /\ FreshInv'
  <2>1. x = "CANCEL_PICTURE" => m_state # "PREVIEW_PIC_TAKING"
    OBVIOUS
  <2>2. /\ Waiting("PREPARE_SNAPSHOT")' = Waiting("PREPARE_SNAPSHOT")
        /\ Waiting("TAKE_PICTURE")' = Waiting("TAKE_PICTURE")
        /\ Queued("PREPARE_SNAPSHOT")' = Queued("PREPARE_SNAPSHOT")
    BY <1>4, <1>6, <1>7 DEF Deferred, Queued
  <2>3. TakeInv'
    BY <1>1, <1>2, <1>5, <2>2 DEF TakeInv
  <2>4. FlashInv'
    BY <1>1, <1>2, <1>4, <1>5, <2>1, <2>2 DEF FlashInv
  <2>5. FreshInv'
    BY <1>1, <1>2, <1>5, <2>2 DEF FreshInv, Fresh
  <2> QED
    BY <2>3, <2>4, <2>5
<1>14. WaiterInv'
  <2>1. /\ Queued(fw) => Queued(fw)' /\ Answered(fw)' = Answered(fw)
        /\ fw \in Deferred => Waiting(fw)' = Waiting(fw)
    BY <1>2, <1>3, <1>5, <1>7 DEF Queued, Answered, Given, Waiting
  <2>2. Answered(fw)' = Answered(fw)
    BY <1>2 DEF Answered, Given
  <2> QED
    BY <1>1, <1>2, <1>5, <2>1, <2>2 DEF WaiterInv
<1> QED
  BY <1>8, <1>9, <1>10, <1>11, <1>12, <1>13, <1>14 DEF IInv

\* The post-processor stops the capture channel.
LEMMA StopCaptureStep == ASSUME IInv, StopCapture PROVE IInv'
<1>1. failures' \in 0 .. MaxFailures /\ failures' >= failures
  BY ConstantsAssumption DEF ConstantsAssumption, StopCapture, IInv, TypeOK
<1> QED
  BY <1>1, PostStep DEF StopCapture, Posted

\* The thread of the live snapshot cancels it.
LEMMA LiveFailsStep == ASSUME IInv, LiveSnapshotFails PROVE IInv'
<1>1. failures' \in 0 .. MaxFailures /\ failures' >= failures
  BY ConstantsAssumption DEF ConstantsAssumption, LiveSnapshotFails, IInv, TypeOK
<1>2. m_state = "VIDEO_PIC_TAKING"
  BY DEF LiveSnapshotFails, IInv, ChannelsInv, LiveIsVideo
<1> QED
  BY <1>1, <1>2, PostStep DEF LiveSnapshotFails, Posted

-----------------------------------------------------------------------------
(* The events of the queue                                                 *)

\* The deferred answer that an event of the daemon brings
AnswerOf(evt) == IF evt = "PREP_SNAPSHOT_DONE" THEN "PREPARE_SNAPSHOT" ELSE "TAKE_PICTURE"

\* The daemon died: both deferred answers are given, or it is of no interest.
EventDied ==
  /\ UNCHANGED <<m_state, channels, phase>>
  /\ \/ /\ results' = results \o <<Result("PREPARE_SNAPSHOT", TRUE), Result("TAKE_PICTURE", TRUE)>>
        /\ woken' = (fw # None)
     \/ /\ UNCHANGED <<results, woken>>
        /\ m_state \notin {"PREPARE_SNAPSHOT", "PREVIEW_PIC_TAKING"}

\* A picture is done: the machine leaves the state of the capture.
EventDone ==
  /\ results' = results /\ woken' \in {woken, fw # None, TRUE} /\ (woken => woken')
  /\ \/ UNCHANGED <<m_state, channels, phase>> /\ ~isCaptureRunning
     \/ /\ phase' = "idle"
        /\ channels' \in {channels, cancelPicture(channels, params)}
        /\ \/ m_state = "PIC_TAKING" /\ m_state' = IF restart THEN "PREVIEWING" ELSE "PREVIEW_STOPPED"
           \/ m_state = "VIDEO_PIC_TAKING" /\ m_state' = "RECORDING"
           \/ m_state = "PREVIEW_PIC_TAKING" /\ m_state' = "PREVIEWING"

\* The flash or the frames from the past: answered, or of no interest
EventOwed(evt) ==
  /\ UNCHANGED <<channels, phase>>
  /\ \/ /\ UNCHANGED <<m_state, results, woken>>
        /\ ~(m_state = "PREVIEW_PIC_TAKING" /\ retro)
        /\ ~(m_state = "PREPARE_SNAPSHOT" /\ evt = "PREP_SNAPSHOT_DONE")
     \/ /\ results' = Append(results, Result(AnswerOf(evt), TRUE)) /\ woken' = (fw # None)
        /\ \/ m_state = "PREVIEW_PIC_TAKING" /\ m_state' = m_state
           \/ m_state = "PREPARE_SNAPSHOT" /\ evt = "PREP_SNAPSHOT_DONE" /\ m_state' = "PREVIEWING"

EventRow(evt) ==
  \/ evt = "DAEMON_DIED" /\ EventDied
  \/ evt = "SNAPSHOT_DONE" /\ EventDone
  \/ evt \in {"PREP_SNAPSHOT_DONE", "READY_FOR_SNAPSHOT"} /\ EventOwed(evt)

\* What an event does in any state
LEMMA EventRows ==
  ASSUME TypeOK, HandleEvt
  PROVE  EventRow(Head(evt_queue))
<1> DEFINE evt == Head(evt_queue)
<1> SUFFICES EventRow(evt)
  OBVIOUS
<1>1. evt_queue \in Seq(Events) /\ evt_queue # <<>> /\ woken \in BOOLEAN /\ m_state \in States
  BY DEF HandleEvt, TypeOK
<1>2. evt \in Events
  BY <1>1, TailFacts
<1>3. \/ m_state = "PREPARE_SNAPSHOT" /\ PrepareSnapshotEvent(evt)
      \/ m_state = "PIC_TAKING" /\ PicTakingEvent(evt)
      \/ m_state = "VIDEO_PIC_TAKING" /\ VideoPicTakingEvent(evt)
      \/ m_state = "PREVIEW_PIC_TAKING" /\ PreviewPicTakingEvent(evt)
      \/ OtherEvent(evt)
  BY DEF HandleEvt
<1> HIDE DEF evt
<1>4. DaemonDied /\ evt = "DAEMON_DIED" => EventRow(evt)
  BY DEF DaemonDied, EventRow, EventDied
<1>5. ASSUME Ignore, m_state \notin {"PREPARE_SNAPSHOT", "PREVIEW_PIC_TAKING"},
             evt = "SNAPSHOT_DONE" => ~isCaptureRunning
      PROVE  EventRow(evt)
  <2>1. UNCHANGED <<m_state, channels, results, woken, phase>>
    BY <1>5 DEF Ignore
  <2>2. CASE evt = "DAEMON_DIED"
    BY <1>5, <2>1, <2>2 DEF EventRow, EventDied
  <2>3. CASE evt = "SNAPSHOT_DONE"
    <3>1. woken' \in {woken, fw # None, TRUE} /\ (woken => woken')
      BY <2>1
    <3> QED
      BY <1>5, <2>1, <2>3, <3>1 DEF EventRow, EventDone
  <2>4. CASE evt \in {"PREP_SNAPSHOT_DONE", "READY_FOR_SNAPSHOT"}
    BY <1>5, <2>1, <2>4 DEF EventRow, EventOwed
  <2> QED
    BY <1>2, <2>2, <2>3, <2>4 DEF Events
<1>6. CASE m_state = "PREPARE_SNAPSHOT" /\ PrepareSnapshotEvent(evt)
  <2>1. CASE /\ evt = "PREP_SNAPSHOT_DONE" /\ m_state' = "PREVIEWING"
             /\ signalAPIResult("PREPARE_SNAPSHOT", TRUE) /\ UNCHANGED <<channels, phase>>
    BY <1>6, <2>1 DEF signalAPIResult, EventRow, EventOwed, AnswerOf
  <2>2. CASE evt \in {"READY_FOR_SNAPSHOT", "SNAPSHOT_DONE"} /\ Ignore
    BY <1>6, <2>2 DEF Ignore, EventRow, EventOwed, EventDone, isCaptureRunning
  <2> QED
    BY <1>4, <1>6, <2>1, <2>2 DEF PrepareSnapshotEvent
<1>7. CASE m_state = "PIC_TAKING" /\ PicTakingEvent(evt)
  <2>1. CASE evt = "SNAPSHOT_DONE"
    BY <1>7, <2>1 DEF PicTakingEvent, EventRow, EventDone
  <2>2. CASE evt # "SNAPSHOT_DONE"
    BY <1>4, <1>5, <1>7, <2>2 DEF PicTakingEvent
  <2> QED
    BY <2>1, <2>2
<1>8. CASE m_state = "VIDEO_PIC_TAKING" /\ VideoPicTakingEvent(evt)
  <2>1. CASE evt = "SNAPSHOT_DONE"
    BY <1>8, <2>1 DEF VideoPicTakingEvent, EventRow, EventDone
  <2>2. CASE evt # "SNAPSHOT_DONE"
    BY <1>5, <1>8, <2>2 DEF VideoPicTakingEvent
  <2> QED
    BY <2>1, <2>2
<1>9. CASE m_state = "PREVIEW_PIC_TAKING" /\ PreviewPicTakingEvent(evt)
  <2>1. CASE evt = "SNAPSHOT_DONE" /\ PreviewPicTakingDone
    <3>1. woken' \in {woken, fw # None, TRUE} /\ (woken => woken')
      BY <1>1, <2>1 DEF PreviewPicTakingDone
    <3>2. channels' \in {channels, cancelPicture(channels, params)}
      BY <2>1 DEF PreviewPicTakingDone
    <3> QED
      BY <1>9, <2>1, <3>1, <3>2 DEF PreviewPicTakingDone, EventRow, EventDone
  <2>2. CASE evt = "PREP_SNAPSHOT_DONE" /\ retro /\ signalAPIResult("PREPARE_SNAPSHOT", TRUE)
             /\ UNCHANGED <<m_state, channels, phase>>
    BY <1>9, <2>2 DEF signalAPIResult, EventRow, EventOwed, AnswerOf
  <2>3. CASE evt = "READY_FOR_SNAPSHOT" /\ retro /\ signalAPIResult("TAKE_PICTURE", TRUE)
             /\ UNCHANGED <<m_state, channels, phase>>
    BY <1>9, <2>3 DEF signalAPIResult, EventRow, EventOwed, AnswerOf
  <2>4. CASE evt \in {"PREP_SNAPSHOT_DONE", "READY_FOR_SNAPSHOT"} /\ ~retro /\ Ignore
    BY <1>9, <2>4 DEF Ignore, EventRow, EventOwed
  <2> QED
    BY <1>4, <1>9, <2>1, <2>2, <2>3, <2>4 DEF PreviewPicTakingEvent
<1>10. CASE OtherEvent(evt)
  BY <1>5, <1>10 DEF OtherEvent, isCaptureRunning
<1> QED
  BY <1>3, <1>6, <1>7, <1>8, <1>9, <1>10

\* An event keeps how the channels follow the state.
LEMMA EventChannels ==
  ASSUME TypeOK, NEW b \in BOOLEAN, NEW evt, EventRow(evt),
         UNCHANGED <<restart, longshotUsed, dead, failures>>,
         StoppedIsEmpty(b, m_state, channels), VideoRuns(m_state, channels),
         Untroubled => FramesFlow(b, m_state, channels), LiveIsVideo
  PROVE  /\ channels' \in Chan /\ m_state' \in States /\ phase' \in Phases
         /\ StoppedIsEmpty(b, m_state, channels)' /\ VideoRuns(m_state, channels)'
         /\ Untroubled' => FramesFlow(b, m_state, channels)'
         /\ LiveIsVideo'
<1>1. channels \in Chan /\ m_state \in States /\ phase \in Phases
  BY DEF TypeOK, Chan
<1>2. /\ channels' \in Chan
      /\ channels'.zsl = channels.zsl /\ channels'.preview = channels.preview /\ channels'.video = channels.video
  <2>1. channels' \in {channels, cancelPicture(channels, params)}
    BY DEF EventRow, EventDied, EventDone, EventOwed
  <2> QED
    BY <1>1, <2>1 DEF cancelPicture, Chan
<1>3. Untroubled' = Untroubled
  BY DEF Untroubled
<1>4. Empty(channels') = Empty(channels) /\ Up(channels') = Up(channels)
  BY <1>2 DEF Empty, Up
<1>5. \/ UNCHANGED <<m_state, phase>>
      \/ /\ phase' = "idle"
         /\ \/ m_state = "PIC_TAKING" /\ m_state' = IF restart THEN "PREVIEWING" ELSE "PREVIEW_STOPPED"
            \/ m_state = "VIDEO_PIC_TAKING" /\ m_state' = "RECORDING"
            \/ m_state = "PREVIEW_PIC_TAKING" /\ m_state' = "PREVIEWING"
      \/ m_state = "PREPARE_SNAPSHOT" /\ m_state' = "PREVIEWING" /\ phase' = phase
  BY DEF EventRow, EventDied, EventDone, EventOwed
<1>6. m_state' \in States /\ phase' \in Phases
  BY <1>1, <1>5 DEF States, Phases
<1>7. StoppedIsEmpty(b, m_state, channels)'
  BY <1>4, <1>5 DEF StoppedIsEmpty
<1>8. VideoRuns(m_state, channels)'
  BY <1>2, <1>5 DEF VideoRuns
<1>9. Untroubled' => FramesFlow(b, m_state, channels)'
  <2> SUFFICES ASSUME Untroubled' PROVE FramesFlow(b, m_state, channels)'
    OBVIOUS
  <2>1. FramesFlow(b, m_state, channels) /\ ~restart
    BY <1>3 DEF Untroubled
  <2> QED
    BY <1>4, <1>5, <2>1 DEF FramesFlow
<1>10. LiveIsVideo'
  BY <1>5 DEF LiveIsVideo
<1> QED
  BY <1>2, <1>6, <1>7, <1>8, <1>9, <1>10

\* What an event adds to the list, and that it wakes the call
LEMMA EventResults ==
  ASSUME TypeOK, NEW evt \in Events, EventRow(evt), fw' = fw
  PROVE  /\ results' \in Seq(Entry) /\ woken' \in BOOLEAN
         /\ \A e, x : Given(e, x) => Given(e, x)'
         /\ \A e, x : Given(e, x)' =>
              Given(e, x) \/ (/\ x = TRUE /\ woken' = (fw # None)
                              /\ \/ evt = "DAEMON_DIED" /\ e \in Deferred
                                 \/ evt \in {"PREP_SNAPSHOT_DONE", "READY_FOR_SNAPSHOT"} /\ e = AnswerOf(evt))
         /\ \A e : OnceFor(results, e) /\ (e \notin Deferred \/ evt = "SNAPSHOT_DONE" \/ (evt # "DAEMON_DIED" /\ ~Answered(e)))
                  => OnceFor(results', e)
         /\ fw # None /\ woken => woken'
<1>1. results \in Seq(Entry) /\ woken \in BOOLEAN
  BY TypeFacts DEF TypeOK
<1>2. woken' \in BOOLEAN /\ (fw # None /\ woken => woken')
  BY <1>1 DEF EventRow, EventDied, EventDone, EventOwed
<1>3. CASE results' = results
  BY <1>1, <1>2, <1>3 DEF Given, OnceFor
<1>4. CASE /\ evt \in {"PREP_SNAPSHOT_DONE", "READY_FOR_SNAPSHOT"} /\ woken' = (fw # None)
           /\ results' = Append(results, Result(AnswerOf(evt), TRUE))
  <2> DEFINE a == AnswerOf(evt)
  <2>1. a \in Deferred /\ a \in CallEvents
    BY EventFacts DEF AnswerOf, Deferred
  <2> HIDE DEF a
  <2>2. results' = Append(results, Result(a, TRUE))
    BY <1>4 DEF a
  <2>3. /\ results' \in Seq(Entry) /\ Range(results') = Range(results) \cup {Result(a, TRUE)}
        /\ \A e : OnceFor(results, e) /\ (e = a => \A x \in BOOLEAN : Result(e, x) \notin Range(results)) =>
             OnceFor(results', e)
    BY <1>1, <2>1, <2>2, ListAppend
  <2>4. \A e : OnceFor(results, e) /\ (e = a => ~Answered(e)) => OnceFor(results', e)
    BY <2>3 DEF Answered, Given
  <2>5. \A e, x : Given(e, x)' => Given(e, x) \/ (e = a /\ x = TRUE)
    <3> TAKE e, x
    <3> HAVE Given(e, x)'
    <3>1. Result(e, x) \in Range(results) \/ Result(e, x) = Result(a, TRUE)
      BY <2>3 DEF Given
    <3>2. Result(e, x) = Result(a, TRUE) => e = a /\ x = TRUE
      BY ResultsDiffer
    <3> QED
      BY <3>1, <3>2 DEF Given
  <2>6. \A e, x : Given(e, x) => Given(e, x)'
    BY <2>3 DEF Given
  <2> QED
    BY <1>2, <1>4, <2>1, <2>3, <2>4, <2>5, <2>6 DEF a
<1>5. CASE /\ evt = "DAEMON_DIED" /\ woken' = (fw # None)
           /\ results' = results \o <<Result("PREPARE_SNAPSHOT", TRUE), Result("TAKE_PICTURE", TRUE)>>
  <2> DEFINE p == Result("PREPARE_SNAPSHOT", TRUE)
             t == Result("TAKE_PICTURE", TRUE)
             rs == Append(results, p)
  <2>1. "PREPARE_SNAPSHOT" \in CallEvents /\ "TAKE_PICTURE" \in CallEvents
    BY EventFacts DEF Deferred
  <2>2. p \in Entry /\ t \in Entry
    BY <2>1, ResultFacts
  <2>3. /\ rs \in Seq(Entry) /\ Range(rs) = Range(results) \cup {p}
        /\ \A e : OnceFor(results, e) /\ e # "PREPARE_SNAPSHOT" => OnceFor(rs, e)
    BY <1>1, <2>1, ListAppend
  <2>4. results' = Append(rs, t)
    <3> HIDE DEF p, t
    <3>1. results' = results \o <<p, t>>
      BY <1>5 DEF p, t
    <3> QED
      BY <1>1, <2>2, <3>1
  <2> HIDE DEF rs
  <2>5. /\ results' \in Seq(Entry) /\ Range(results') = Range(rs) \cup {t}
        /\ \A e : OnceFor(rs, e) /\ e # "TAKE_PICTURE" => OnceFor(results', e)
    BY <2>1, <2>3, <2>4, ListAppend
  <2>6. \A e : OnceFor(results, e) /\ e \notin Deferred => OnceFor(results', e)
    BY <2>3, <2>5 DEF Deferred
  <2>7. \A e, x : Given(e, x)' => Given(e, x) \/ (e \in Deferred /\ x = TRUE)
    <3> TAKE e, x
    <3> HAVE Given(e, x)'
    <3>1. \/ Result(e, x) \in Range(results)
          \/ Result(e, x) = Result("PREPARE_SNAPSHOT", TRUE)
          \/ Result(e, x) = Result("TAKE_PICTURE", TRUE)
      BY <2>3, <2>5 DEF Given
    <3>2. Result(e, x) = Result("PREPARE_SNAPSHOT", TRUE) => e = "PREPARE_SNAPSHOT" /\ x = TRUE
      BY ResultsDiffer
    <3>3. Result(e, x) = Result("TAKE_PICTURE", TRUE) => e = "TAKE_PICTURE" /\ x = TRUE
      BY ResultsDiffer
    <3> QED
      BY <3>1, <3>2, <3>3 DEF Given, Deferred
  <2>8. \A e, x : Given(e, x) => Given(e, x)'
    BY <2>3, <2>5 DEF Given
  <2> HIDE DEF p, t
  <2> QED
    <3>1. results' \in Seq(Entry) /\ woken' \in BOOLEAN /\ (fw # None /\ woken => woken')
      BY <1>2, <2>5
    <3>2. \A e, x : Given(e, x)' =>
            Given(e, x) \/ (x = TRUE /\ woken' = (fw # None) /\ evt = "DAEMON_DIED" /\ e \in Deferred)
      BY <1>5, <2>7
    <3>3. \A e, x : Given(e, x)' =>
            Given(e, x) \/ (/\ x = TRUE /\ woken' = (fw # None)
                            /\ \/ evt = "DAEMON_DIED" /\ e \in Deferred
                               \/ evt \in {"PREP_SNAPSHOT_DONE", "READY_FOR_SNAPSHOT"} /\ e = AnswerOf(evt))
      BY <3>2
    <3>4. \A e : OnceFor(results, e) /\ (e \notin Deferred \/ evt = "SNAPSHOT_DONE" \/ (evt # "DAEMON_DIED" /\ ~Answered(e)))
                 => OnceFor(results', e)
      BY <1>5, <2>6
    <3> QED
      BY <2>8, <3>1, <3>3, <3>4
<1> QED
  BY <1>3, <1>4, <1>5 DEF EventRow, EventDied, EventDone, EventOwed

\* Both of two entries at the end of a list are there.
LEMMA TwoAppended ==
  ASSUME NEW rs \in Seq(Entry), NEW p \in Entry, NEW t \in Entry
  PROVE  p \in Range(rs \o <<p, t>>) /\ t \in Range(rs \o <<p, t>>)
<1> DEFINE u == rs \o <<p, t>>
           n == Len(rs)
<1>1. n \in Nat /\ DOMAIN u = 1 .. n + 2 /\ u[n + 1] = p /\ u[n + 2] = t
  OBVIOUS
<1>2. n + 1 \in DOMAIN u /\ n + 2 \in DOMAIN u
  BY <1>1
<1> HIDE DEF u, n
<1>3. u[n + 1] \in Range(u) /\ u[n + 2] \in Range(u)
  BY <1>2 DEF Range
<1> QED
  BY <1>1, <1>3 DEF u

\* The death of the daemon answers both calls.
LEMMA DiedAnswers ==
  ASSUME TypeOK, NEW e \in Deferred,
         results' = results \o <<Result("PREPARE_SNAPSHOT", TRUE), Result("TAKE_PICTURE", TRUE)>>
  PROVE  Answered(e)'
<1>1. results \in Seq(Entry) /\ "PREPARE_SNAPSHOT" \in CallEvents /\ "TAKE_PICTURE" \in CallEvents
  BY TypeFacts, EventFacts DEF Deferred
<1>2. Result("PREPARE_SNAPSHOT", TRUE) \in Entry /\ Result("TAKE_PICTURE", TRUE) \in Entry
  BY <1>1, ResultFacts
<1>3. Result("PREPARE_SNAPSHOT", TRUE) \in Range(results') /\ Result("TAKE_PICTURE", TRUE) \in Range(results')
  BY <1>1, <1>2, TwoAppended
<1> QED
  BY <1>3 DEF Answered, Given, Deferred

\* The machine handles an event of the queue.
LEMMA HandleEvtStep == ASSUME IInv, HandleEvt PROVE IInv'
<1> DEFINE evt == Head(evt_queue)
<1>1. /\ TypeOK /\ Mail /\ ChannelsInv /\ DaemonInv /\ PictureInv /\ TakeInv /\ FlashInv /\ FreshInv /\ WaiterInv
      /\ evt_queue \in Seq(Events) /\ evt_queue # <<>> /\ evt_queue' = Tail(evt_queue)
      /\ api_queue = <<>>
  BY DEF IInv, TypeOK, HandleEvt
<1>2. /\ UNCHANGED <<api_queue, params, newParams, needRestart, window, longshot, fw, retro, restart,
                     overtaken, longshotUsed, dead, failures, calls>>
      /\ notifier' = IF evt = "SNAPSHOT_DONE" /\ notifier = "waiting" THEN "idle" ELSE notifier
  BY DEF HandleEvt, settings
<1>3. /\ evt \in Events /\ evt_queue' \in Seq(Events)
      /\ Range(evt_queue) = {evt} \cup Range(evt_queue')
      /\ \A e : Once(evt_queue, e) => Once(evt_queue', e) /\ (evt = e => e \notin Range(evt_queue'))
      /\ \A e, f : Ahead(evt_queue, e, f) /\ evt # e => Ahead(evt_queue', e, f) /\ evt # f
  BY <1>1, TailFacts
<1>4. EventRow(evt)
  BY <1>1, EventRows
<1> HIDE DEF evt
<1>5. /\ \A e : Coming(e) <=> e = evt \/ Coming(e)'
      /\ \A e : ~Queued(e) /\ ~Queued(e)'
      /\ Range(api_queue) = {} /\ Range(api_queue') = {}
  <2>1. Range(<<>>) = {}
    BY DEF Range
  <2>2. api_queue' = <<>>
    BY <1>1, <1>2
  <2> QED
    BY <1>1, <1>3, <2>1, <2>2 DEF Coming, Queued
<1>6. /\ results' \in Seq(Entry) /\ woken' \in BOOLEAN
      /\ \A e, x : Given(e, x) => Given(e, x)'
      /\ \A e, x : Given(e, x)' =>
           Given(e, x) \/ (/\ x = TRUE /\ woken' = (fw # None)
                           /\ \/ evt = "DAEMON_DIED" /\ e \in Deferred
                              \/ evt \in {"PREP_SNAPSHOT_DONE", "READY_FOR_SNAPSHOT"} /\ e = AnswerOf(evt))
      /\ \A e : OnceFor(results, e) /\ (e \notin Deferred \/ evt = "SNAPSHOT_DONE" \/ (evt # "DAEMON_DIED" /\ ~Answered(e)))
                => OnceFor(results', e)
      /\ fw # None /\ woken => woken'
  <2>1. TypeOK /\ evt \in Events /\ EventRow(evt) /\ fw' = fw
    BY <1>1, <1>2, <1>3, <1>4
  <2>2. PICK e0 \in Events : e0 = evt
    BY <2>1
  <2>3. EventRow(e0)
    BY <2>1, <2>2 DEF EventRow, EventOwed, AnswerOf
  <2>4. /\ results' \in Seq(Entry) /\ woken' \in BOOLEAN
        /\ \A e, x : Given(e, x) => Given(e, x)'
        /\ fw # None /\ woken => woken'
    BY <2>1, <2>3, EventResults
  <2>7. \A e, x : Given(e, x)' =>
           Given(e, x) \/ (/\ x = TRUE /\ woken' = (fw # None)
                           /\ \/ e0 = "DAEMON_DIED" /\ e \in Deferred
                              \/ e0 \in {"PREP_SNAPSHOT_DONE", "READY_FOR_SNAPSHOT"} /\ e = AnswerOf(e0))
    BY <2>1, <2>3, EventResults
  <2>8. \A e : OnceFor(results, e) /\ (e \notin Deferred \/ e0 = "SNAPSHOT_DONE" \/ (e0 # "DAEMON_DIED" /\ ~Answered(e)))
               => OnceFor(results', e)
    BY <2>1, <2>3, EventResults
  <2>5. \A e, x : Given(e, x)' =>
           Given(e, x) \/ (/\ x = TRUE /\ woken' = (fw # None)
                           /\ \/ evt = "DAEMON_DIED" /\ e \in Deferred
                              \/ evt \in {"PREP_SNAPSHOT_DONE", "READY_FOR_SNAPSHOT"} /\ e = AnswerOf(evt))
    BY <2>2, <2>7 DEF AnswerOf
  <2>6. \A e : OnceFor(results, e) /\ (e \notin Deferred \/ evt = "SNAPSHOT_DONE" \/ (evt # "DAEMON_DIED" /\ ~Answered(e)))
                => OnceFor(results', e)
    BY <2>2, <2>8
  <2> QED
    BY <2>4, <2>5, <2>6
<1>7. /\ \A e : Answered(e) => Answered(e)'
      /\ \A e : Answered(e)' =>
           Answered(e) \/ (/\ woken' = (fw # None)
                           /\ \/ evt = "DAEMON_DIED" /\ e \in Deferred
                              \/ evt \in {"PREP_SNAPSHOT_DONE", "READY_FOR_SNAPSHOT"} /\ e = AnswerOf(evt))
      /\ \A e : Waiting(e)' <=> fw = e /\ ~Answered(e)'
      /\ \A e : Waiting(e) <=> fw = e /\ ~Answered(e)
  BY <1>2, <1>5, <1>6 DEF Answered, Waiting
<1>8. /\ evt = "DAEMON_DIED" => dead /\ ~Told' /\ ~Calm' /\ Told
      /\ evt # "DAEMON_DIED" => Told' = Told /\ Calm' = Calm /\ Known' = Known
      /\ Known' \subseteq Known
  <2>1. evt = "DAEMON_DIED" => dead /\ ~Coming("DAEMON_DIED")'
    BY <1>1, <1>3, <1>5 DEF DaemonInv, Coming
  <2>2. Told <=> ~dead \/ Coming("DAEMON_DIED")
    BY DEF Told, Coming
  <2>3. Told' <=> ~dead \/ Coming("DAEMON_DIED")'
    BY <1>2 DEF Told, Coming
  <2>4. Calm <=> ~overtaken /\ Told
    BY DEF Calm
  <2>5. Calm' <=> ~overtaken /\ Told'
    BY <1>2 DEF Calm
  <2>6. Told \in BOOLEAN /\ Told' \in BOOLEAN /\ Calm \in BOOLEAN /\ Calm' \in BOOLEAN
    BY DEF Told, Calm
  <2>7. evt = "DAEMON_DIED" => dead /\ ~Told' /\ ~Calm' /\ Told
    BY <1>5, <2>1, <2>2, <2>3, <2>5
  <2>8. evt # "DAEMON_DIED" => Told' = Told /\ Calm' = Calm
    BY <1>5, <2>2, <2>3, <2>4, <2>5, <2>6
  <2>9. Told' => Told
    BY <2>6, <2>7, <2>8
  <2> QED
    BY <2>7, <2>8, <2>9 DEF Known
\* what the event says of the call, as long as the death is to be told
<1>9. Told => /\ evt = "PREP_SNAPSHOT_DONE" =>
                   /\ Waiting("PREPARE_SNAPSHOT") /\ fw = "PREPARE_SNAPSHOT" /\ phase # "preparing"
                   /\ ~Coming("PREP_SNAPSHOT_DONE")' /\ ~Coming("READY_FOR_SNAPSHOT") /\ phase # "retro"
              /\ evt = "READY_FOR_SNAPSHOT" =>
                   /\ Waiting("TAKE_PICTURE") /\ fw = "TAKE_PICTURE" /\ phase # "retro"
                   /\ ~Coming("READY_FOR_SNAPSHOT")' /\ ~Coming("PREP_SNAPSHOT_DONE") /\ phase # "preparing"
                   /\ m_state # "PREPARE_SNAPSHOT"
  BY <1>1, <1>3, <1>5 DEF DaemonInv, Coming, Waiting
<1>10. Between' = Between
  <2>1. Given("SET_PARAMS_STOP", TRUE)' <=> Given("SET_PARAMS_STOP", TRUE)
    <3>1. "SET_PARAMS_STOP" \notin Deferred /\ "SET_PARAMS_STOP" # AnswerOf(evt)
      BY DEF AnswerOf, Deferred
    <3> QED
      BY <1>6, <3>1
  <2>2. ~Queued("SET_PARAMS_RESTART") /\ ~Queued("SET_PARAMS_RESTART")'
    BY <1>5
  <2> QED
    BY <1>2, <2>1, <2>2 DEF Between
<1>11. ChannelsInv' /\ channels' \in Chan /\ m_state' \in States /\ phase' \in Phases
  <2>1. Between \in BOOLEAN
    BY DEF Between
  <2>2. PICK b \in BOOLEAN : b = Between
    BY <2>1
  <2>5. /\ StoppedIsEmpty(b, m_state, channels) /\ VideoRuns(m_state, channels)
        /\ Untroubled => FramesFlow(b, m_state, channels)
        /\ LiveIsVideo
    BY <1>1, <2>2 DEF ChannelsInv
  <2>6. /\ channels' \in Chan /\ m_state' \in States /\ phase' \in Phases
        /\ StoppedIsEmpty(b, m_state, channels)' /\ VideoRuns(m_state, channels)'
        /\ Untroubled' => FramesFlow(b, m_state, channels)'
        /\ LiveIsVideo'
    BY <1>1, <1>2, <1>4, <2>5, EventChannels
  <2>3. StoppedIsEmpty(Between, m_state, channels)' /\ (Untroubled' => FramesFlow(Between, m_state, channels)')
    BY <1>10, <2>2, <2>6 DEF StoppedIsEmpty, FramesFlow
  <2>4. Given("SET_PARAMS_COMMIT", FALSE)' => Given("SET_PARAMS_COMMIT", FALSE)
    BY <1>6
  <2> QED
    BY <1>1, <1>2, <2>3, <2>4, <2>6 DEF ChannelsInv
<1>12. TypeOK'
  <2>1. results' \in Seq([request_api : CallEvents, status : BOOLEAN])
    BY <1>6 DEF Entry
  <2>2. channels' \in [{"zsl", "preview", "video", "capture"} -> {"none", "ready", "running"}]
    BY <1>11 DEF Chan
  <2>3. notifier' \in {"idle", "counted", "waiting"}
    BY <1>1, <1>2 DEF TypeOK
  <2> QED
    BY <1>1, <1>2, <1>3, <1>6, <1>11, <2>1, <2>2, <2>3 DEF TypeOK
<1>13. Mail'
  <2>1. ASSUME NEW e \in Known', Answered(e)' PROVE fw' = e /\ ~Queued(e)' /\ OnceFor(results, e)'
    <3>1. e \in Known /\ (evt = "DAEMON_DIED" => e \notin Deferred)
      BY <1>8, <2>1 DEF Known
    <3>2. CASE Answered(e)
      <4>1. fw = e /\ OnceFor(results, e)
        BY <1>1, <3>1, <3>2 DEF Mail
      <4>2. e \in Deferred /\ evt \in {"PREP_SNAPSHOT_DONE", "READY_FOR_SNAPSHOT"} => FALSE
        <5> SUFFICES ASSUME e \in Deferred, evt \in {"PREP_SNAPSHOT_DONE", "READY_FOR_SNAPSHOT"} PROVE FALSE
          OBVIOUS
        <5>1. Told
          BY <3>1 DEF Known
        <5>2. Waiting(fw)
          BY <1>9, <5>1
        <5> QED
          BY <3>2, <4>1, <5>2 DEF Waiting
      <4>3. e \in Deferred => evt = "SNAPSHOT_DONE"
        BY <1>3, <3>1, <4>2 DEF Events
      <4> QED
        BY <1>2, <1>5, <1>6, <3>1, <4>1, <4>3
    <3>3. CASE ~Answered(e)
      <4>1. e \in Deferred /\ evt \in {"PREP_SNAPSHOT_DONE", "READY_FOR_SNAPSHOT"} /\ e = AnswerOf(evt)
        BY <1>7, <2>1, <3>1, <3>3 DEF AnswerOf, Deferred
      <4>2. Told
        BY <3>1, <4>1 DEF Known
      <4>3. fw = e
        BY <1>9, <4>1, <4>2 DEF AnswerOf
      <4>4. OnceFor(results, e)
        <5> SUFFICES ASSUME NEW i \in DOMAIN results, results[i].request_api = e PROVE FALSE
          BY DEF OnceFor
        <5>1. results \in Seq(Entry)
          BY <1>1, TypeFacts
        <5>2. results[i].status \in BOOLEAN /\ Given(e, results[i].status)
          BY <5>1, EntryFacts DEF Given
        <5> QED
          BY <3>3, <5>2 DEF Answered
      <4> QED
        BY <1>2, <1>5, <1>6, <3>3, <4>1, <4>3, <4>4
    <3> QED
      BY <3>2, <3>3
  <2>2. Range(api_queue)' = {} /\ ~Queued(fw)' /\ \A e \in Known' : ~Queued(e)'
    BY <1>5 DEF Queued
  <2> QED
    BY <2>1, <2>2 DEF Mail
<1>14. DaemonInv'
  <2>1. ~dead' => ~Coming("DAEMON_DIED")'
    BY <1>1, <1>2, <1>5 DEF DaemonInv
  <2>2. \A e \in {"DAEMON_DIED", "PREP_SNAPSHOT_DONE", "READY_FOR_SNAPSHOT"} : Once(evt_queue, e)'
    BY <1>1, <1>3 DEF DaemonInv
  <2>3. ASSUME Told'
        PROVE  /\ Coming("PREP_SNAPSHOT_DONE")' => Waiting("PREPARE_SNAPSHOT")'
               /\ Coming("READY_FOR_SNAPSHOT")' => Waiting("TAKE_PICTURE")'
               /\ m_state' = "PREPARE_SNAPSHOT" => Waiting("PREPARE_SNAPSHOT")'
               /\ phase' # "preparing" /\ phase' # "retro"
    <3>1. Told /\ evt # "DAEMON_DIED"
      BY <1>8, <2>3
    <3>2. /\ evt = "SNAPSHOT_DONE" => \A e : Waiting(e)' <=> Waiting(e)
          /\ evt = "PREP_SNAPSHOT_DONE" => \A e : e # "PREPARE_SNAPSHOT" => (Waiting(e)' <=> Waiting(e))
          /\ evt = "READY_FOR_SNAPSHOT" => \A e : e # "TAKE_PICTURE" => (Waiting(e)' <=> Waiting(e))
      BY <1>7 DEF AnswerOf
    <3>3. Coming("PREP_SNAPSHOT_DONE")' => Waiting("PREPARE_SNAPSHOT")'
      BY <1>1, <1>3, <1>5, <1>9, <3>1, <3>2 DEF DaemonInv, Events
    <3>4. Coming("READY_FOR_SNAPSHOT")' => Waiting("TAKE_PICTURE")'
      BY <1>1, <1>3, <1>5, <1>9, <3>1, <3>2 DEF DaemonInv, Events
    <3>5. m_state' = "PREPARE_SNAPSHOT" => m_state = "PREPARE_SNAPSHOT" /\ evt # "PREP_SNAPSHOT_DONE"
      BY <1>4, <3>1 DEF EventRow, EventDone, EventOwed
    <3>6. m_state' = "PREPARE_SNAPSHOT" => Waiting("PREPARE_SNAPSHOT")'
      BY <1>1, <1>3, <1>9, <3>1, <3>2, <3>5 DEF DaemonInv, Events
    <3>7. evt = "SNAPSHOT_DONE" => phase' = "idle" \/ (phase' = phase /\ m_state # "PREVIEW_PIC_TAKING")
      BY <1>4 DEF EventRow, EventDone, isCaptureRunning
    <3>8. evt \in {"PREP_SNAPSHOT_DONE", "READY_FOR_SNAPSHOT"} => phase' = phase
      BY <1>4 DEF EventRow, EventOwed
    <3>9. phase \in {"preparing", "retro"} => m_state = "PREVIEW_PIC_TAKING"
      BY <1>1, <3>1 DEF DaemonInv
    <3>10. phase' # "preparing" /\ phase' # "retro"
      BY <1>3, <1>9, <3>1, <3>7, <3>8, <3>9 DEF Events
    <3> QED
      BY <3>3, <3>4, <3>6, <3>10
  <2> QED
    BY <2>1, <2>2, <2>3 DEF DaemonInv
<1>15. m_state' = "PREVIEW_PIC_TAKING" => m_state = "PREVIEW_PIC_TAKING" /\ evt # "SNAPSHOT_DONE"
  BY <1>4 DEF EventRow, EventDied, EventDone, EventOwed, isCaptureRunning
<1>16. PictureInv'
  <2>1. Given("PRE_TAKE_PICTURE", TRUE)' => Given("PRE_TAKE_PICTURE", TRUE)
    <3>1. "PRE_TAKE_PICTURE" \notin Deferred /\ "PRE_TAKE_PICTURE" # AnswerOf(evt)
      BY DEF AnswerOf, Deferred
    <3> QED
      BY <1>6, <3>1
  <2>2. \A e, f : ~Before(api_queue, e, f)'
    <3>1. DOMAIN (api_queue') = {}
      BY <1>1, <1>2
    <3> QED
      BY <3>1 DEF Before
  <2>3. Told' => Told
    BY <1>8
  <2>4. ~Queued("TAKE_PICTURE")'
    BY <1>5
  <2> QED
    BY <1>1, <1>2, <1>15, <2>1, <2>2, <2>3, <2>4 DEF PictureInv
\* no waiting call sees its picture change
<1>17. ASSUME Calm', Waiting("TAKE_PICTURE")' PROVE FALSE
  <2>1. Calm /\ Told /\ evt # "DAEMON_DIED" /\ Waiting("TAKE_PICTURE")
    BY <1>7, <1>8, <1>17 DEF Calm
  <2>2. m_state = "PREVIEW_PIC_TAKING" /\ retro /\ evt # "SNAPSHOT_DONE"
    BY <1>1, <1>5, <2>1 DEF TakeInv, Unhurried
  <2>3. evt = "READY_FOR_SNAPSHOT"
    BY <1>3, <1>9, <2>1, <2>2 DEF Events, Waiting
  <2>4. Given("TAKE_PICTURE", TRUE)'
    <3>1. results' = Append(results, Result("TAKE_PICTURE", TRUE))
      BY <1>4, <2>2, <2>3 DEF EventRow, EventOwed, AnswerOf
    <3>2. results \in Seq(Entry) /\ "TAKE_PICTURE" \in CallEvents
      BY <1>1, TypeFacts, EventFacts DEF Deferred
    <3>3. Range(results') = Range(results) \cup {Result("TAKE_PICTURE", TRUE)}
      BY <3>1, <3>2, ListAppend
    <3> QED
      BY <3>3 DEF Given
  <2> QED
    BY <1>17, <2>4 DEF Waiting, Answered
<1>18. ASSUME Calm', Waiting("PREPARE_SNAPSHOT")'
       PROVE  m_state' = "PREPARE_SNAPSHOT"
  <2>1. Calm /\ Told /\ evt # "DAEMON_DIED" /\ Waiting("PREPARE_SNAPSHOT") /\ fw = "PREPARE_SNAPSHOT"
    BY <1>7, <1>8, <1>18 DEF Calm
  <2>2. evt # "READY_FOR_SNAPSHOT"
    BY <1>9, <2>1
  <2>3. CASE m_state = "PREPARE_SNAPSHOT" /\ evt = "SNAPSHOT_DONE"
    BY <1>4, <2>3 DEF EventRow, EventDone
  <2>4. CASE m_state = "PREVIEW_PIC_TAKING" /\ retro /\ evt = "SNAPSHOT_DONE"
    <3>1. \/ phase = "preparing" /\ Unhurried
          \/ Ahead(evt_queue, "PREP_SNAPSHOT_DONE", "SNAPSHOT_DONE")
      BY <1>1, <2>1, <2>4 DEF FlashInv
    <3> QED
      BY <1>3, <1>5, <2>4, <3>1 DEF Unhurried
  <2>5. CASE evt = "PREP_SNAPSHOT_DONE" /\ (m_state = "PREPARE_SNAPSHOT" \/ (m_state = "PREVIEW_PIC_TAKING" /\ retro))
    <3>1. results' = Append(results, Result("PREPARE_SNAPSHOT", TRUE))
      BY <1>4, <2>5 DEF EventRow, EventOwed, AnswerOf
    <3>2. results \in Seq(Entry) /\ "PREPARE_SNAPSHOT" \in CallEvents
      BY <1>1, TypeFacts, EventFacts DEF Deferred
    <3>3. Range(results') = Range(results) \cup {Result("PREPARE_SNAPSHOT", TRUE)}
      BY <3>1, <3>2, ListAppend
    <3>4. Given("PREPARE_SNAPSHOT", TRUE)'
      BY <3>3 DEF Given
    <3> QED
      BY <1>18, <3>4 DEF Waiting, Answered
  <2>6. m_state = "PREPARE_SNAPSHOT" \/ (m_state = "PREVIEW_PIC_TAKING" /\ retro)
    BY <1>1, <2>1 DEF FlashInv
  <2> QED
    BY <1>3, <2>1, <2>2, <2>3, <2>4, <2>5, <2>6 DEF Events
<1>19. TakeInv' /\ FlashInv'
  BY <1>17, <1>18 DEF TakeInv, FlashInv
<1>20. FreshInv'
  <2> SUFFICES ASSUME Calm', retro', m_state' = "PREVIEW_PIC_TAKING",
                      fw' = "TAKE_PICTURE", Answered("TAKE_PICTURE")'
               PROVE  Fresh'
    BY <1>5 DEF FreshInv
  <2>1. Calm /\ Told /\ evt \in {"PREP_SNAPSHOT_DONE", "READY_FOR_SNAPSHOT"} /\ m_state = "PREVIEW_PIC_TAKING" /\ retro
    BY <1>2, <1>3, <1>8, <1>15 DEF Calm, Events
  <2>2. evt = "READY_FOR_SNAPSHOT" /\ Waiting("TAKE_PICTURE") /\ phase # "retro"
    BY <1>2, <1>9, <2>1
  <2>3. phase = "ready" /\ Unhurried
    BY <1>1, <2>1, <2>2 DEF TakeInv
  <2>4. phase' = phase
    BY <1>4, <2>2 DEF EventRow, EventOwed
  <2> QED
    BY <1>2, <1>5, <2>2, <2>3, <2>4 DEF Fresh, Unhurried
<1>21. WaiterInv'
  <2> SUFFICES ASSUME fw # None, ~overtaken
               PROVE  \/ woken' /\ Answered(fw)'
                      \/ Calm' /\ Waiting(fw)' /\ fw \in Deferred
    BY <1>2 DEF WaiterInv
  <2>1. CASE woken /\ Answered(fw)
    BY <1>2, <1>6, <1>7, <2>1
  <2>2. CASE Calm /\ Waiting(fw) /\ fw \in Deferred
    <3>1. CASE evt = "DAEMON_DIED"
      <4>1. m_state \in {"PREPARE_SNAPSHOT", "PREVIEW_PIC_TAKING"}
        BY <1>1, <2>2 DEF TakeInv, FlashInv, Deferred
      <4>2. /\ results' = results \o <<Result("PREPARE_SNAPSHOT", TRUE), Result("TAKE_PICTURE", TRUE)>>
            /\ woken' = (fw # None)
        BY <1>4, <3>1, <4>1 DEF EventRow, EventDied
      <4>3. Answered(fw)'
        BY <1>1, <1>2, <2>2, <4>2, DiedAnswers
      <4> QED
        BY <4>2, <4>3
    <3>2. CASE evt # "DAEMON_DIED"
      <4>1. Calm'
        BY <1>8, <2>2, <3>2
      <4>2. CASE Answered(fw)'
        BY <1>7, <2>2, <4>2 DEF Waiting
      <4>3. CASE ~Answered(fw)'
        BY <1>2, <1>5, <2>2, <4>1, <4>3 DEF Waiting
      <4> QED
        BY <4>2, <4>3
    <3> QED
      BY <3>1, <3>2
  <2> QED
    BY <1>1, <1>5, <2>1, <2>2 DEF WaiterInv, Queued
<1> QED
  BY <1>11, <1>12, <1>13, <1>14, <1>16, <1>19, <1>20, <1>21 DEF IInv

-----------------------------------------------------------------------------
(* The events of the API queue                                             *)

\* What an event of the API queue adds to the list, and that it wakes the call
LEMMA APIResults ==
  ASSUME TypeOK, NEW evt \in APIEvents, RowAnswer(evt), fw' = fw
  PROVE  /\ results' \in Seq(Entry) /\ woken' \in BOOLEAN
         /\ \A e, x : Given(e, x) => Given(e, x)'
         /\ \A e, x : Given(e, x)' =>
              Given(e, x) \/ (e = evt /\ evt \in CallEvents /\ x \in BOOLEAN /\ Answers(evt, x))
         /\ \A e : OnceFor(results, e) /\ (e = evt => ~Answered(e)) => OnceFor(results', e)
         /\ evt \in CallEvents => Defers(evt) \/ \E ok \in BOOLEAN : Answers(evt, ok) /\ Given(evt, ok)'
         /\ fw # None /\ woken => woken'
<1>1. results \in Seq(Entry) /\ woken \in BOOLEAN
  BY TypeFacts DEF TypeOK
<1>2. CASE evt = "STOP_CAPTURE_CHANNEL" /\ results' = results /\ woken' \in {woken, fw # None}
  <2>1. evt \notin CallEvents
    BY <1>2, EventFacts
  <2> QED
    BY <1>1, <1>2, <2>1 DEF Given, OnceFor
<1>3. CASE Defers(evt)
  <2>1. results' = results /\ woken' = woken
    BY <1>3 DEF Defers
  <2> QED
    BY <1>1, <1>3, <2>1 DEF Given, OnceFor
<1>4. CASE evt \in CallEvents /\ \E ok \in BOOLEAN : Answers(evt, ok)
  <2>1. PICK ok \in BOOLEAN : Answers(evt, ok)
    BY <1>4
  <2>2. results' = Append(results, Result(evt, ok)) /\ woken' = (fw # None)
    BY <2>1 DEF Answers
  <2>3. /\ results' \in Seq(Entry) /\ Range(results') = Range(results) \cup {Result(evt, ok)}
        /\ \A e : OnceFor(results, e) /\ (e = evt => \A x \in BOOLEAN : Result(e, x) \notin Range(results)) =>
             OnceFor(results', e)
    BY <1>1, <1>4, <2>2, ListAppend
  <2>4. \A e : OnceFor(results, e) /\ (e = evt => ~Answered(e)) => OnceFor(results', e)
    BY <2>3 DEF Answered, Given
  <2>5. \A e, x : Given(e, x)' => Given(e, x) \/ (e = evt /\ x = ok)
    <3> TAKE e, x
    <3> HAVE Given(e, x)'
    <3>1. Result(e, x) \in Range(results) \/ Result(e, x) = Result(evt, ok)
      BY <2>3 DEF Given
    <3>2. Result(e, x) = Result(evt, ok) => e = evt /\ x = ok
      BY ResultsDiffer
    <3> QED
      BY <3>1, <3>2 DEF Given
  <2>6. \A e, x : Given(e, x)' =>
          Given(e, x) \/ (e = evt /\ evt \in CallEvents /\ x \in BOOLEAN /\ Answers(evt, x))
    BY <1>4, <2>1, <2>5
  <2>7. /\ \A e, x : Given(e, x) => Given(e, x)'
        /\ Given(evt, ok)'
    BY <2>3 DEF Given
  <2>8. woken' \in BOOLEAN /\ (fw # None /\ woken => woken')
    BY <2>2
  <2>9. \E x \in BOOLEAN : Answers(evt, x) /\ Given(evt, x)'
    BY <2>1, <2>7
  <2> QED
    BY <2>3, <2>4, <2>6, <2>7, <2>8, <2>9
<1> QED
  BY <1>2, <1>3, <1>4 DEF RowAnswer

\* The head of the API queue is the event of the call or was posted.
LEMMA HeadOfCall ==
  ASSUME IInv, api_queue # <<>>, api_queue' = Tail(api_queue), fw' = fw,
         NEW evt, evt = Head(api_queue)
  PROVE  /\ evt \in APIEvents /\ Queued(evt) /\ api_queue' \in Seq(APIEvents)
         /\ \A e : Queued(e) => e = evt \/ Queued(e)'
         /\ \A e : Queued(e)' => Queued(e)
         /\ \A e : PostedAfter(api_queue, e) => PostedAfter(api_queue', e)
         /\ \A e, f : Before(api_queue', e, f) => Before(api_queue, e, f) /\ Queued(e)'
         /\ \A f : Queued(f)' => Before(api_queue, evt, f)
         /\ evt \in Known =>
              fw = evt /\ ~Answered(evt) /\ ~Queued(evt)' /\ \A f : Queued(f)' => f \in Posted
         /\ evt \in Known \/ evt \in Posted \/ (evt \in Deferred /\ ~Told)
         /\ fw \in Known /\ ~Queued(fw) => evt \in Posted
         /\ fw \in {"SET_PARAMS_STOP", "SET_PARAMS_COMMIT", "SET_PARAMS_RESTART"} => evt \in Posted \cup {fw}
<1>1. Mail /\ api_queue \in Seq(APIEvents)
  BY TypeFacts DEF IInv
<1>2. /\ evt \in APIEvents /\ api_queue' \in Seq(APIEvents)
      /\ Range(api_queue) = {evt} \cup Range(api_queue')
      /\ \A e : PostedAfter(api_queue, e) => PostedAfter(api_queue', e) /\ (evt = e => Range(api_queue') \subseteq Posted)
      /\ \A e, f : Before(api_queue', e, f) => Before(api_queue, e, f) /\ e \in Range(api_queue')
      /\ \A f : f \in Range(api_queue') => Before(api_queue, evt, f)
  BY <1>1, TailFacts
<1>3. /\ \A e : Queued(e) <=> e \in Range(api_queue)
      /\ \A e : Queued(e)' <=> e \in Range(api_queue')
  BY DEF Queued
<1>4. Queued(evt) /\ (\A e : Queued(e) => e = evt \/ Queued(e)') /\ (\A e : Queued(e)' => Queued(e))
  BY <1>2, <1>3
<1>5. evt \in Known =>
        fw = evt /\ ~Answered(evt) /\ ~Queued(evt)' /\ \A f : Queued(f)' => f \in Posted
  <2> SUFFICES ASSUME evt \in Known
               PROVE  fw = evt /\ ~Answered(evt) /\ ~Queued(evt)' /\ \A f : Queued(f)' => f \in Posted
    OBVIOUS
  <2>1. fw = evt /\ PostedAfter(api_queue, evt) /\ ~Answered(evt)
    BY <1>1, <1>4 DEF Mail
  <2>2. \A f : Queued(f)' => f \in Posted
    BY <1>2, <1>3, <2>1
  <2> QED
    BY <2>1, <2>2, KnownFacts
<1>6. evt \in Known \/ evt \in Posted \/ (evt \in Deferred /\ ~Told)
  BY <1>2, EventFacts DEF Known, Posted
<1>7. /\ fw \in Known /\ ~Queued(fw) => evt \in Posted
      /\ fw \in {"SET_PARAMS_STOP", "SET_PARAMS_COMMIT", "SET_PARAMS_RESTART"} => evt \in Posted \cup {fw}
  BY <1>1, <1>2 DEF Mail
<1> QED
  BY <1>2, <1>3, <1>4, <1>5, <1>6, <1>7

\* What the rows rely on holds when the machine takes an event.
LEMMA HandleAPIRow ==
  ASSUME IInv, HandleAPI, NEW evt, evt = Head(api_queue), NEW b \in BOOLEAN, b = Between
  PROVE  Row(evt, b)
<1>1. /\ TypeOK /\ Mail /\ ChannelsInv /\ DaemonInv /\ MachineOK
      /\ api_queue # <<>> /\ api_queue' = Tail(api_queue) /\ stateMachine(evt) /\ RowFrame
  BY TypeFacts DEF IInv, HandleAPI, RowFrame
<1>2. /\ evt \in APIEvents /\ Queued(evt)
      /\ evt \in Known => fw = evt
      /\ fw \in Known /\ ~Queued(fw) => evt \in Posted
      /\ fw \in {"SET_PARAMS_STOP", "SET_PARAMS_COMMIT", "SET_PARAMS_RESTART"} => evt \in Posted \cup {fw}
  BY <1>1, HeadOfCall DEF RowFrame
<1>3. /\ \A e \in {"SET_PARAMS_STOP", "SET_PARAMS_COMMIT", "SET_PARAMS_RESTART"} : e \in Known
      /\ CommandEvents \subseteq Known
  BY KnownFacts DEF SetEvents
<1>4. b => evt \in {"SET_PARAMS_COMMIT", "SET_PARAMS_RESTART"} \cup Posted
  <2>1. CASE fw = "SET_PARAMS_STOP" /\ Given("SET_PARAMS_STOP", TRUE)
    <3>1. ~Queued("SET_PARAMS_STOP")
      BY <1>1, <1>3, <2>1 DEF Mail, Answered
    <3> QED
      BY <1>2, <1>3, <2>1, <3>1
  <2>2. CASE fw \in {"SET_PARAMS_COMMIT", "SET_PARAMS_RESTART"}
    BY <1>2, <2>2
  <2> QED
    BY <2>1, <2>2 DEF Between
<1>5. evt = "SET_PARAMS_RESTART" => b
  BY <1>2, <1>3 DEF Between
<1>6. evt = "SET_PARAMS_COMMIT" /\ m_state = "PREPARE_SNAPSHOT" => dead
  <2>1. m_state = "PREPARE_SNAPSHOT" /\ ~dead => fw = "PREPARE_SNAPSHOT"
    BY <1>1 DEF DaemonInv, Told, Waiting
  <2>2. evt = "SET_PARAMS_COMMIT" => fw = "SET_PARAMS_COMMIT"
    BY <1>2, <1>3
  <2> QED
    BY <2>1, <2>2
<1>7. longshot \/ evt \in CommandEvents => longshotUsed
  BY <1>1, <1>2, <1>3 DEF ChannelsInv
<1>8. /\ StoppedIsEmpty(b, m_state, channels) /\ VideoRuns(m_state, channels)
      /\ Untroubled => FramesFlow(b, m_state, channels)
      /\ LiveIsVideo
  BY <1>1 DEF ChannelsInv
<1>9. RowPre(evt, b)
  BY <1>1, <1>2, <1>4, <1>5, <1>6, <1>7, <1>8 DEF RowPre
<1> QED
  BY <1>1, <1>9, StateMachineRow

\* The end of a longshot may send SNAPSHOT_DONE; nothing else is sent.
LEMMA LongshotSends ==
  ASSUME TypeOK, HandleAPI, NEW evt, RowSettings(evt)
  PROVE  /\ evt_queue' \in Seq(Events)
         /\ \A e : Coming(e) => Coming(e)'
         /\ \A e : Coming(e)' => Coming(e) \/ e = "SNAPSHOT_DONE"
         /\ \A e : e # "SNAPSHOT_DONE" /\ Once(evt_queue, e) => Once(evt_queue', e)
         /\ \A e, f : Ahead(evt_queue, e, f) => Ahead(evt_queue', e, f)
         /\ evt \in PictureEvents \cup {"CANCEL_PICTURE"} => evt_queue' = evt_queue
         /\ evt = "STOP_CAPTURE_CHANNEL" /\ m_state # "PIC_TAKING" => evt_queue' = evt_queue
<1>1. evt_queue \in Seq(Events)
  BY DEF TypeOK
<1>2. evt_queue' = evt_queue \/ evt_queue' = Append(evt_queue, "SNAPSHOT_DONE")
  BY DEF HandleAPI
<1>3. CASE evt_queue' = evt_queue
  BY <1>1, <1>3 DEF Coming
<1>4. CASE evt_queue' = Append(evt_queue, "SNAPSHOT_DONE")
  <2>1. "SNAPSHOT_DONE" \in Events
    BY DEF Events
  <2>2. /\ evt_queue' \in Seq(Events) /\ Range(evt_queue') = Range(evt_queue) \cup {"SNAPSHOT_DONE"}
        /\ \A e : Once(evt_queue, e) /\ ("SNAPSHOT_DONE" = e => e \notin Range(evt_queue)) => Once(evt_queue', e)
        /\ \A e, f : Ahead(evt_queue, e, f) => Ahead(evt_queue', e, f)
    BY <1>1, <1>4, <2>1, AppendFacts
  <2>3. evt \in PictureEvents \cup {"CANCEL_PICTURE"} => evt_queue' = evt_queue
    <3>1. evt \in PictureEvents \cup {"CANCEL_PICTURE"} =>
            evt \notin CommandEvents \cup {"SET_PARAMS_RESTART", "PRE_START_RECORDING", "STOP_CAPTURE_CHANNEL"} \cup PlayEvents
      BY DEF PictureEvents, CommandEvents, PlayEvents
    <3> QED
      BY <3>1 DEF HandleAPI, RowSettings
  <2>4. evt = "STOP_CAPTURE_CHANNEL" /\ m_state # "PIC_TAKING" => evt_queue' = evt_queue
    BY DEF HandleAPI, RowSettings, CommandEvents, PlayEvents
  <2> QED
    BY <2>2, <2>3, <2>4 DEF Coming
<1> QED
  BY <1>2, <1>3, <1>4

\* Whether set_parameters is between its stop and its restart after the event
LEMMA BetweenAfter ==
  ASSUME IInv, HandleAPI, NEW evt, evt = Head(api_queue), NEW b \in BOOLEAN, b = Between, Row(evt, b)
  PROVE  Between' <=> StillBetween(evt, b)
<1>1. /\ TypeOK /\ Mail /\ api_queue # <<>> /\ api_queue' = Tail(api_queue) /\ fw' = fw
      /\ RowAnswer(evt) /\ RowSettings(evt) /\ needRestart \in BOOLEAN
  BY DEF IInv, HandleAPI, Row, TypeOK
<1>2. /\ evt \in APIEvents /\ Queued(evt)
      /\ \A e : Queued(e) => e = evt \/ Queued(e)'
      /\ \A e : Queued(e)' => Queued(e)
      /\ evt \in Known => fw = evt /\ ~Answered(evt) /\ ~Queued(evt)'
      /\ fw \in {"SET_PARAMS_STOP", "SET_PARAMS_COMMIT", "SET_PARAMS_RESTART"} => evt \in Posted \cup {fw}
  BY <1>1, HeadOfCall
<1>3. \A e \in {"SET_PARAMS_STOP", "SET_PARAMS_COMMIT", "SET_PARAMS_RESTART"} :
        e \in Known /\ e \in CallEvents /\ e \notin Posted /\ e \notin Deferred
  BY KnownFacts DEF SetEvents, Deferred, Posted
<1>4. /\ \A e, x : Given(e, x) => Given(e, x)'
      /\ \A e, x : Given(e, x)' =>
           Given(e, x) \/ (e = evt /\ evt \in CallEvents /\ x \in BOOLEAN /\ Answers(evt, x))
      /\ evt \in CallEvents => Defers(evt) \/ \E ok \in BOOLEAN : Answers(evt, ok) /\ Given(evt, ok)'
  BY <1>1, <1>2, APIResults
<1>5. evt \in {"SET_PARAMS_STOP", "SET_PARAMS_COMMIT"} \cup Posted => needRestart' = needRestart
  BY <1>1 DEF RowSettings
<1>6. /\ Between <=> \/ fw = "SET_PARAMS_STOP" /\ Given("SET_PARAMS_STOP", TRUE)
                     \/ fw = "SET_PARAMS_COMMIT" /\ needRestart
                     \/ fw = "SET_PARAMS_RESTART" /\ Queued("SET_PARAMS_RESTART")
      /\ Between' <=> \/ fw = "SET_PARAMS_STOP" /\ Given("SET_PARAMS_STOP", TRUE)'
                      \/ fw = "SET_PARAMS_COMMIT" /\ needRestart'
                      \/ fw = "SET_PARAMS_RESTART" /\ Queued("SET_PARAMS_RESTART")'
  BY <1>1 DEF Between
<1>7. CASE evt = "SET_PARAMS_STOP"
  <2>1. fw = "SET_PARAMS_STOP" /\ ~Given("SET_PARAMS_STOP", TRUE)
    BY <1>2, <1>3, <1>7 DEF Answered
  <2>2. ~Defers(evt)
    BY <1>7 DEF Defers
  <2>3. PICK ok \in BOOLEAN : Answers(evt, ok) /\ Given(evt, ok)'
    BY <1>3, <1>4, <1>7, <2>2
  <2>4. ok = Stoppable
    BY <1>7, <2>3 DEF Answers
  <2>5. Given("SET_PARAMS_STOP", TRUE)' => Stoppable
    <3>1. Answers(evt, TRUE) => TRUE = Stoppable
      BY <1>7 DEF Answers
    <3>2. Given("SET_PARAMS_STOP", TRUE)' => Answers(evt, TRUE)
      BY <1>4, <2>1
    <3> QED
      BY <3>1, <3>2
  <2>6. Stoppable => Given("SET_PARAMS_STOP", TRUE)'
    <3>1. ASSUME Stoppable PROVE ok = TRUE
      BY <2>4, <3>1
    <3> QED
      BY <1>7, <2>3, <3>1
  <2> QED
    BY <1>6, <1>7, <2>1, <2>5, <2>6 DEF StillBetween
<1>8. CASE evt # "SET_PARAMS_STOP"
  <2>1. Given("SET_PARAMS_STOP", TRUE)' <=> Given("SET_PARAMS_STOP", TRUE)
    BY <1>4, <1>8
  <2>2. StillBetween(evt, b) <=> Between /\ evt \in {"SET_PARAMS_COMMIT"} \cup Posted
    BY <1>8 DEF StillBetween
  <2>3. CASE fw = "SET_PARAMS_STOP"
    BY <1>2, <1>6, <1>8, <2>1, <2>2, <2>3
  <2>4. CASE fw = "SET_PARAMS_COMMIT"
    BY <1>2, <1>5, <1>6, <2>2, <2>4
  <2>5. CASE fw = "SET_PARAMS_RESTART"
    <3>1. CASE evt = "SET_PARAMS_RESTART"
      <4>1. ~Queued("SET_PARAMS_RESTART")'
        BY <1>2, <1>3, <3>1
      <4>2. ~Between'
        BY <1>6, <2>5, <4>1
      <4>3. ~StillBetween(evt, b)
        BY <1>3, <2>2, <3>1
      <4> QED
        BY <4>2, <4>3
    <3>2. CASE evt \in Posted
      <4>1. Queued("SET_PARAMS_RESTART")' <=> Queued("SET_PARAMS_RESTART")
        BY <1>2, <1>3, <3>2
      <4> QED
        BY <1>6, <2>2, <2>5, <3>2, <4>1
    <3> QED
      BY <1>2, <2>5, <3>1, <3>2
  <2>6. CASE fw \notin {"SET_PARAMS_STOP", "SET_PARAMS_COMMIT", "SET_PARAMS_RESTART"}
    BY <1>6, <2>2, <2>6
  <2> QED
    BY <2>3, <2>4, <2>5, <2>6
<1> QED
  BY <1>7, <1>8

\* The machine handles an event of the API queue.
LEMMA HandleAPIStep == ASSUME IInv, HandleAPI PROVE IInv'
<1>1. /\ TypeOK /\ Mail /\ ChannelsInv /\ DaemonInv /\ PictureInv /\ TakeInv /\ FlashInv /\ FreshInv /\ WaiterInv
      /\ api_queue # <<>> /\ api_queue' = Tail(api_queue) /\ results \in Seq(Entry)
      /\ UNCHANGED <<fw, calls, notifier, retro, restart, longshotUsed, dead>>
  BY TypeFacts DEF IInv, HandleAPI
<1>2. PICK evt : evt = Head(api_queue)
  OBVIOUS
<1>3. PICK b \in BOOLEAN : b = Between
  BY DEF Between
<1>4. Row(evt, b)
  BY <1>2, <1>3, HandleAPIRow
<1>5. MachineOK' /\ RowChannels(evt, b) /\ RowAnswer(evt) /\ RowSettings(evt) /\ RowMoves(evt)
  BY <1>4 DEF Row
\* the queue
<1>6. /\ evt \in APIEvents /\ Queued(evt) /\ api_queue' \in Seq(APIEvents)
      /\ \A e : Queued(e) => e = evt \/ Queued(e)'
      /\ \A e : Queued(e)' => Queued(e)
      /\ \A e : PostedAfter(api_queue, e) => PostedAfter(api_queue', e)
      /\ \A e, f : Before(api_queue', e, f) => Before(api_queue, e, f) /\ Queued(e)'
      /\ \A f : Queued(f)' => Before(api_queue, evt, f)
      /\ evt \in Known =>
           fw = evt /\ ~Answered(evt) /\ ~Queued(evt)' /\ \A f : Queued(f)' => f \in Posted
      /\ evt \in Known \/ evt \in Posted \/ (evt \in Deferred /\ ~Told)
      /\ fw \in Known /\ ~Queued(fw) => evt \in Posted
      /\ fw \in {"SET_PARAMS_STOP", "SET_PARAMS_COMMIT", "SET_PARAMS_RESTART"} => evt \in Posted \cup {fw}
  BY <1>1, <1>2, HeadOfCall
\* the list
<1>7. /\ results' \in Seq(Entry) /\ woken' \in BOOLEAN
      /\ \A e, x : Given(e, x) => Given(e, x)'
      /\ \A e, x : Given(e, x)' =>
           Given(e, x) \/ (e = evt /\ evt \in CallEvents /\ x \in BOOLEAN /\ Answers(evt, x))
      /\ \A e : OnceFor(results, e) /\ (e = evt => ~Answered(e)) => OnceFor(results', e)
      /\ evt \in CallEvents => Defers(evt) \/ \E ok \in BOOLEAN : Answers(evt, ok) /\ Given(evt, ok)'
      /\ fw # None /\ woken => woken'
  BY <1>1, <1>5, <1>6, APIResults
<1>8. /\ \A e : Answered(e) => Answered(e)'
      /\ \A e : Answered(e)' => Answered(e) \/ e = evt
      /\ evt \in CallEvents => Defers(evt) \/ (Answered(evt)' /\ woken' = (fw # None))
  <2>1. evt \in CallEvents => Defers(evt) \/ (Answered(evt)' /\ woken' = (fw # None))
    <3> SUFFICES ASSUME evt \in CallEvents, ~Defers(evt) PROVE Answered(evt)' /\ woken' = (fw # None)
      OBVIOUS
    <3>1. PICK ok \in BOOLEAN : Answers(evt, ok) /\ Given(evt, ok)'
      BY <1>7
    <3>2. woken' = (fw # None)
      BY <3>1 DEF Answers
    <3>3. ok = TRUE \/ ok = FALSE
      OBVIOUS
    <3>4. Answered(evt)'
      BY <3>1, <3>3 DEF Answered
    <3> QED
      BY <3>2, <3>4
  <2>2. \A e : Answered(e) => Answered(e)'
    <3>1. \A e, x : Given(e, x) => Given(e, x)'
      BY <1>7
    <3> QED
      BY <3>1 DEF Answered
  <2>3. \A e : Answered(e)' => Answered(e) \/ e = evt
    <3>1. \A e, x : Given(e, x)' => Given(e, x) \/ e = evt
      BY <1>7
    <3> QED
      BY <3>1 DEF Answered
  <2> QED
    BY <2>1, <2>2, <2>3
\* what the daemon and the notifier sent
<1>9. /\ evt_queue' \in Seq(Events)
      /\ \A e : Coming(e) => Coming(e)'
      /\ \A e : Coming(e)' => Coming(e) \/ e = "SNAPSHOT_DONE"
      /\ \A e : e # "SNAPSHOT_DONE" /\ Once(evt_queue, e) => Once(evt_queue', e)
      /\ \A e, f : Ahead(evt_queue, e, f) => Ahead(evt_queue', e, f)
      /\ evt \in PictureEvents \cup {"CANCEL_PICTURE"} => evt_queue' = evt_queue
      /\ evt = "STOP_CAPTURE_CHANNEL" /\ m_state # "PIC_TAKING" => evt_queue' = evt_queue
  BY <1>1, <1>5, LongshotSends
<1>10. Told' = Told /\ Known' = Known
  <2>1. Told <=> ~dead \/ Coming("DAEMON_DIED")
    BY DEF Told, Coming
  <2>2. Told' <=> ~dead \/ Coming("DAEMON_DIED")'
    BY <1>1 DEF Told, Coming
  <2>3. Told \in BOOLEAN /\ Told' \in BOOLEAN
    BY DEF Told
  <2>4. Told' = Told
    BY <1>9, <2>1, <2>2, <2>3
  <2> QED
    BY <2>4 DEF Known
<1>11. /\ Calm' => Calm /\ Told
       /\ ~overtaken' => ~overtaken
       /\ ~overtaken' /\ Told => Calm'
       /\ overtaken' \in BOOLEAN
  BY <1>1, <1>10 DEF Calm, HandleAPI, TypeOK
<1>12. Between' <=> StillBetween(evt, b)
  BY <1>2, <1>3, <1>4, BetweenAfter
<1>13. /\ \A e : e \in {"SET_PARAMS_STOP", "SET_PARAMS_COMMIT", "SET_PARAMS_RESTART"} \cup CommandEvents \cup {"PRE_TAKE_PICTURE"} =>
                  e \in Known /\ e \notin Posted
       /\ Told => \A e \in Deferred : e \in Known /\ e \notin Posted
       /\ Known \subseteq CallEvents /\ Deferred \subseteq PictureEvents
  <2>1. Deferred \subseteq PictureEvents
    BY DEF Deferred, PictureEvents
  <2> QED
    BY <2>1, KnownFacts DEF SetEvents
\* a call that waits is not at the head, and goes on to wait; one that begins to wait was
<1>14. ASSUME Told, NEW e \in Deferred, Waiting(e)
       PROVE  evt \in Posted /\ Waiting(e)'
  <2>1. evt \in Posted
    BY <1>6, <1>13, <1>14 DEF Waiting
  <2>2. evt # e
    BY <1>13, <1>14, <2>1
  <2> QED
    BY <1>1, <1>6, <1>8, <1>14, <2>1, <2>2 DEF Waiting
<1>15. ASSUME NEW e \in Deferred, Waiting(e)'
       PROVE  Waiting(e) \/ (evt = e /\ Defers(evt))
  <2>1. fw = e /\ ~Queued(e)' /\ ~Answered(e)' /\ ~Answered(e)
    BY <1>1, <1>8, <1>15 DEF Waiting
  <2>2. CASE Queued(e)
    <3>1. evt = e /\ evt \in CallEvents
      BY <1>6, <2>1, <2>2, EventFacts
    <3> QED
      BY <1>8, <2>1, <3>1
  <2>3. CASE ~Queued(e)
    BY <2>1, <2>3 DEF Waiting
  <2> QED
    BY <2>2, <2>3
<1>16. ASSUME Defers(evt)
       PROVE  evt \in Deferred /\ Told /\ fw = evt /\ Waiting(evt)'
  <2>1. evt \in Deferred /\ Told /\ results' = results
    BY <1>16 DEF Defers, Deferred, Told
  <2>2. fw = evt /\ ~Answered(evt) /\ ~Queued(evt)'
    BY <1>6, <1>13, <2>1
  <2>3. ~Answered(evt)'
    BY <2>1, <2>2 DEF Answered, Given
  <2> QED
    BY <1>1, <2>1, <2>2, <2>3 DEF Waiting
\* after a posted event a picture with a waiting call lasts
<1>17. ASSUME evt \in Posted, m_state = "PREVIEW_PIC_TAKING", m_state' = "PREVIEW_PIC_TAKING" \/ ~Queued("CANCEL_PICTURE")
       PROVE  evt = "STOP_CAPTURE_CHANNEL" /\ UNCHANGED <<m_state, phase, evt_queue>>
  <2>1. evt = "STOP_CAPTURE_CHANNEL"
    BY <1>5, <1>6, <1>17 DEF RowMoves, Posted
  <2> QED
    BY <1>5, <1>9, <1>17, <2>1 DEF RowMoves
<1>18. TypeOK'
  <2>1. results' \in Seq([request_api : CallEvents, status : BOOLEAN])
    BY <1>7 DEF Entry
  <2> QED
    BY <1>1, <1>5, <1>6, <1>7, <1>9, <1>11, <2>1 DEF TypeOK, MachineOK, Chan, Param
<1>19. Mail'
  <2>1. \A e \in Known' : Queued(e)' => fw' = e /\ PostedAfter(api_queue, e)'
    BY <1>1, <1>6, <1>10 DEF Mail
  <2>2. ASSUME NEW e \in Known, Answered(e)' PROVE fw = e /\ ~Queued(e)' /\ OnceFor(results', e)
    <3>1. CASE Answered(e)
      <4>1. fw = e /\ ~Queued(e) /\ OnceFor(results, e)
        BY <1>1, <3>1 DEF Mail
      <4> QED
        BY <1>6, <1>7, <4>1
    <3>2. CASE ~Answered(e)
      <4>1. e = evt
        BY <1>8, <2>2, <3>2
      <4>2. OnceFor(results, e)
        <5> SUFFICES ASSUME NEW i \in DOMAIN results, results[i].request_api = e PROVE FALSE
          BY DEF OnceFor
        <5>1. results[i].status \in BOOLEAN /\ Given(e, results[i].status)
          BY <1>1, EntryFacts DEF Given
        <5> QED
          BY <3>2, <5>1 DEF Answered
      <4> QED
        BY <1>6, <1>7, <3>2, <4>1, <4>2
    <3> QED
      BY <3>1, <3>2
  <2>3. ASSUME fw \in Known, ~Queued(fw)' PROVE \A f : Queued(f)' => f \in Posted
    <3>1. CASE Queued(fw)
      BY <1>1, <1>6, <2>3, <3>1
    <3>2. CASE ~Queued(fw)
      BY <1>1, <1>6, <2>3, <3>2 DEF Mail, Queued
    <3> QED
      BY <3>1, <3>2
  <2>4. fw \in Known /\ ~Queued(fw)' => Range(api_queue') \subseteq Posted
    BY <2>3 DEF Queued
  <2>5. Range(api_queue') \subseteq Range(api_queue)
    BY <1>6 DEF Queued
  <2>6. fw' \in Known' /\ ~Queued(fw)' => Range(api_queue)' \subseteq Posted
    BY <1>1, <1>10, <2>4 DEF Queued
  <2>7. \A e \in Known' : Answered(e)' => fw' = e /\ ~Queued(e)' /\ OnceFor(results, e)'
    BY <1>1, <1>10, <2>2
  <2> QED
    BY <1>1, <2>1, <2>5, <2>6, <2>7 DEF Mail
<1>20. ChannelsInv'
  <2>1. /\ StoppedIsEmpty(Between, m_state, channels)'
        /\ Untroubled' => FramesFlow(Between, m_state, channels)'
        /\ VideoRuns(m_state, channels)'
    BY <1>1, <1>5, <1>12 DEF RowChannels, StoppedIsEmpty, FramesFlow, VideoRuns
  <2>2. LiveIsVideo'
    BY <1>5 DEF RowMoves
  <2>3. longshot' \/ fw \in CommandEvents => longshotUsed
    <3>1. "LONGSHOT_ON" \in CommandEvents
      BY DEF CommandEvents
    <3>2. longshot' => longshot \/ evt = "LONGSHOT_ON"
      BY <1>5 DEF RowSettings
    <3>3. evt = "LONGSHOT_ON" => fw \in CommandEvents
      BY <1>6, <1>13, <3>1
    <3> QED
      BY <1>1, <3>2, <3>3 DEF ChannelsInv
  <2>4. fw = "SET_PARAMS_STOP" => needRestart'
    <3>1. fw = "SET_PARAMS_STOP" => needRestart
      BY <1>1 DEF ChannelsInv
    <3>2. fw = "SET_PARAMS_STOP" => needRestart' = needRestart
      BY <1>5, <1>6 DEF RowSettings
    <3> QED
      BY <3>1, <3>2
  <2>5. fw = "SET_PARAMS_COMMIT" /\ Given("SET_PARAMS_COMMIT", FALSE)' => failures' > 0 \/ dead
    <3> SUFFICES ASSUME fw = "SET_PARAMS_COMMIT", Given("SET_PARAMS_COMMIT", FALSE)', ~dead PROVE failures' > 0
      OBVIOUS
    <3>1. failures \in Nat /\ failures' \in Nat /\ failures' >= failures
      BY <1>1, <1>5 DEF TypeOK, MachineOK, RowSettings
    <3>2. CASE Given("SET_PARAMS_COMMIT", FALSE)
      <4>1. failures > 0
        BY <1>1, <3>2 DEF ChannelsInv
      <4> QED
        BY <3>1, <4>1
    <3>3. CASE ~Given("SET_PARAMS_COMMIT", FALSE)
      <4>1. evt = "SET_PARAMS_COMMIT" /\ Answers(evt, FALSE)
        BY <1>7, <3>3
      <4>2. failures' # 0
        BY <4>1 DEF Answers
      <4> QED
        BY <3>1, <4>2
    <3> QED
      BY <3>2, <3>3
  <2> QED
    BY <1>1, <2>1, <2>2, <2>3, <2>4, <2>5 DEF ChannelsInv
<1>21. DaemonInv'
  <2>1. ~dead' => ~Coming("DAEMON_DIED")'
    BY <1>1, <1>9 DEF DaemonInv
  <2>2. \A e \in {"DAEMON_DIED", "PREP_SNAPSHOT_DONE", "READY_FOR_SNAPSHOT"} : Once(evt_queue, e)'
    BY <1>1, <1>9 DEF DaemonInv
  <2>3. "PREPARE_SNAPSHOT" \in Deferred /\ "TAKE_PICTURE" \in Deferred
    BY DEF Deferred
  <2>4. ASSUME Told
        PROVE  /\ Coming("PREP_SNAPSHOT_DONE")' => Waiting("PREPARE_SNAPSHOT")'
               /\ Coming("READY_FOR_SNAPSHOT")' => Waiting("TAKE_PICTURE")'
               /\ m_state' = "PREPARE_SNAPSHOT" => Waiting("PREPARE_SNAPSHOT")'
    <3>1. m_state' = "PREPARE_SNAPSHOT" =>
            m_state = "PREPARE_SNAPSHOT" \/ (evt = "PREPARE_SNAPSHOT" /\ Defers(evt))
      BY <1>5 DEF RowMoves, Defers
    <3> QED
      BY <1>1, <1>9, <1>14, <1>16, <2>3, <2>4, <3>1 DEF DaemonInv
  <2>5. ASSUME Told, phase' = "preparing"
        PROVE  /\ Waiting("PREPARE_SNAPSHOT")' /\ ~Coming("PREP_SNAPSHOT_DONE")'
               /\ m_state' = "PREVIEW_PIC_TAKING" /\ retro
    <3>1. CASE phase = "preparing"
      <4>1. Waiting("PREPARE_SNAPSHOT") /\ ~Coming("PREP_SNAPSHOT_DONE") /\ m_state = "PREVIEW_PIC_TAKING" /\ retro
        BY <1>1, <2>5, <3>1 DEF DaemonInv
      <4>2. evt \in Posted /\ Waiting("PREPARE_SNAPSHOT")'
        BY <1>14, <2>3, <2>5, <4>1
      <4>3. m_state' = m_state
        BY <1>5, <2>5, <4>2 DEF RowMoves, Posted
      <4> QED
        BY <1>9, <4>1, <4>2, <4>3
    <3>2. CASE phase # "preparing"
      <4>1. Defers(evt) /\ m_state = "PREVIEW_PIC_TAKING"
        BY <1>5, <2>5, <3>2 DEF RowMoves
      <4>2. evt = "PREPARE_SNAPSHOT" /\ retro /\ m_state' = m_state
        BY <4>1 DEF Defers
      <4>3. ~Coming("PREP_SNAPSHOT_DONE")
        BY <1>1, <1>6, <2>5, <4>2 DEF DaemonInv, Waiting
      <4> QED
        BY <1>9, <1>16, <4>1, <4>2, <4>3
    <3> QED
      BY <3>1, <3>2
  <2>6. ASSUME Told, phase' = "retro"
        PROVE  /\ Waiting("TAKE_PICTURE")' /\ ~Coming("READY_FOR_SNAPSHOT")'
               /\ m_state' = "PREVIEW_PIC_TAKING" /\ retro
    <3>1. CASE phase = "retro"
      <4>1. Waiting("TAKE_PICTURE") /\ ~Coming("READY_FOR_SNAPSHOT") /\ m_state = "PREVIEW_PIC_TAKING" /\ retro
        BY <1>1, <2>6, <3>1 DEF DaemonInv
      <4>2. evt \in Posted /\ Waiting("TAKE_PICTURE")'
        BY <1>14, <2>3, <2>6, <4>1
      <4>3. m_state' = m_state
        BY <1>5, <2>6, <4>2 DEF RowMoves, Posted
      <4> QED
        BY <1>9, <4>1, <4>2, <4>3
    <3>2. CASE phase # "retro"
      <4>1. Defers(evt) /\ evt = "TAKE_PICTURE"
        BY <1>5, <2>6, <3>2 DEF RowMoves
      <4>2. retro /\ m_state' = "PREVIEW_PIC_TAKING"
        BY <4>1 DEF Defers
      <4>3. ~Coming("READY_FOR_SNAPSHOT")
        BY <1>1, <1>6, <2>6, <4>1 DEF DaemonInv, Waiting
      <4> QED
        BY <1>9, <1>16, <4>1, <4>2, <4>3
    <3> QED
      BY <3>1, <3>2
  <2> QED
    BY <1>1, <1>10, <2>1, <2>2, <2>4, <2>5, <2>6 DEF DaemonInv
<1>22. PictureInv'
  <2>1. retro' /\ fw' \in {"PRE_TAKE_PICTURE", "TAKE_PICTURE"} => ~longshot'
    <3>1. longshot' => longshot \/ evt = "LONGSHOT_ON"
      BY <1>5 DEF RowSettings
    <3>2. evt = "LONGSHOT_ON" => fw = "LONGSHOT_ON"
      BY <1>6, <1>13 DEF CommandEvents
    <3> QED
      BY <1>1, <3>1, <3>2 DEF PictureInv
  <2>2. m_state' = "PREVIEW_PIC_TAKING" => m_state = m_state' \/ evt = "TAKE_PICTURE"
    BY <1>5 DEF RowMoves
  <2>3. ASSUME Told, retro, fw = "PRE_TAKE_PICTURE", Given("PRE_TAKE_PICTURE", TRUE)', m_state' = "PREVIEW_PIC_TAKING"
        PROVE  FALSE
    <3>1. m_state = "PREVIEW_PIC_TAKING"
      BY <1>6, <1>13, <2>2, <2>3 DEF Deferred
    <3>2. ~Given("PRE_TAKE_PICTURE", TRUE)
      BY <1>1, <2>3, <3>1 DEF PictureInv
    <3>3. evt = "PRE_TAKE_PICTURE" /\ Answers(evt, TRUE)
      BY <1>7, <2>3, <3>2
    <3>4. longshot
      BY <3>1, <3>3 DEF Answers
    <3> QED
      BY <1>1, <2>3, <3>4 DEF PictureInv
  <2>4. ASSUME Told, retro, fw = "TAKE_PICTURE", Queued("TAKE_PICTURE")', m_state' = "PREVIEW_PIC_TAKING"
        PROVE  FALSE
    <3>1. evt # "TAKE_PICTURE"
      BY <1>6, <1>13, <2>4 DEF Deferred
    <3>2. m_state = "PREVIEW_PIC_TAKING" /\ Queued("TAKE_PICTURE")
      BY <1>6, <2>2, <2>4, <3>1
    <3> QED
      BY <1>1, <2>4, <3>2 DEF PictureInv
  <2>5. ASSUME Told, NEW e \in Deferred, Before(api_queue', e, "CANCEL_PICTURE")
        PROVE  m_state' \in {"RECORDING", "VIDEO_PIC_TAKING"}
    <3>1. Before(api_queue, e, "CANCEL_PICTURE") /\ Queued(e)' /\ Queued(e)
      BY <1>6, <2>5
    <3>2. m_state \in {"RECORDING", "VIDEO_PIC_TAKING"}
      BY <1>1, <2>5, <3>1 DEF PictureInv
    <3>3. evt \in Posted
      BY <1>6, <1>13, <2>5, <3>1
    <3> QED
      BY <1>5, <3>2, <3>3 DEF RowMoves
  <2>6. \A e \in Deferred : Told' /\ Before(api_queue, e, "CANCEL_PICTURE")' =>
          m_state' \in {"RECORDING", "VIDEO_PIC_TAKING"}
    BY <1>10, <2>5
  <2> QED
    BY <1>1, <1>10, <2>1, <2>3, <2>4, <2>6 DEF PictureInv
\* a picture is not cancelled behind its call
<1>23. ASSUME Told, evt \in Deferred, Queued("CANCEL_PICTURE")'
       PROVE  m_state \in {"RECORDING", "VIDEO_PIC_TAKING"}
  BY <1>1, <1>6, <1>23 DEF PictureInv
<1>24. TakeInv'
  <2> SUFFICES ASSUME Calm', Waiting("TAKE_PICTURE")'
               PROVE  /\ m_state' = "PREVIEW_PIC_TAKING" /\ retro' /\ Unhurried' /\ ~Queued("CANCEL_PICTURE")'
                      /\ phase' = "retro" \/ (phase' = "ready" /\ Coming("READY_FOR_SNAPSHOT")')
    BY DEF TakeInv
  <2>1. Calm /\ Told /\ "TAKE_PICTURE" \in Deferred
    BY <1>11 DEF Deferred
  <2>2. CASE Waiting("TAKE_PICTURE")
    <3>1. evt \in Posted
      BY <1>14, <2>1, <2>2
    <3>2. /\ m_state = "PREVIEW_PIC_TAKING" /\ retro /\ Unhurried /\ ~Queued("CANCEL_PICTURE")
          /\ phase = "retro" \/ (phase = "ready" /\ Coming("READY_FOR_SNAPSHOT"))
      BY <1>1, <2>1, <2>2 DEF TakeInv
    <3>3. UNCHANGED <<m_state, phase, evt_queue>>
      BY <1>17, <3>1, <3>2
    <3>4. Unhurried'
      BY <1>1, <3>2, <3>3 DEF Unhurried, Coming
    <3> QED
      BY <1>1, <1>6, <1>9, <3>2, <3>3, <3>4
  <2>3. CASE evt = "TAKE_PICTURE" /\ Defers(evt)
    <3>1. m_state = "PREVIEWING" /\ retro /\ m_state' = "PREVIEW_PIC_TAKING" /\ phase' = "retro"
      BY <2>3 DEF Defers
    <3>2. ~PictureUntold
      <4>1. isCaptureRunning' /\ m_state' # m_state
        BY <3>1 DEF isCaptureRunning
      <4>2. overtaken' = (overtaken \/ /\ evt = "TAKE_PICTURE" /\ m_state' # m_state /\ isCaptureRunning'
                                       /\ phase \notin {"idle", "done"} \/ PictureUntold)
        BY <1>2 DEF HandleAPI
      <4>3. ~overtaken'
        BY DEF Calm
      <4> QED
        BY <2>3, <4>1, <4>2, <4>3
    <3>3. evt_queue' = evt_queue
      BY <1>9, <2>1, <2>3, <1>13
    <3>4. Unhurried'
      BY <1>1, <3>2, <3>3 DEF Unhurried, PictureUntold, Coming
    <3>5. ~Queued("CANCEL_PICTURE")'
      BY <1>23, <2>1, <2>3, <3>1
    <3> QED
      BY <1>1, <3>1, <3>4, <3>5
  <2> QED
    BY <1>15, <2>1, <2>2, <2>3
<1>25. FlashInv'
  <2> SUFFICES ASSUME Calm', Waiting("PREPARE_SNAPSHOT")'
               PROVE  \/ m_state' = "PREPARE_SNAPSHOT"
                      \/ /\ m_state' = "PREVIEW_PIC_TAKING" /\ retro' /\ ~Queued("CANCEL_PICTURE")'
                         /\ \/ phase' = "preparing" /\ Unhurried'
                            \/ Ahead(evt_queue', "PREP_SNAPSHOT_DONE", "SNAPSHOT_DONE")
    BY DEF FlashInv
  <2>1. Calm /\ Told /\ "PREPARE_SNAPSHOT" \in Deferred
    BY <1>11 DEF Deferred
  <2>2. CASE Waiting("PREPARE_SNAPSHOT")
    <3>1. evt \in Posted
      BY <1>14, <2>1, <2>2
    <3>2. CASE m_state = "PREPARE_SNAPSHOT"
      BY <1>5, <3>1, <3>2 DEF RowMoves, Posted
    <3>3. CASE /\ m_state = "PREVIEW_PIC_TAKING" /\ retro /\ ~Queued("CANCEL_PICTURE")
               /\ \/ phase = "preparing" /\ Unhurried
                  \/ Ahead(evt_queue, "PREP_SNAPSHOT_DONE", "SNAPSHOT_DONE")
      <4>1. UNCHANGED <<m_state, phase, evt_queue>>
        BY <1>17, <3>1, <3>3
      <4>2. Unhurried => Unhurried'
        BY <1>1, <4>1 DEF Unhurried, Coming
      <4> QED
        BY <1>1, <1>6, <1>9, <3>3, <4>1, <4>2
    <3> QED
      BY <1>1, <2>1, <2>2, <3>2, <3>3 DEF FlashInv
  <2>3. CASE evt = "PREPARE_SNAPSHOT" /\ Defers(evt)
    <3>1. CASE m_state = "PREVIEWING"
      BY <2>3, <3>1 DEF Defers
    <3>2. CASE m_state = "PREVIEW_PIC_TAKING"
      <4>1. retro /\ m_state' = m_state /\ phase' = IF phase = "ready" THEN "preparing" ELSE phase
        BY <2>3, <3>2 DEF Defers
      <4>2. Fresh
        BY <1>1, <1>6, <1>16, <2>1, <2>3, <3>2, <4>1 DEF FreshInv
      <4>3. evt_queue' = evt_queue
        BY <1>9, <1>13, <2>1, <2>3
      <4>4. Unhurried' /\ phase' = "preparing"
        BY <1>1, <4>1, <4>2, <4>3 DEF Fresh, Unhurried, Coming
      <4>5. ~Queued("CANCEL_PICTURE")'
        BY <1>23, <2>1, <2>3, <3>2
      <4> QED
        BY <1>1, <3>2, <4>1, <4>4, <4>5
    <3> QED
      BY <2>3, <3>1, <3>2 DEF Defers
  <2> QED
    BY <1>15, <2>1, <2>2, <2>3
<1>26. FreshInv'
  <2> SUFFICES ASSUME Calm', retro', m_state' = "PREVIEW_PIC_TAKING",
                      \/ fw' = "PREPARE_SNAPSHOT" /\ Queued("PREPARE_SNAPSHOT")'
                      \/ fw' = "TAKE_PICTURE" /\ Answered("TAKE_PICTURE")'
               PROVE  Fresh'
    BY DEF FreshInv
  <2>1. Calm /\ Told /\ retro /\ "PREPARE_SNAPSHOT" \in Deferred /\ "TAKE_PICTURE" \in Deferred
    BY <1>1, <1>11 DEF Deferred
  <2>2. /\ evt \in Posted
        /\ \/ fw = "PREPARE_SNAPSHOT" /\ Queued("PREPARE_SNAPSHOT")
           \/ fw = "TAKE_PICTURE" /\ Answered("TAKE_PICTURE")
    <3>1. CASE fw = "PREPARE_SNAPSHOT" /\ Queued("PREPARE_SNAPSHOT")'
      BY <1>6, <1>13, <2>1, <3>1
    <3>2. CASE fw = "TAKE_PICTURE" /\ Answered("TAKE_PICTURE")
      <4>1. ~Queued("TAKE_PICTURE")
        BY <1>1, <1>13, <2>1, <3>2 DEF Mail
      <4> QED
        BY <1>6, <1>13, <2>1, <3>2, <4>1
    <3>3. CASE fw = "TAKE_PICTURE" /\ Answered("TAKE_PICTURE")' /\ ~Answered("TAKE_PICTURE")
      <4>1. evt = "TAKE_PICTURE"
        BY <1>8, <3>3
      <4>2. m_state # "PREVIEW_PIC_TAKING"
        BY <1>1, <1>6, <2>1, <3>3, <4>1 DEF PictureInv
      <4>3. Defers(evt)
        BY <1>5, <2>1, <4>2 DEF RowMoves
      <4> QED
        BY <1>16, <3>3, <4>1, <4>3 DEF Waiting
    <3> QED
      BY <1>1, <3>1, <3>2, <3>3
  <2>3. m_state = "PREVIEW_PIC_TAKING"
    BY <1>5, <1>13, <2>1, <2>2 DEF RowMoves
  <2>4. UNCHANGED <<m_state, phase, evt_queue>>
    BY <1>17, <2>2, <2>3
  <2>5. Fresh
    BY <1>1, <2>1, <2>2, <2>3 DEF FreshInv
  <2> QED
    BY <1>1, <2>4, <2>5 DEF Fresh, Unhurried, Coming
<1>27. WaiterInv'
  <2> SUFFICES ASSUME fw # None, ~overtaken', ~Queued(fw)'
               PROVE  \/ woken' /\ Answered(fw)'
                      \/ Calm' /\ Waiting(fw)' /\ fw \in Deferred
    BY <1>1 DEF WaiterInv, Queued
  <2>1. CASE Queued(fw)
    <3>1. evt = fw /\ evt \in CallEvents
      BY <1>1, <1>6, <2>1 DEF TypeOK
    <3>2. CASE Defers(evt)
      BY <1>1, <1>11, <1>16, <3>1, <3>2
    <3>3. CASE Answered(evt)' /\ woken' = (fw # None)
      BY <1>1, <3>1, <3>3
    <3> QED
      BY <1>8, <3>1, <3>2, <3>3
  <2>2. CASE woken /\ Answered(fw)
    BY <1>1, <1>7, <1>8, <2>2
  <2>3. CASE Calm /\ Waiting(fw) /\ fw \in Deferred
    <3>1. Told /\ Calm'
      BY <1>11, <2>3 DEF Calm
    <3> QED
      BY <1>1, <1>14, <2>3, <3>1
  <2> QED
    BY <1>1, <1>11, <2>1, <2>2, <2>3 DEF WaiterInv
<1> QED
  BY <1>18, <1>19, <1>20, <1>21, <1>22, <1>24, <1>25, <1>26, <1>27 DEF IInv

-----------------------------------------------------------------------------
(* The theorems                                                            *)

\* A step that leaves everything as it is
LEMMA StutterStep == ASSUME IInv, UNCHANGED vars PROVE IInv'
<1>1. /\ UNCHANGED <<m_state, api_queue, evt_queue, results, fw, woken, notifier, channels, params, newParams>>
      /\ UNCHANGED <<needRestart, window, longshot, retro, restart, phase, overtaken, longshotUsed, dead, failures, calls>>
  BY DEF vars
<1>2. TypeOK'
  BY <1>1 DEF IInv, TypeOK
<1>3. /\ Told' = Told /\ Calm' = Calm /\ Known' = Known /\ Between' = Between /\ Untroubled' = Untroubled
      /\ \A e : Queued(e)' = Queued(e) /\ Coming(e)' = Coming(e) /\ Answered(e)' = Answered(e) /\ Waiting(e)' = Waiting(e)
      /\ \A e, ok : Given(e, ok)' = Given(e, ok)
  BY <1>1 DEF Told, Calm, Known, Coming, Queued, Answered, Given, Waiting, Between, Untroubled
<1>4. Mail'
  <2>1. /\ \A e \in Known' : Queued(e)' => fw' = e /\ PostedAfter(api_queue, e)'
        /\ \A e \in Known' : Answered(e)' => fw' = e /\ ~Queued(e)' /\ OnceFor(results, e)'
    BY <1>1, <1>3 DEF IInv, Mail
  <2>2. Queued(fw)' = Queued(fw) /\ Mail
    BY <1>1 DEF Queued, IInv
  <2> QED
    BY <1>1, <1>3, <2>1, <2>2 DEF Mail
<1>5. ChannelsInv'
  BY <1>1, <1>3 DEF IInv, ChannelsInv, StoppedIsEmpty, VideoRuns, FramesFlow, LiveIsVideo
<1>6. DaemonInv' /\ PictureInv'
  BY <1>1, <1>3 DEF IInv, DaemonInv, PictureInv
<1>7. TakeInv' /\ FlashInv' /\ FreshInv'
  BY <1>1, <1>3 DEF IInv, TakeInv, FlashInv, FreshInv, Unhurried, Fresh
<1>8. WaiterInv'
  BY <1>1, <1>3 DEF IInv, WaiterInv
<1> QED
  BY <1>2, <1>4, <1>5, <1>6, <1>7, <1>8 DEF IInv

\* In every reachable state the machine, its queues, its list of results, the
\* channels, the daemon and the waiting call agree, whatever fails and in
\* whatever order the threads run (IInv).
THEOREM Invariance == Spec => []IInv
<1>1. Init => IInv
  BY InitInvariant
<1>2. IInv /\ [Next]_vars => IInv'
  <2> SUFFICES ASSUME IInv, [Next]_vars PROVE IInv'
    OBVIOUS
  <2>1. CASE Call
    BY <2>1, CallStep
  <2>2. CASE take_picture
    BY <2>2, TakePictureStep
  <2>3. CASE waitAPIResult
    BY <2>3, WaitStep
  <2>4. CASE HandleAPI
    BY <2>4, HandleAPIStep
  <2>5. CASE HandleEvt
    BY <2>5, HandleEvtStep
  <2>6. CASE PrepareDone
    BY <2>6, PrepareDoneStep
  <2>7. CASE ReadyForSnapshot
    BY <2>7, ReadyStep
  <2>8. CASE Die
    BY <2>8, DieStep
  <2>9. CASE SnapshotsCounted
    BY <2>9, SnapshotsCountedStep
  <2>10. CASE SnapshotDone
    BY <2>10, SnapshotDoneStep
  <2>11. CASE StopCapture
    BY <2>11, StopCaptureStep
  <2>12. CASE LiveSnapshotFails
    BY <2>12, LiveFailsStep
  <2>13. CASE UNCHANGED vars
    BY <2>13, StutterStep
  <2> QED
    BY <2>1, <2>2, <2>3, <2>4, <2>5, <2>6, <2>7, <2>8, <2>9, <2>10, <2>11, <2>12, <2>13 DEF Next
<1> QED
  BY <1>1, <1>2, PTL DEF Spec

\* Every variable keeps its type; at most MaxFailures operations fail.
THEOREM TypeCorrect == Spec => []TypeOK
<1>1. IInv => TypeOK
  BY DEF IInv
<1> QED
  BY <1>1, Invariance, PTL

\* A stopped machine holds no preview and no video channel, and a machine that
\* records a video has it running, whatever failed before: the tables of all
\* eight states, with every outcome of every operation of a channel.
THEOREM AlwaysChannelsFollowState == Spec => []ChannelsFollowState
<1>1. IInv => ChannelsFollowState
  BY DEF IInv, ChannelsInv, StoppedIsEmpty, VideoRuns, Empty, ChannelsFollowState
<1> QED
  BY <1>1, Invariance, PTL

\* When nothing failed, a machine that says PREVIEWING has a running preview,
\* or set_parameters is between its stop and its restart.
THEOREM AlwaysPreviewIsRunning == Spec => []PreviewIsRunning
<1>1. IInv => PreviewIsRunning
  BY DEF IInv, ChannelsInv, FramesFlow, Untroubled, Up, PreviewUp, Between, PreviewIsRunning
<1> QED
  BY <1>1, Invariance, PTL

\* No wake-up is lost: a call that waits has its event in the queue, its answer
\* in the list with the signal to come, or an answer that the daemon, or the
\* handling of its death, still owes.
THEOREM AlwaysWaiterIsOwed == Spec => []WaiterIsOwed
<1>1. IInv => WaiterIsOwed
  <2> SUFFICES ASSUME IInv, fw # None, ~overtaken
               PROVE  \/ fw \in Range(api_queue)
                      \/ woken /\ \E i \in DOMAIN results : results[i].request_api = fw
                      \/ DaemonOwes(fw)
    BY DEF WaiterIsOwed
  <2>1. CASE Queued(fw)
    BY <2>1 DEF Queued
  <2>2. CASE woken /\ Answered(fw)
    <3>1. PICK x : Result(fw, x) \in Range(results)
      BY <2>2 DEF Answered, Given
    <3>2. PICK i \in DOMAIN results : results[i] = Result(fw, x)
      BY <3>1 DEF Range
    <3>3. results[i].request_api = fw
      BY <3>2, ResultFacts
    <3> QED
      BY <2>2, <3>3
  <2>3. CASE Calm /\ Waiting(fw) /\ fw \in Deferred
    <3>1. ~dead \/ "DAEMON_DIED" \in Range(evt_queue)
      BY <2>3 DEF Calm, Told
    <3>2. CASE fw = "PREPARE_SNAPSHOT"
      <4>1. m_state = "PREPARE_SNAPSHOT" \/ (m_state = "PREVIEW_PIC_TAKING" /\ retro)
        BY <2>3, <3>2 DEF IInv, FlashInv
      <4> QED
        BY <3>1, <3>2, <4>1 DEF DaemonOwes
    <3>3. CASE fw = "TAKE_PICTURE"
      <4>1. m_state = "PREVIEW_PIC_TAKING" /\ retro
        BY <2>3, <3>3 DEF IInv, TakeInv
      <4> QED
        BY <3>1, <3>3, <4>1 DEF DaemonOwes
    <3> QED
      BY <2>3, <3>2, <3>3 DEF Deferred
  <2> QED
    BY <2>1, <2>2, <2>3 DEF IInv, WaiterInv
<1> QED
  BY <1>1, Invariance, PTL
=============================================================================
