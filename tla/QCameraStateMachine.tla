------------------------- MODULE QCameraStateMachine -------------------------
(***************************************************************************)
(* The state machine of the first camera HAL                               *)
(* (camera/QCamera2/HAL/QCameraStateMachine.cpp) with the calls of         *)
(* QCamera2HWI.cpp that feed it.  A call of the framework puts an event in *)
(* the API queue and sleeps until a result for that event is in the list   *)
(* of results; other threads of the HAL put events in the API queue and do *)
(* not wait, or put them in the event queue.  One thread takes events from *)
(* the queues, the API queue first, and handles them in the current state: *)
(* it prepares, starts and stops the channels of the camera and answers.   *)
(* Two answers are put off until an event of the camera daemon arrives.    *)
(*                                                                         *)
(* Modelled is one camera without a muxer (no related sensors), whose      *)
(* framework makes one call at a time, in any order.  Events that a state  *)
(* only passes on to a helper (callbacks, message types, focus, faces,     *)
(* dump, reading parameters) are one event, PLAIN.                         *)
(***************************************************************************)
EXTENDS Integers, Sequences, SequencesExt

CONSTANTS
  None,         \* no call, no event
  MaxFailures,  \* bound: operations of the camera that fail before the daemon
                \* dies, and its death
  MaxCalls      \* bound: calls of the framework

States == {"PREVIEW_STOPPED", "PREVIEW_READY", "PREVIEWING", "PREPARE_SNAPSHOT", "PIC_TAKING",
           "RECORDING", "VIDEO_PIC_TAKING", "PREVIEW_PIC_TAKING"}
SetEvents  == {"SET_PARAMS", "SET_PARAMS_STOP", "SET_PARAMS_COMMIT", "SET_PARAMS_RESTART"}
PlayEvents == {"START_PREVIEW", "START_NODISPLAY_PREVIEW"}
RecordEvents  == {"PRE_START_RECORDING", "START_RECORDING", "STOP_RECORDING"}
PictureEvents == {"PREPARE_SNAPSHOT", "PRE_TAKE_PICTURE", "TAKE_PICTURE"}
\* LONGSHOT_ON and LONGSHOT_OFF are SEND_COMMAND with that command
CommandEvents == {"LONGSHOT_ON", "LONGSHOT_OFF"}
CallEvents == SetEvents \cup PlayEvents \cup RecordEvents \cup PictureEvents \cup CommandEvents \cup
              {"SET_PREVIEW_WINDOW", "STOP_PREVIEW", "CANCEL_PICTURE", "RELEASE", "PLAIN"}
APIEvents == CallEvents \cup {"STOP_CAPTURE_CHANNEL"}
Events == {"PREP_SNAPSHOT_DONE", "READY_FOR_SNAPSHOT", "DAEMON_DIED", "SNAPSHOT_DONE"}
Phases == {"idle", "taken", "retro", "captured", "live", "ready", "preparing", "prepared", "done"}

ASSUME ConstantsAssumption == MaxFailures \in Nat /\ MaxCalls \in Nat /\ None \notin CallEvents

VARIABLES
  m_state,      \* the state of the machine
  api_queue,    \* events from the API and from threads that do not wait
  evt_queue,    \* events of the daemon and of the notifier
  results,      \* m_apiResultList: [request_api, status]
  fw,           \* the event the framework's call waits for, or None
  woken,        \* m_cond was signalled since it last looked at the results
  notifier,     \* the callback notifier: "idle", "counted" (it has all the
                \* snapshots) or "waiting" (for the answer to SNAPSHOT_DONE)
  channels,     \* m_channels: "none", "ready" or "running"
  params,       \* the parameters in use: [zsl, hint]
  newParams,    \* the parameters to be in use after the next commit
  needRestart,  \* m_bNeedRestart
  window,       \* is there a preview window?
  longshot,     \* mLongshotEnabled
  retro,        \* mIs retro picture: the picture takes frames from the past
  restart,      \* persist.camera.feature.restart
  phase,        \* how far the capture of the current picture is
  overtaken,    \* history: a picture was taken while an earlier one was under
                \* way or the notifier had still to tell that it is done
  longshotUsed, \* history: the framework has sent a command for longshots
  dead,         \* the camera daemon died
  failures,     \* operations that failed while it lived
  calls         \* calls the framework has made

settings == <<newParams, needRestart, window, longshot>>
vars == <<m_state, api_queue, evt_queue, results, fw, woken, notifier, channels, params, newParams,
          needRestart, window, longshot, retro, restart, phase, overtaken, longshotUsed, dead,
          failures, calls>>

-----------------------------------------------------------------------------
(* Operations of QCamera2HardwareInterface on the channels c under the     *)
(* parameters p: the set of their outcomes [ok, ch].                       *)

Outcome(ok, c) == [ok |-> ok, ch |-> c, possible |-> TRUE]

\* An operation on the channel kind fails when the channel is not there, and
\* otherwise fails or leaves the channels d
OnChannel(kind, c, d) ==
  IF c[kind] = "none" THEN {[ok |-> FALSE, ch |-> c, possible |-> FALSE]}
  ELSE {Outcome(FALSE, c), Outcome(TRUE, d)}

UsesZSL(p) == p.zsl /\ ~p.hint

unpreparePreview(c) == [c EXCEPT !.zsl = "none", !.preview = "none", !.video = "none"]

stopPreview(c) == unpreparePreview(c)

preparePreview(c, p) ==
  IF UsesZSL(p)
  THEN {Outcome(TRUE, [c EXCEPT !.zsl = "ready"]), Outcome(FALSE, [c EXCEPT !.zsl = "none"])}
  ELSE {Outcome(TRUE, [c EXCEPT !.preview = "ready", !.video = IF p.hint THEN "ready" ELSE @]),
        Outcome(FALSE, [c EXCEPT !.preview = "none", !.video = IF p.hint THEN "none" ELSE @])}

startPreview(c, p) ==
  LET kind == IF UsesZSL(p) THEN "zsl" ELSE "preview"
  IN  OnChannel(kind, c, [c EXCEPT ![kind] = "running"])

\* prepare and start; a start that fails leaves the channels prepared, or not
PrepareAndStart(c, p, undo) ==
  UNION { IF o.ok
          THEN { IF ~s.ok /\ undo THEN [s EXCEPT !.ch = unpreparePreview(@)] ELSE s :
                   s \in startPreview(o.ch, p) }
          ELSE {o} : o \in preparePreview(c, p) }

\* Preparing for a video ends a longshot
endLongshot == longshot' = (longshot /\ ~params.hint)

\* startRecording and stopRecording, as far as the video channel goes
startRecording(c) == OnChannel("video", c, [c EXCEPT !.video = "running"])

stopRecording(c) == [c EXCEPT !.video = IF @ = "running" THEN "ready" ELSE @]

\* takePicture: on the running ZSL channel, or on a capture channel of its own
\* that some of the errors leave behind
takeZSLPicture(c) == OnChannel("zsl", c, c)

takeCapturePicture(c) ==
  {Outcome(TRUE, [c EXCEPT !.capture = "running"])} \cup
  { Outcome(FALSE, [c EXCEPT !.capture = x]) : x \in {"none", "ready", "running"} }

takePicture(c, p) == IF p.zsl THEN takeZSLPicture(c) ELSE takeCapturePicture(stopPreview(c))

longShot(c, p) == OnChannel(IF p.zsl THEN "zsl" ELSE "capture", c, c)

\* The mode decides which channel is meant, whichever the picture was taken on
cancelPicture(c, p) == IF p.zsl THEN c ELSE [c EXCEPT !.capture = "none"]

stopCaptureChannel(c, destroy) ==
  {Outcome(FALSE, c), Outcome(TRUE, [c EXCEPT !.capture = IF destroy \/ @ = "none" THEN "none" ELSE "ready"])}

-----------------------------------------------------------------------------
(* Results                                                                 *)

PictureUntold == notifier # "idle" \/ "SNAPSHOT_DONE" \in Range(evt_queue)

isCaptureRunning == m_state \in {"PIC_TAKING", "VIDEO_PIC_TAKING", "PREVIEW_PIC_TAKING"}

Result(evt, ok) == [request_api |-> evt, status |-> ok]

\* Nobody waits for a result of STOP_CAPTURE_CHANNEL: its result, which the
\* list keeps for ever, is left out
signalAPIResult(evt, ok) ==
  /\ results' = IF evt = "STOP_CAPTURE_CHANNEL" THEN results ELSE Append(results, Result(evt, ok))
  /\ woken' = (fw # None)

\* An operation came out as o; all of them fail when the daemon is dead.  Those
\* that could have succeeded count.
Came(o) ==
  /\ dead => ~o.ok
  /\ failures' = IF o.ok \/ dead \/ ~o.possible THEN failures ELSE failures + 1
  /\ failures' <= MaxFailures

Quiet == UNCHANGED <<channels, failures, phase>>

\* Answered at once, with no change of state
Refuse(evt) ==
  signalAPIResult(evt, FALSE) /\ Quiet /\ UNCHANGED <<m_state, params, settings>>

Accept(evt) ==
  signalAPIResult(evt, TRUE) /\ Quiet /\ UNCHANGED <<m_state, params, settings>>

\* The outcome o of an operation is answered and the machine goes to state s
Reply(evt, o, s) ==
  /\ Came(o)
  /\ channels' = o.ch
  /\ m_state' = s
  /\ signalAPIResult(evt, o.ok)

\* The same when there is nothing that can fail
Done(evt, c, s) ==
  /\ channels' = c
  /\ m_state' = s
  /\ signalAPIResult(evt, TRUE)
  /\ UNCHANGED failures

-----------------------------------------------------------------------------
(* Parameters: what every state does with them, or nearly every state.     *)

\* The mode of ZSL and the recording hint wait for the commit; a new mode
\* needs a restart of the preview, and so do many other parameters
updateParameters(ok) ==
  /\ newParams' \in (IF ok THEN [zsl : BOOLEAN, hint : BOOLEAN] ELSE {newParams})
  /\ needRestart' \in BOOLEAN
  /\ newParams'.zsl # newParams.zsl \/ newParams'.hint # params.hint => needRestart'

SetParams ==
  \E ok \in BOOLEAN :
    /\ updateParameters(ok)
    /\ signalAPIResult("SET_PARAMS", ok)
    /\ Quiet /\ UNCHANGED <<m_state, params, window, longshot>>

\* While a video is recorded parameters that need a restart are refused
SetParamsRecording ==
  \E ok \in BOOLEAN :
    /\ \E n \in BOOLEAN :
         /\ newParams' \in (IF ok THEN [zsl : BOOLEAN, hint : BOOLEAN] ELSE {newParams})
         /\ newParams'.zsl # newParams.zsl \/ newParams'.hint # params.hint => n
         /\ needRestart' = FALSE
         /\ signalAPIResult("SET_PARAMS", ok /\ ~n)
    /\ Quiet /\ UNCHANGED <<m_state, params, window, longshot>>

commitParameterChanges ==
  \E ok \in BOOLEAN :
    /\ Reply("SET_PARAMS_COMMIT", Outcome(ok, channels), m_state)
    /\ params' = IF ok THEN newParams ELSE params
    /\ UNCHANGED <<settings, phase>>

StopForParams(c) ==
  /\ Done("SET_PARAMS_STOP", c, m_state)
  /\ UNCHANGED <<params, settings, phase>>

\* The restart came out as o and leaves the machine in state s
RestartForParams(o, s) ==
  /\ Reply("SET_PARAMS_RESTART", o, s)
  /\ needRestart' = FALSE
  /\ endLongshot
  /\ UNCHANGED <<params, newParams, window>>

-----------------------------------------------------------------------------
(* Events that end a capture or a state alike wherever they are handled.   *)

\* The picture is cancelled and the machine goes to state s
CancelPicture(evt, s) ==
  /\ Done(evt, cancelPicture(channels, params), s)
  /\ phase' = "idle"
  /\ UNCHANGED <<params, settings>>

\* The thread of the live snapshot is joined and another one undoes its work
CancelLive(evt, c, s) ==
  /\ Done(evt, c, s)
  /\ phase' = "idle"
  /\ UNCHANGED <<params, settings>>

\* LONGSHOT_ON is refused while a picture is taken
LongshotOn ==
  /\ longshot' = TRUE
  /\ UNCHANGED <<params, newParams, needRestart, window, phase>>

\* LONGSHOT_OFF cancels the pictures being taken, and sends SNAPSHOT_DONE
\* (see HandleAPI)
LongshotOff(s) ==
  LET cancels == longshot /\ isCaptureRunning
  IN  /\ Done("LONGSHOT_OFF", IF cancels THEN cancelPicture(channels, params) ELSE channels, s)
      /\ longshot' = FALSE
      /\ phase' = IF cancels THEN "idle" ELSE phase
      /\ UNCHANGED <<params, newParams, needRestart, window>>

\* Events of the event queue
Ignore == UNCHANGED <<m_state, channels, results, woken, phase>>

\* The calls whose answers wait for the daemon are answered, waiting or not,
\* and with NO_ERROR
DaemonDied_prepare ==
  /\ results' = Append(results, Result("PREPARE_SNAPSHOT", TRUE))
  /\ woken' = (fw # None)
  /\ UNCHANGED <<m_state, channels, phase>>

DaemonDied ==
  /\ results' = results \o <<Result("PREPARE_SNAPSHOT", TRUE), Result("TAKE_PICTURE", TRUE)>>
  /\ woken' = (fw # None)
  /\ UNCHANGED <<m_state, channels, phase>>

-----------------------------------------------------------------------------
(* PREVIEW_STOPPED                                                         *)

StoppedSetWindow ==
  /\ window' \in BOOLEAN
  /\ Done("SET_PREVIEW_WINDOW", channels, m_state)
  /\ UNCHANGED <<params, newParams, needRestart, longshot, phase>>

\* Without a window the preview is prepared only
StoppedStartPreview(evt) ==
  /\ \/ /\ evt = "START_PREVIEW" /\ ~window
        /\ \E o \in preparePreview(channels, params) :
             Reply(evt, o, IF o.ok THEN "PREVIEW_READY" ELSE m_state)
     \/ /\ evt = "START_NODISPLAY_PREVIEW" \/ window
        /\ \E o \in PrepareAndStart(channels, params, TRUE) :
             Reply(evt, o, IF o.ok THEN "PREVIEWING" ELSE m_state)
  /\ endLongshot
  /\ UNCHANGED <<params, newParams, needRestart, window, phase>>

StoppedRestart ==
  /\ Done("SET_PARAMS_RESTART", channels, m_state)
  /\ needRestart' = FALSE
  /\ UNCHANGED <<params, newParams, window, longshot, phase>>

\* release() stops and deletes every channel
Release ==
  /\ Done("RELEASE", [k \in DOMAIN channels |-> "none"], m_state)
  /\ UNCHANGED <<params, settings, phase>>

procEvtPreviewStoppedState(evt) ==
  \/ evt = "SET_PREVIEW_WINDOW" /\ StoppedSetWindow
  \/ evt = "SET_PARAMS" /\ SetParams
  \/ evt = "SET_PARAMS_STOP" /\ StopForParams(channels)
  \/ evt = "SET_PARAMS_COMMIT" /\ commitParameterChanges
  \/ evt = "SET_PARAMS_RESTART" /\ StoppedRestart
  \/ evt \in PlayEvents /\ StoppedStartPreview(evt)
  \/ evt = "RELEASE" /\ Release
  \/ evt \in RecordEvents \cup PictureEvents /\ Refuse(evt)
  \/ evt \in {"STOP_PREVIEW", "CANCEL_PICTURE", "PLAIN"} /\ Accept(evt)
  \/ evt = "LONGSHOT_ON" /\ Done(evt, channels, m_state) /\ LongshotOn
  \/ evt = "LONGSHOT_OFF" /\ LongshotOff(m_state)

-----------------------------------------------------------------------------
(* PREVIEW_READY                                                           *)

\* The preview starts, or what was prepared goes; the answer of the two
\* events that start it is NO_ERROR either way
ReadyStart(evt) ==
  \E o \in startPreview(channels, params) :
    /\ Came(o)
    /\ channels' = IF o.ok THEN o.ch ELSE unpreparePreview(o.ch)
    /\ m_state' = IF o.ok THEN "PREVIEWING" ELSE "PREVIEW_STOPPED"
    /\ signalAPIResult(evt, o.ok \/ evt \in PlayEvents)
    /\ UNCHANGED <<params, newParams, needRestart, longshot, phase>>

ReadySetWindow ==
  \/ window' = TRUE /\ ReadyStart("SET_PREVIEW_WINDOW")
  \/ /\ window' = FALSE
     /\ Done("SET_PREVIEW_WINDOW", channels, m_state)
     /\ UNCHANGED <<params, newParams, needRestart, longshot, phase>>

ReadyStartPreview(evt) ==
  \/ evt = "START_PREVIEW" /\ ~window /\ Accept(evt)
  \/ (evt = "START_NODISPLAY_PREVIEW" \/ window) /\ ReadyStart(evt) /\ UNCHANGED window

ReadyRestart ==
  \E o \in preparePreview(channels, params) :
    /\ RestartForParams(o, IF o.ok THEN m_state ELSE "PREVIEW_STOPPED")
    /\ UNCHANGED phase

ReadyStop ==
  /\ Done("STOP_PREVIEW", unpreparePreview(channels), "PREVIEW_STOPPED")
  /\ UNCHANGED <<params, settings, phase>>

procEvtPreviewReadyState(evt) ==
  \/ evt = "SET_PREVIEW_WINDOW" /\ ReadySetWindow
  \/ evt = "SET_PARAMS" /\ SetParams
  \/ evt = "SET_PARAMS_STOP" /\ StopForParams(unpreparePreview(channels))
  \/ evt = "SET_PARAMS_COMMIT" /\ commitParameterChanges
  \/ evt = "SET_PARAMS_RESTART" /\ ReadyRestart
  \/ evt \in PlayEvents /\ ReadyStartPreview(evt)
  \/ evt = "PLAIN" /\ Accept(evt)
  \/ evt = "STOP_PREVIEW" /\ ReadyStop
  \/ evt \in RecordEvents \cup PictureEvents \cup {"CANCEL_PICTURE", "RELEASE"} /\ Refuse(evt)
  \/ evt = "LONGSHOT_ON" /\ Done(evt, channels, m_state) /\ LongshotOn
  \/ evt = "LONGSHOT_OFF" /\ LongshotOff(m_state)

-----------------------------------------------------------------------------
(* PREVIEWING                                                              *)

PreviewingRestart_ready ==
  \E o \in preparePreview(channels, params) :
    /\ RestartForParams(o, IF o.ok THEN m_state ELSE "PREVIEW_STOPPED")
    /\ UNCHANGED phase

PreviewingRestart ==
  \E o \in PrepareAndStart(channels, params, TRUE) :
    /\ RestartForParams(o, IF o.ok THEN m_state ELSE "PREVIEW_STOPPED")
    /\ UNCHANGED phase

PreviewingStop ==
  /\ Done("STOP_PREVIEW", stopPreview(channels), "PREVIEW_STOPPED")
  /\ UNCHANGED <<params, settings, phase>>

\* preStartRecording: the hint is set and the preview restarted with a video
\* channel; nothing is undone when that fails
preStartRecording ==
  /\ IF params.hint
     THEN Done("PRE_START_RECORDING", channels, m_state) /\ UNCHANGED <<params, newParams, longshot>>
     ELSE LET p == [newParams EXCEPT !.hint = TRUE]
          IN  /\ \E o \in PrepareAndStart(stopPreview(channels), p, FALSE) :
                   Reply("PRE_START_RECORDING", o, m_state)
              /\ params' = p /\ newParams' = p
              /\ longshot' = FALSE
  /\ UNCHANGED <<needRestart, window>>

PreviewingStartRecording ==
  \E o \in startRecording(channels) :
    /\ Reply("START_RECORDING", o, IF o.ok THEN "RECORDING" ELSE m_state)
    /\ UNCHANGED <<params, settings, phase>>

\* The answer waits for PREP_SNAPSHOT_DONE, unless the call fails
PreviewingPrepareSnapshot ==
  /\ \/ /\ Came(Outcome(TRUE, channels))
        /\ m_state' = "PREPARE_SNAPSHOT"
        /\ UNCHANGED <<channels, results, woken>>
     \/ Reply("PREPARE_SNAPSHOT", Outcome(FALSE, channels), m_state)
  /\ UNCHANGED <<params, settings, phase>>

\* preTakePicture: out of the mode for recording
preTakePicture ==
  /\ IF params.hint
     THEN LET p == [newParams EXCEPT !.hint = FALSE]
          IN  /\ \E o \in PrepareAndStart(stopPreview(channels), p, TRUE) :
                   Reply("PRE_TAKE_PICTURE", o, m_state)
              /\ params' = p /\ newParams' = p
     ELSE Done("PRE_TAKE_PICTURE", channels, m_state) /\ UNCHANGED <<params, newParams>>
  /\ UNCHANGED <<needRestart, window, longshot, phase>>

\* A picture on top of the preview.  The answer of one with frames from the
\* past waits for READY_FOR_SNAPSHOT.
TakePictureOnPreview(o) ==
  /\ Came(o)
  /\ channels' = o.ch
  /\ m_state' = IF o.ok THEN "PREVIEW_PIC_TAKING" ELSE "PREVIEWING"
  /\ IF o.ok /\ retro THEN UNCHANGED <<results, woken>> ELSE signalAPIResult("TAKE_PICTURE", o.ok)
  /\ phase' = IF ~o.ok THEN phase ELSE IF retro THEN "retro" ELSE "taken"

\* A picture in place of the preview, which comes back if the picture fails.
\* Only the ZSL channel tells that the frames from the past are delivered.
TakePictureAlone(o, again) ==
  /\ Came(o)
  /\ m_state' = IF o.ok THEN "PIC_TAKING" ELSE IF again.ok THEN "PREVIEWING" ELSE "PREVIEW_STOPPED"
  /\ channels' = IF o.ok THEN o.ch ELSE again.ch
  /\ signalAPIResult("TAKE_PICTURE", o.ok)
  /\ phase' = IF o.ok THEN "taken" ELSE phase

\* The hint is off here: PRE_TAKE_PICTURE comes before and nothing between
PreviewingTakePicture ==
  /\ \E o \in takePicture(channels, params) :
       IF params.zsl \/ longshot
       THEN TakePictureOnPreview(o)
       ELSE \E again \in PrepareAndStart(stopPreview(o.ch), params, TRUE) :
              (dead => ~again.ok) /\ TakePictureAlone(o, again)
  /\ UNCHANGED <<params, settings>>

\* More buffers may be needed: then the preview starts anew, and if it does
\* not the machine stays in PREVIEWING
PreviewingLongshotOn ==
  /\ \/ \E o \in PrepareAndStart(stopPreview(channels), params, TRUE) :
          Reply("LONGSHOT_ON", o, m_state)
     \/ Done("LONGSHOT_ON", channels, m_state)
  /\ LongshotOn

procEvtPreviewingState(evt) ==
  \/ evt = "SET_PARAMS" /\ SetParams
  \/ evt = "SET_PARAMS_STOP" /\ StopForParams(stopPreview(channels))
  \/ evt = "SET_PARAMS_COMMIT" /\ commitParameterChanges
  \/ evt = "SET_PARAMS_RESTART" /\ PreviewingRestart
  \/ evt \in PlayEvents \cup {"PLAIN"} /\ Accept(evt)
  \/ evt = "STOP_PREVIEW" /\ PreviewingStop
  \/ evt = "PRE_START_RECORDING" /\ preStartRecording /\ UNCHANGED phase
  \/ evt = "START_RECORDING" /\ PreviewingStartRecording
  \/ evt = "PREPARE_SNAPSHOT" /\ PreviewingPrepareSnapshot
  \/ evt = "PRE_TAKE_PICTURE" /\ preTakePicture
  \/ evt = "TAKE_PICTURE" /\ PreviewingTakePicture
  \/ evt \in {"SET_PREVIEW_WINDOW", "CANCEL_PICTURE", "STOP_RECORDING", "RELEASE"} /\ Refuse(evt)
  \/ evt = "LONGSHOT_ON" /\ PreviewingLongshotOn
  \/ evt = "LONGSHOT_OFF" /\ LongshotOff(m_state)

-----------------------------------------------------------------------------
(* PREPARE_SNAPSHOT: every call is refused until the daemon is done.       *)

procEvtPrepareSnapshotState(evt) == evt \in CallEvents /\ Refuse(evt)

PrepareSnapshotEvent_silent(evt) ==
  \/ /\ evt = "PREP_SNAPSHOT_DONE"
     /\ m_state' = "PREVIEWING"
     /\ UNCHANGED <<results, woken, channels, phase>>
  \/ evt = "DAEMON_DIED" /\ DaemonDied
  \/ evt \in {"READY_FOR_SNAPSHOT", "SNAPSHOT_DONE"} /\ Ignore

PrepareSnapshotEvent(evt) ==
  \/ /\ evt = "PREP_SNAPSHOT_DONE"
     /\ m_state' = "PREVIEWING"
     /\ signalAPIResult("PREPARE_SNAPSHOT", TRUE)
     /\ UNCHANGED <<channels, phase>>
  \/ evt = "DAEMON_DIED" /\ DaemonDied
  \/ evt \in {"READY_FOR_SNAPSHOT", "SNAPSHOT_DONE"} /\ Ignore

-----------------------------------------------------------------------------
(* PIC_TAKING: the preview is stopped while the picture is taken.          *)

PicTakingLongShot ==
  \/ /\ longshot
     /\ \E o \in longShot(channels, params) : Reply("TAKE_PICTURE", o, m_state)
     /\ UNCHANGED <<params, settings, phase>>
  \/ ~longshot /\ Refuse("TAKE_PICTURE")

\* Sent by the post-processor, which does not wait: early restart of preview
PicTakingStopCapture ==
  \E o \in stopCaptureChannel(channels, restart) :
    /\ IF restart /\ o.ok
       THEN \E again \in PrepareAndStart(o.ch, params, FALSE) :
              /\ Reply("STOP_CAPTURE_CHANNEL", again, m_state)
              /\ endLongshot
       ELSE Reply("STOP_CAPTURE_CHANNEL", o, m_state) /\ UNCHANGED longshot
    /\ UNCHANGED <<params, newParams, needRestart, window, phase>>

procEvtPicTakingState(evt) ==
  \/ evt = "SET_PARAMS" /\ SetParams
  \/ evt = "SET_PARAMS_STOP" /\ StopForParams(channels)
  \/ evt = "SET_PARAMS_COMMIT" /\ commitParameterChanges
  \/ evt = "SET_PARAMS_RESTART" /\ StoppedRestart
  \/ evt \in {"STOP_PREVIEW", "CANCEL_PICTURE"} /\ CancelPicture(evt, "PREVIEW_STOPPED")
  \/ evt = "PRE_TAKE_PICTURE" /\ IF longshot THEN Accept(evt) ELSE Refuse(evt)
  \/ evt = "TAKE_PICTURE" /\ PicTakingLongShot
  \/ evt \in RecordEvents \cup PlayEvents \cup {"PREPARE_SNAPSHOT", "SET_PREVIEW_WINDOW", "RELEASE", "LONGSHOT_ON"}
     /\ Refuse(evt)
  \/ evt = "LONGSHOT_OFF" /\ LongshotOff("PREVIEWING")
  \/ evt = "STOP_CAPTURE_CHANNEL" /\ PicTakingStopCapture
  \/ evt = "PLAIN" /\ Accept(evt)

PicTakingEvent(evt) ==
  \/ /\ evt = "SNAPSHOT_DONE"
     /\ channels' = cancelPicture(channels, params)
     /\ m_state' = IF restart THEN "PREVIEWING" ELSE "PREVIEW_STOPPED"
     /\ phase' = "idle"
     /\ UNCHANGED <<results, woken>>
  \/ evt = "DAEMON_DIED" /\ DaemonDied
  \/ evt \in {"PREP_SNAPSHOT_DONE", "READY_FOR_SNAPSHOT"} /\ Ignore

-----------------------------------------------------------------------------
(* RECORDING and VIDEO_PIC_TAKING                                          *)

TakeLiveSnapshot ==
  \E ok \in BOOLEAN :
    /\ Reply("TAKE_PICTURE", Outcome(ok, channels), IF ok THEN "VIDEO_PIC_TAKING" ELSE m_state)
    /\ phase' = IF ok THEN "live" ELSE phase
    /\ UNCHANGED <<params, settings>>

RecordingStop(evt, c, s) ==
  /\ Done(evt, c, s)
  /\ UNCHANGED <<params, settings, phase>>

procEvtRecordingState(evt) ==
  \/ evt = "SET_PARAMS" /\ SetParamsRecording
  \/ evt = "SET_PARAMS_COMMIT" /\ commitParameterChanges
  \/ evt = "TAKE_PICTURE" /\ TakeLiveSnapshot
  \/ evt = "STOP_RECORDING" /\ RecordingStop(evt, stopRecording(channels), "PREVIEWING")
  \/ evt = "STOP_PREVIEW" /\ RecordingStop(evt, stopPreview(stopRecording(channels)), "PREVIEW_STOPPED")
  \/ evt \in {"START_PREVIEW", "SET_PREVIEW_WINDOW", "PRE_TAKE_PICTURE", "PRE_START_RECORDING",
              "START_RECORDING", "PREPARE_SNAPSHOT", "PLAIN"} /\ Accept(evt)
  \/ evt \in {"SET_PARAMS_STOP", "SET_PARAMS_RESTART", "CANCEL_PICTURE", "START_NODISPLAY_PREVIEW",
              "RELEASE"} /\ Refuse(evt)
  \/ evt = "LONGSHOT_ON" /\ Done(evt, channels, m_state) /\ LongshotOn
  \/ evt = "LONGSHOT_OFF" /\ LongshotOff(m_state)

procEvtVideoPicTakingState(evt) ==
  \/ evt = "SET_PARAMS" /\ SetParamsRecording
  \/ evt = "SET_PARAMS_COMMIT" /\ commitParameterChanges
  \/ evt = "STOP_RECORDING" /\ CancelLive(evt, stopRecording(channels), "PREVIEWING")
  \/ evt = "CANCEL_PICTURE" /\ CancelLive(evt, channels, "RECORDING")
  \/ evt = "STOP_PREVIEW" /\ CancelLive(evt, stopPreview(stopRecording(channels)), "PREVIEW_STOPPED")
  \/ evt = "PLAIN" /\ Accept(evt)
  \/ evt \in PlayEvents \cup PictureEvents \cup
             {"PRE_START_RECORDING", "START_RECORDING", "SET_PARAMS_STOP", "SET_PARAMS_RESTART",
              "SET_PREVIEW_WINDOW", "RELEASE", "LONGSHOT_ON"} /\ Refuse(evt)
  \/ evt = "LONGSHOT_OFF" /\ LongshotOff(m_state)

VideoPicTakingEvent(evt) ==
  \/ /\ evt = "SNAPSHOT_DONE"
     /\ m_state' = "RECORDING"
     /\ phase' = "idle"
     /\ UNCHANGED <<channels, results, woken>>
  \/ evt # "SNAPSHOT_DONE" /\ Ignore

-----------------------------------------------------------------------------
(* PREVIEW_PIC_TAKING: the preview goes on while the picture is taken.     *)

\* A restart that fails makes the machine forget the preview.  One for a
\* video ends a longshot, and with it the picture.
PreviewPicTakingRestart ==
  LET ends == longshot /\ params.hint
      c    == IF ends THEN cancelPicture(channels, params) ELSE channels
  IN  \E o \in PrepareAndStart(c, params, TRUE) :
        /\ RestartForParams(o, IF o.ok THEN m_state ELSE "PIC_TAKING")
        /\ phase' = IF ends THEN "idle" ELSE phase

PreviewPicTakingCancel ==
  CancelPicture("CANCEL_PICTURE", "PREVIEWING")

PreviewPicTakingStop_picture ==
  /\ LET c == IF params.zsl \/ longshot THEN cancelPicture(channels, params) ELSE channels
     IN  Done("STOP_PREVIEW", c, "PREVIEW_STOPPED")
  /\ phase' = "idle"
  /\ UNCHANGED <<params, settings>>

PreviewPicTakingStop ==
  /\ LET c == IF params.zsl \/ longshot THEN cancelPicture(channels, params) ELSE channels
     IN  Done("STOP_PREVIEW", unpreparePreview(c), "PREVIEW_STOPPED")
  /\ phase' = "idle"
  /\ UNCHANGED <<params, settings>>

PreviewPicTakingStartRecording ==
  \E o \in startRecording(channels) :
    /\ Reply("START_RECORDING", o, IF o.ok THEN "VIDEO_PIC_TAKING" ELSE m_state)
    /\ UNCHANGED <<params, settings, phase>>

\* Of a picture with frames from the past: the answer waits for
\* PREP_SNAPSHOT_DONE, unless the call fails
PreviewPicTakingPrepare ==
  \/ ~retro /\ Refuse("PREPARE_SNAPSHOT")
  \/ /\ retro
     /\ \/ /\ Came(Outcome(TRUE, channels))
           /\ phase' = IF phase = "ready" THEN "preparing" ELSE phase
           /\ UNCHANGED <<channels, results, woken>>
        \/ /\ Reply("PREPARE_SNAPSHOT", Outcome(FALSE, channels), m_state)
           /\ phase' = IF phase = "ready" THEN "prepared" ELSE phase
     /\ UNCHANGED <<m_state, params, settings>>

procEvtPreviewPicTakingState(evt) ==
  \/ evt = "SET_PARAMS" /\ SetParams
  \/ evt = "SET_PARAMS_STOP" /\ StopForParams(stopPreview(channels))
  \/ evt = "SET_PARAMS_COMMIT" /\ commitParameterChanges
  \/ evt = "SET_PARAMS_RESTART" /\ PreviewPicTakingRestart
  \/ evt = "CANCEL_PICTURE" /\ PreviewPicTakingCancel
  \/ evt = "STOP_PREVIEW" /\ PreviewPicTakingStop
  \/ evt = "PLAIN" /\ Accept(evt)
  \/ evt = "PRE_START_RECORDING" /\ IF params.zsl \/ longshot THEN Refuse(evt) ELSE preStartRecording /\ UNCHANGED phase
  \/ evt = "START_RECORDING" /\ IF params.zsl \/ longshot THEN Refuse(evt) ELSE PreviewPicTakingStartRecording
  \/ evt = "PRE_TAKE_PICTURE" /\ IF longshot THEN Accept(evt) ELSE Refuse(evt)
  \/ evt = "TAKE_PICTURE" /\ PicTakingLongShot
  \/ evt = "PREPARE_SNAPSHOT" /\ PreviewPicTakingPrepare
  \/ evt \in PlayEvents \cup {"STOP_RECORDING", "SET_PREVIEW_WINDOW", "RELEASE", "LONGSHOT_ON"} /\ Refuse(evt)
  \/ evt = "LONGSHOT_OFF" /\ LongshotOff("PREVIEWING")

\* cancelPicture, or cancelLiveSnapshot when the mode has changed meanwhile.
\* Of a picture with frames from the past there is a result, too, which
\* nobody waits for: it is left out, but it wakes the one who waits.
PreviewPicTakingDone ==
  /\ channels' = IF params.zsl \/ longshot THEN cancelPicture(channels, params) ELSE channels
  /\ m_state' = "PREVIEWING"
  /\ phase' = "idle"
  /\ woken' = (woken \/ (retro /\ fw # None))
  /\ UNCHANGED results

PreviewPicTakingEvent(evt) ==
  \/ evt = "SNAPSHOT_DONE" /\ PreviewPicTakingDone
  \/ evt = "PREP_SNAPSHOT_DONE" /\ retro /\ signalAPIResult("PREPARE_SNAPSHOT", TRUE)
     /\ UNCHANGED <<m_state, channels, phase>>
  \/ evt = "READY_FOR_SNAPSHOT" /\ retro /\ signalAPIResult("TAKE_PICTURE", TRUE)
     /\ UNCHANGED <<m_state, channels, phase>>
  \/ evt = "DAEMON_DIED" /\ DaemonDied
  \/ evt \in {"PREP_SNAPSHOT_DONE", "READY_FOR_SNAPSHOT"} /\ ~retro /\ Ignore

-----------------------------------------------------------------------------
(* The thread of the machine: smEvtProcRoutine and stateMachine.  An event *)
(* no state handles, as STOP_CAPTURE_CHANNEL in most, has no effect and no *)
(* answer.                                                                 *)

stateMachine(evt) ==
  \/ m_state = "PREVIEW_STOPPED" /\ procEvtPreviewStoppedState(evt)
  \/ m_state = "PREVIEW_READY" /\ procEvtPreviewReadyState(evt)
  \/ m_state = "PREVIEWING" /\ procEvtPreviewingState(evt)
  \/ m_state = "PREPARE_SNAPSHOT" /\ procEvtPrepareSnapshotState(evt)
  \/ m_state = "PIC_TAKING" /\ procEvtPicTakingState(evt)
  \/ m_state = "RECORDING" /\ procEvtRecordingState(evt)
  \/ m_state = "VIDEO_PIC_TAKING" /\ procEvtVideoPicTakingState(evt)
  \/ m_state = "PREVIEW_PIC_TAKING" /\ procEvtPreviewPicTakingState(evt)
  \/ /\ evt = "STOP_CAPTURE_CHANNEL" /\ m_state # "PIC_TAKING"
     /\ Quiet /\ UNCHANGED <<m_state, results, woken, params, settings>>

HandleAPI ==
  /\ api_queue # <<>>
  /\ api_queue' = Tail(api_queue)
  /\ stateMachine(Head(api_queue))
  /\ evt_queue' = IF longshot /\ ~longshot' /\ isCaptureRunning
                  THEN Append(evt_queue, "SNAPSHOT_DONE") ELSE evt_queue
  /\ overtaken' = (overtaken \/ /\ Head(api_queue) = "TAKE_PICTURE" /\ m_state' # m_state /\ isCaptureRunning'
                                \* "done" is left behind by a picture that is told
                                /\ phase \notin {"idle", "done"} \/ PictureUntold)
  /\ UNCHANGED <<fw, calls, notifier, retro, restart, longshotUsed, dead>>

\* The events of the daemon that other states do not handle
OtherEvent(evt) ==
  /\ m_state \in {"PREVIEW_STOPPED", "PREVIEW_READY", "PREVIEWING", "RECORDING"}
  /\ Ignore

HandleEvt_signal ==
  /\ api_queue = <<>> /\ evt_queue # <<>>
  /\ evt_queue' = Tail(evt_queue)
  /\ LET evt == Head(evt_queue)
     IN  /\ \/ m_state = "PREPARE_SNAPSHOT" /\ PrepareSnapshotEvent(evt)
            \/ m_state = "PIC_TAKING" /\ PicTakingEvent(evt)
            \/ m_state = "VIDEO_PIC_TAKING" /\ VideoPicTakingEvent(evt)
            \/ m_state = "PREVIEW_PIC_TAKING" /\ PreviewPicTakingEvent(evt)
            \/ OtherEvent(evt)
         \* only the states of a capture call signalEvtResult
         /\ notifier' = IF evt = "SNAPSHOT_DONE" /\ notifier = "waiting" /\ isCaptureRunning THEN "idle" ELSE notifier
  /\ UNCHANGED <<api_queue, params, settings, fw, retro, restart, overtaken, longshotUsed, dead, failures, calls>>

HandleEvt ==
  /\ api_queue = <<>> /\ evt_queue # <<>>
  /\ evt_queue' = Tail(evt_queue)
  /\ LET evt == Head(evt_queue)
     IN  /\ \/ m_state = "PREPARE_SNAPSHOT" /\ PrepareSnapshotEvent(evt)
            \/ m_state = "PIC_TAKING" /\ PicTakingEvent(evt)
            \/ m_state = "VIDEO_PIC_TAKING" /\ VideoPicTakingEvent(evt)
            \/ m_state = "PREVIEW_PIC_TAKING" /\ PreviewPicTakingEvent(evt)
            \/ OtherEvent(evt)
         \* every state calls signalEvtResult
         /\ notifier' = IF evt = "SNAPSHOT_DONE" /\ notifier = "waiting" THEN "idle" ELSE notifier
  /\ UNCHANGED <<api_queue, params, settings, fw, retro, restart, overtaken, longshotUsed, dead, failures, calls>>

-----------------------------------------------------------------------------
(* The framework's calls.  It is idle, or in processAPI and waitAPIResult  *)
(* of the event fw.                                                        *)

machine  == <<m_state, channels, params, settings, phase, overtaken, failures>>
elsewhere == <<evt_queue, notifier, restart, dead>>

processAPI(evt) == api_queue' = Append(api_queue, evt)

\* The calls of one event, and set_parameters and start_recording
Call ==
  /\ fw = None /\ calls < MaxCalls
  /\ calls' = calls + 1
  /\ \E evt \in {"SET_PARAMS", "PRE_START_RECORDING", "STOP_RECORDING", "CANCEL_PICTURE", "STOP_PREVIEW",
                 "SET_PREVIEW_WINDOW", "RELEASE", "PLAIN"} \cup PlayEvents \cup CommandEvents :
       /\ processAPI(evt)
       /\ fw' = evt
       /\ longshotUsed' = (longshotUsed \/ evt \in CommandEvents)
  /\ woken' = FALSE
  /\ UNCHANGED <<results, retro, machine, elsewhere>>

\* take_picture, with frames from the past or without; without them the
\* flash may have to be prepared first
take_picture ==
  /\ fw = None /\ calls < MaxCalls
  /\ calls' = calls + 1
  /\ \/ /\ params.zsl /\ ~longshot /\ m_state \notin {"RECORDING", "VIDEO_PIC_TAKING"}
        /\ retro' = TRUE
        /\ fw' = "PRE_TAKE_PICTURE"
     \/ /\ retro' = FALSE
        /\ fw' \in {"PREPARE_SNAPSHOT", "PRE_TAKE_PICTURE"}
  /\ processAPI(fw')
  /\ woken' = FALSE
  /\ UNCHANGED <<results, longshotUsed, machine, elsewhere>>

\* The events a call goes on with after the result ok of evt
Onward(evt, ok) ==
  CASE evt = "SET_PARAMS" /\ ok -> IF needRestart THEN {"SET_PARAMS_STOP"} ELSE {"SET_PARAMS_COMMIT"}
    [] evt = "SET_PARAMS_STOP" /\ ok -> {"SET_PARAMS_COMMIT"}
    [] evt = "SET_PARAMS_COMMIT" /\ ok /\ needRestart -> {"SET_PARAMS_RESTART"}
    [] evt = "PRE_START_RECORDING" /\ ok -> {"START_RECORDING"}
    [] evt = "PREPARE_SNAPSHOT" /\ ~retro -> {"PRE_TAKE_PICTURE"}
    [] evt = "PRE_TAKE_PICTURE" /\ ok -> {"TAKE_PICTURE"}
    [] evt = "TAKE_PICTURE" /\ retro -> {"PREPARE_SNAPSHOT", None}   \* the flash
    [] OTHER -> {None}

IsFirst(i, evt) ==
  /\ i \in DOMAIN results
  /\ results[i].request_api = evt
  /\ \A j \in 1 .. i - 1 : results[j].request_api # evt

\* The wait looks at the list only when it is woken: a result that was there
\* before is found then, and is as good as the answer to this call
waitAPIResult ==
  /\ fw # None /\ woken
  /\ woken' = FALSE
  /\ \/ \E i \in DOMAIN results :
          /\ IsFirst(i, fw)
          /\ results' = RemoveAt(results, i)
          /\ \E next \in Onward(fw, results[i].status) :
               /\ fw' = next
               /\ IF next = None THEN UNCHANGED api_queue ELSE processAPI(next)
     \/ /\ \A i \in DOMAIN results : results[i].request_api # fw
        /\ UNCHANGED <<results, fw, api_queue>>
  /\ UNCHANGED <<retro, longshotUsed, calls, machine, elsewhere>>

-----------------------------------------------------------------------------
(* The daemon, the post-processor and the notifier                         *)

others == <<m_state, api_queue, results, fw, woken, channels, params, settings, retro, restart,
            overtaken, longshotUsed, failures, calls>>

\* The flash is prepared
PrepareDone ==
  /\ ~dead /\ "PREP_SNAPSHOT_DONE" \notin Range(evt_queue)
  /\ m_state = "PREPARE_SNAPSHOT" \/ phase = "preparing"
  /\ evt_queue' = Append(evt_queue, "PREP_SNAPSHOT_DONE")
  /\ phase' = IF phase = "preparing" THEN "prepared" ELSE phase
  /\ UNCHANGED <<others, notifier, dead>>

\* The frames from the past are delivered
ReadyForSnapshot ==
  /\ ~dead /\ phase = "retro"
  /\ evt_queue' = Append(evt_queue, "READY_FOR_SNAPSHOT")
  /\ phase' = "ready"
  /\ UNCHANGED <<others, notifier, dead>>

Die ==
  /\ ~dead /\ failures < MaxFailures
  /\ dead' = TRUE
  /\ evt_queue' = Append(evt_queue, "DAEMON_DIED")
  /\ UNCHANGED <<others, notifier, phase>>

\* The notifier has counted all snapshots of a picture, which come after the
\* flash when there are frames from the past
SnapshotsCounted ==
  /\ notifier = "idle"
  /\ \/ phase = "taken" /\ ~longshot
     \/ phase = "ready" /\ fw = None
     \/ phase \in {"captured", "live", "prepared"}
  /\ notifier' = "counted"
  /\ phase' = "done"
  /\ UNCHANGED <<others, evt_queue, dead>>

\* processSyncEvt
SnapshotDone ==
  /\ notifier = "counted"
  /\ notifier' = "waiting"
  /\ evt_queue' = Append(evt_queue, "SNAPSHOT_DONE")
  /\ UNCHANGED <<others, phase, dead>>

posted == <<m_state, evt_queue, results, fw, woken, notifier, channels, params, settings, retro,
            restart, overtaken, longshotUsed, dead, calls>>

\* The post-processor has the one frame of a picture without ZSL
StopCapture ==
  /\ phase = "taken" /\ channels.capture = "running"
  /\ ~params.zsl /\ ~params.hint /\ ~longshot
  /\ phase' = "captured"
  /\ processAPI("STOP_CAPTURE_CHANNEL")
  /\ UNCHANGED <<posted, failures>>

\* The thread of the live snapshot fails
LiveSnapshotFails ==
  /\ phase = "live"
  /\ dead \/ failures < MaxFailures
  /\ failures' = IF dead THEN failures ELSE failures + 1
  /\ phase' = "done"
  /\ processAPI("CANCEL_PICTURE")
  /\ UNCHANGED posted

-----------------------------------------------------------------------------

Init ==
  /\ m_state = "PREVIEW_STOPPED"
  /\ api_queue = <<>> /\ evt_queue = <<>> /\ results = <<>>
  /\ fw = None /\ woken = FALSE /\ notifier = "idle"
  /\ channels = [k \in {"zsl", "preview", "video", "capture"} |-> "none"]
  /\ params = [zsl |-> FALSE, hint |-> FALSE] /\ newParams = params
  /\ needRestart = FALSE /\ window = FALSE /\ longshot = FALSE /\ retro = FALSE
  /\ restart \in BOOLEAN
  /\ phase = "idle" /\ overtaken = FALSE /\ longshotUsed = FALSE /\ dead = FALSE /\ failures = 0
  /\ calls = 0

Next ==
  \/ Call \/ take_picture \/ waitAPIResult
  \/ HandleAPI \/ HandleEvt
  \/ PrepareDone \/ ReadyForSnapshot \/ Die
  \/ SnapshotsCounted \/ SnapshotDone \/ StopCapture \/ LiveSnapshotFails

Spec == Init /\ [][Next]_vars

\* Each thread goes on; the daemon answers or dies
FairSpec ==
  /\ Spec
  /\ WF_vars(HandleAPI) /\ WF_vars(HandleEvt)
  /\ WF_vars(waitAPIResult) /\ WF_vars(SnapshotDone)
  /\ WF_vars(PrepareDone) /\ WF_vars(ReadyForSnapshot)

-----------------------------------------------------------------------------
(* Properties                                                              *)

TypeOK ==
  /\ m_state \in States /\ phase \in Phases
  /\ api_queue \in Seq(APIEvents) /\ evt_queue \in Seq(Events)
  /\ results \in Seq([request_api : CallEvents, status : BOOLEAN])
  /\ fw \in CallEvents \cup {None} /\ woken \in BOOLEAN
  /\ notifier \in {"idle", "counted", "waiting"}
  /\ channels \in [{"zsl", "preview", "video", "capture"} -> {"none", "ready", "running"}]
  /\ params \in [zsl : BOOLEAN, hint : BOOLEAN] /\ newParams \in [zsl : BOOLEAN, hint : BOOLEAN]
  /\ needRestart \in BOOLEAN /\ window \in BOOLEAN /\ longshot \in BOOLEAN /\ retro \in BOOLEAN
  /\ restart \in BOOLEAN /\ overtaken \in BOOLEAN /\ longshotUsed \in BOOLEAN /\ dead \in BOOLEAN
  /\ failures \in 0 .. MaxFailures /\ calls \in 0 .. MaxCalls

\* A stopped machine holds no preview and no video channel, unless the
\* post-processor restarted the preview under a picture; and while a video is
\* recorded its channel runs, whatever failed before.
ChannelsFollowState ==
  /\ m_state = "PREVIEW_STOPPED" /\ ~restart =>
       \A k \in {"zsl", "preview", "video"} : channels[k] = "none"
  /\ m_state \in {"RECORDING", "VIDEO_PIC_TAKING"} => channels.video = "running"

PreviewUp == channels.zsl = "running" \/ channels.preview = "running"

\* The machine says PREVIEWING, no operation ever failed, and longshots and the
\* early restart of the preview are not in use: then frames flow, or
\* set_parameters is between its stop and its restart.
PreviewIsRunning ==
  m_state = "PREVIEWING" /\ failures = 0 /\ ~dead /\ ~longshotUsed /\ ~restart =>
    PreviewUp \/ fw \in {"SET_PARAMS_STOP", "SET_PARAMS_COMMIT", "SET_PARAMS_RESTART"}

\* The daemon's event that answers evt is to come, or its death is to be told
DaemonOwes(evt) ==
  /\ ~dead \/ Range(evt_queue) \cap {"PREP_SNAPSHOT_DONE", "READY_FOR_SNAPSHOT", "DAEMON_DIED"} # {}
  /\ \/ evt = "PREPARE_SNAPSHOT" /\ m_state = "PREPARE_SNAPSHOT"
     \/ evt \in {"PREPARE_SNAPSHOT", "TAKE_PICTURE"} /\ m_state = "PREVIEW_PIC_TAKING" /\ retro

\* A call that waits has its event in the queue, its answer in the list with
\* the wake-up to come or already there, or an answer the daemon still owes;
\* unless the notifier ended the picture of the call with the end of another.
WaiterIsOwed ==
  fw # None /\ ~overtaken =>
    \/ fw \in Range(api_queue)
    \/ woken /\ \E i \in DOMAIN results : results[i].request_api = fw
    \/ DaemonOwes(fw)

\* Every call returns, unless a picture was overtaken in that way.
CallsReturn == fw # None /\ ~overtaken ~> fw = None \/ overtaken

\* The notifier, which holds m_evtLock, is always answered.
SyncEventReturns == notifier = "waiting" ~> notifier = "idle"

=============================================================================
