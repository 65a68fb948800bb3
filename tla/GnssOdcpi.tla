------------------------------ MODULE GnssOdcpi ------------------------------
(***************************************************************************)
(* On-demand coarse position injection in gps/gnss/GnssAdapter.cpp.  The   *)
(* modem starts and stops a session; while one is active the adapter asks  *)
(* the framework for a position, and asks again whenever its timer has     *)
(* expired.  The timer also keeps a quick succession of starts and stops   *)
(* from reaching the framework: as long as it is active a new session only *)
(* waits for it, unless it is the first emergency one.                     *)
(*                                                                         *)
(* The adapter's handlers run on its MsgTask; the timer expires on the     *)
(* thread of LocTimer, in the steps of LocTimerDelegate::expire, and sends *)
(* a message.  The flag mActive of OdcpiTimer is not changed there.        *)
(***************************************************************************)
EXTENDS Integers

CONSTANTS
  MaxExpired   \* bound: MsgOdcpiTimerExpire messages waiting at once

ASSUME OdcpiAssumption == MaxExpired \in Nat \ {0}

VARIABLES
  mOdcpiRequestCb,      \* is the framework's callback set?
  mOdcpiRequestActive,
  mOdcpiRequest,        \* the isEmergencyMode of the last request
  mActive,              \* the flag of mOdcpiTimer
  running,              \* does its LocTimer run?
  expiry,               \* what the thread of LocTimer is doing with it
  expired,              \* MsgOdcpiTimerExpire messages not handled yet
  asked,                \* the isEmergencyMode the framework was last asked with
  parity                \* is the number of times it was asked odd?

odcpiVars == <<mOdcpiRequestCb, mOdcpiRequestActive, mOdcpiRequest, mActive,
          running, expiry, expired, asked, parity>>
sessionVars == <<mOdcpiRequestCb, mOdcpiRequestActive, mOdcpiRequest, mActive, asked, parity>>

-----------------------------------------------------------------------------
(* OdcpiTimer and the callback.                                            *)

\* start and restart end alike: LocTimer::start does nothing if the timer runs
startTimer == mActive' = TRUE /\ running' = TRUE

stopTimer == mActive' = FALSE /\ running' = FALSE

Ask(emergency) == asked' = emergency /\ parity' = ~parity

Wait == UNCHANGED <<mActive, running, asked, parity>>

-----------------------------------------------------------------------------
(* The handlers of the adapter.                                            *)

\* Registered before any request is taken, and never taken back
initOdcpi ==
  /\ ~mOdcpiRequestCb /\ mOdcpiRequestCb' = TRUE
  /\ UNCHANGED <<mOdcpiRequestActive, mOdcpiRequest, mActive, running, expiry, expired,
                 asked, parity>>

Replaces_never(emergency) == FALSE

\* An emergency request replaces one that is none
Replaces(emergency) == emergency /\ ~mOdcpiRequest

\* A request that neither finds all idle nor replaces another waits for the
\* timer.  The session is active and the request remembered in any case.
reportOdcpiStart(emergency) ==
  /\ mOdcpiRequestCb
  /\ \/ /\ Replaces(emergency) \/ ~(mOdcpiRequestActive \/ mActive)
        /\ Ask(emergency) /\ startTimer
     \/ /\ ~Replaces(emergency) /\ (mOdcpiRequestActive \/ mActive)
        /\ Wait
  /\ mOdcpiRequestActive' = TRUE
  /\ mOdcpiRequest' = emergency
  /\ UNCHANGED <<mOdcpiRequestCb, expiry, expired>>

reportOdcpiStop_stopsTimer ==
  /\ mOdcpiRequestCb
  /\ mOdcpiRequestActive' = FALSE
  /\ running' = FALSE
  /\ UNCHANGED <<mOdcpiRequestCb, mOdcpiRequest, mActive, expiry, expired, asked, parity>>

\* The timer goes on
reportOdcpiStop ==
  /\ mOdcpiRequestCb
  /\ mOdcpiRequestActive' = FALSE
  /\ UNCHANGED <<mOdcpiRequestCb, mOdcpiRequest, mActive, running, expiry, expired, asked, parity>>

\* After the engine has restarted; the timer goes on here too
restartSessions ==
  /\ mOdcpiRequestActive' = FALSE
  /\ UNCHANGED <<mOdcpiRequestCb, mOdcpiRequest, mActive, running, expiry, expired, asked, parity>>

odcpiTimerExpire ==
  /\ expired > 0 /\ expired' = expired - 1
  /\ \/ mOdcpiRequestActive /\ Ask(mOdcpiRequest) /\ startTimer
     \/ ~mOdcpiRequestActive /\ stopTimer /\ UNCHANGED <<asked, parity>>
  /\ UNCHANGED <<mOdcpiRequestCb, mOdcpiRequestActive, mOdcpiRequest, expiry>>

-----------------------------------------------------------------------------
(* The thread of LocTimer: the expired delegate has been popped and its    *)
(* client read; then the timer is stopped, if it still runs or runs again, *)
(* and at last calls back.  The adapter's thread can come in between.      *)

Expire ==
  /\ expiry = "none" /\ running
  /\ expiry' = "expiring"
  /\ UNCHANGED <<sessionVars, running, expired>>

stopExpired_silent ==
  /\ expiry = "expiring" /\ expiry' = "none"
  /\ running' = FALSE
  /\ UNCHANGED <<sessionVars, expired>>

stopExpired ==
  /\ expiry = "expiring"
  /\ \/ running /\ running' = FALSE /\ expiry' = "calling"
     \/ ~running /\ expiry' = "none" /\ UNCHANGED running
  /\ UNCHANGED <<sessionVars, expired>>

timeOutCallback ==
  /\ expiry = "calling" /\ expiry' = "none"
  /\ expired < MaxExpired /\ expired' = expired + 1
  /\ UNCHANGED <<sessionVars, running>>

-----------------------------------------------------------------------------
OdcpiInit ==
  /\ mOdcpiRequestCb = FALSE /\ mOdcpiRequestActive = FALSE
  /\ mOdcpiRequest = FALSE
  /\ mActive = FALSE /\ running = FALSE
  /\ expiry = "none" /\ expired = 0
  /\ asked = FALSE /\ parity = FALSE

TimerStep == Expire \/ stopExpired \/ timeOutCallback

OdcpiNext ==
  \/ initOdcpi
  \/ \E emergency \in BOOLEAN : reportOdcpiStart(emergency)
  \/ reportOdcpiStop \/ restartSessions \/ odcpiTimerExpire
  \/ TimerStep

OdcpiSpec == OdcpiInit /\ [][OdcpiNext]_odcpiVars

\* A timer that runs expires and messages are handled; the modem is free
OdcpiFairSpec == OdcpiSpec /\ WF_odcpiVars(TimerStep) /\ WF_odcpiVars(odcpiTimerExpire)

-----------------------------------------------------------------------------
(* Properties.                                                             *)

OdcpiTypeOK ==
  /\ mOdcpiRequestCb \in BOOLEAN /\ mOdcpiRequestActive \in BOOLEAN
  /\ mOdcpiRequest \in BOOLEAN /\ mActive \in BOOLEAN /\ running \in BOOLEAN
  /\ expiry \in {"none", "expiring", "calling"}
  /\ expired \in 0 .. MaxExpired
  /\ asked \in BOOLEAN /\ parity \in BOOLEAN

\* The flag of the timer is never left set without a timer behind it: the
\* LocTimer runs, or is about to send its message, or the message waits.
\* Otherwise every later request would wait for a timer that never expires.
ActiveTimerExpires ==
  mActive => running \/ expiry = "calling" \/ expired > 0

\* A session that the adapter takes for an emergency is one the framework
\* was told of as an emergency: it has not been merged into another one.
EmergencyIsAsked == mOdcpiRequest => asked

\* The framework is asked again and again while a session stays active.
ActiveIsAskedAgain ==
  \A odd \in BOOLEAN : ~<>[](mOdcpiRequestActive /\ parity = odd)
=============================================================================
