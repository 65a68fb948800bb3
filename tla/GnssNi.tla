-------------------------------- MODULE GnssNi --------------------------------
(***************************************************************************)
(* Network-initiated location requests in gps/gnss/GnssAdapter.cpp.  The   *)
(* modem asks; the adapter keeps one session for emergency SUPL and one    *)
(* for all else, tells the client and spawns a thread that waits for the   *)
(* user's answer or a timeout, and answers the modem.                      *)
(*                                                                         *)
(* Two kinds of threads meet: MsgTask, which runs requestNiNotify and the  *)
(* handler of gnssNiResponseCommand, and the spawned threads, which run    *)
(* niThreadProc.  A session has a lock, but MsgTask reads and writes some  *)
(* of its fields without it, and a spawned thread resets reqID and         *)
(* respTimeLeft after it has unlocked: the steps here are the code's, cut  *)
(* at those points.  Durations are left out, respTimeLeft with them.       *)
(*                                                                         *)
(* Every client has an NI callback; without one a request is dropped.      *)
(***************************************************************************)
EXTENDS Integers, FiniteSets

CONSTANTS
  MaxReq,         \* bound: requests that get a session
  MaxAnswers,     \* bound: answers of the user to one notification
  ThreadCanFail   \* can pthread_create fail?

ASSUME ConstantsAssumption ==
  MaxReq \in Nat /\ MaxAnswers \in Nat /\ ThreadCanFail \in BOOLEAN

Requests  == 1 .. MaxReq            \* a request is named by its reqIDCounter
Sessions  == {"session", "sessionEs"}
Responses == {"ACCEPT", "DENY", "NO_RESPONSE"}
None      == "none"

VARIABLES
  ni,        \* mNiData: for each session its rawRequest, reqID, respRecvd and resp
  reqIDCounter,
  owner,     \* the session of each request so far
  thread,    \* where the thread spawned for a request is
  taken,     \* the response a thread takes to the modem, or None
  notified,  \* the id the client was given for a request, 0 if none
  answers,   \* how often the user answered each request
  accepted,  \* requests the user accepted
  mt,        \* what MsgTask is in the middle of
  modem      \* the response the modem got for each request

vars == <<ni, reqIDCounter, owner, thread, taken, notified, answers, accepted, mt, modem>>
userVars == <<answers, accepted>>

Idle == [pc |-> "idle"]

Free(s) == ni[s].rawRequest = 0

-----------------------------------------------------------------------------
(* MsgTask: requestNiNotify.                                               *)

MayStart_ignoresEs(s) == Free(s)

MayStart_ignoresOwn(s) == Free("sessionEs")

\* The session a new request may have
MayStart(s) ==
  /\ Free("sessionEs")
  /\ s = "session" => Free("session")

\* "Save request": no lock is held
SaveRequest(s) ==
  /\ mt = Idle /\ MayStart(s)
  /\ reqIDCounter < MaxReq
  /\ reqIDCounter' = reqIDCounter + 1
  /\ ni' = [ni EXCEPT ![s].rawRequest = reqIDCounter', ![s].reqID = reqIDCounter']
  /\ owner' = [owner EXCEPT ![reqIDCounter'] = s]
  /\ mt' = [pc |-> "spawn", request |-> reqIDCounter']
  /\ UNCHANGED <<thread, taken, notified, userVars, modem>>

\* The client is told the id that reqID holds now; if the thread cannot be
\* created, that is only logged
SpawnThread ==
  /\ mt.pc = "spawn"
  /\ LET r == mt.request
     IN  /\ notified' = [notified EXCEPT ![r] = ni[owner[r]].reqID]
         /\ \/ thread' = [thread EXCEPT ![r] = "new"]
            \/ ThreadCanFail /\ UNCHANGED thread
  /\ mt' = Idle
  /\ UNCHANGED <<ni, reqIDCounter, owner, taken, userVars, modem>>

-----------------------------------------------------------------------------
(* MsgTask: gnssNiResponseCommand for an answer of the user to request r.  *)

Matches(s, id) == ni[s].reqID = id /\ ~Free(s)

\* The session is chosen without its lock
Respond(r, response) ==
  /\ mt = Idle
  /\ notified[r] # 0 /\ answers[r] < MaxAnswers
  /\ answers' = [answers EXCEPT ![r] = @ + 1]
  /\ accepted' = IF response = "ACCEPT" THEN accepted \cup {r} ELSE accepted
  /\ LET id == notified[r]
     IN  \/ /\ Matches("sessionEs", id)
            /\ mt' = [pc |-> IF response = "ACCEPT" /\ ~Free("session")
                               THEN "ignore" ELSE "deliver",
                      session |-> "sessionEs", response |-> response]
         \/ /\ ~Matches("sessionEs", id) /\ Matches("session", id)
            /\ mt' = [pc |-> "deliver", session |-> "session", response |-> response]
         \/ /\ ~Matches("sessionEs", id) /\ ~Matches("session", id)
            /\ UNCHANGED mt
  /\ UNCHANGED <<ni, reqIDCounter, owner, thread, taken, notified, modem>>

\* What both deliveries do under the lock of the session
Signalled(s, response) == [ni EXCEPT ![s].resp = response, ![s].respRecvd = TRUE]

\* The accepted emergency request makes the other session end silently
IgnoreOther ==
  /\ mt.pc = "ignore"
  /\ ni' = Signalled("session", "IGNORE")
  /\ mt' = [mt EXCEPT !.pc = "deliver"]
  /\ UNCHANGED <<reqIDCounter, owner, thread, taken, notified, userVars, modem>>

Deliver ==
  /\ mt.pc = "deliver"
  /\ ni' = Signalled(mt.session, mt.response)
  /\ mt' = Idle
  /\ UNCHANGED <<reqIDCounter, owner, thread, taken, notified, userVars, modem>>

\* The message of the spawned thread of r: informNiResponse
InformModem(r) ==
  /\ mt = Idle
  /\ thread[r] = "sent" /\ modem[r] = None
  /\ modem' = [modem EXCEPT ![r] = taken[r]]
  /\ UNCHANGED <<ni, reqIDCounter, owner, thread, taken, notified, userVars, mt>>

-----------------------------------------------------------------------------
(* niThreadProc of the thread spawned for request r.                       *)

Session(r) == ni[owner[r]]

\* The wait is over with resp; still under the lock, the thread takes the
\* request, whichever it is now, and sees whether the modem is to be told
Finish(r, resp) ==
  /\ ni' = [ni EXCEPT ![owner[r]].respRecvd = FALSE, ![owner[r]].resp = resp,
                      ![owner[r]].rawRequest = 0]
  /\ taken' = [taken EXCEPT ![r] = IF Session(r).rawRequest # 0 /\ resp # "IGNORE"
                                     THEN resp ELSE None]
  /\ thread' = [thread EXCEPT ![r] = "resetId"]
  /\ UNCHANGED <<reqIDCounter, owner, notified, userVars, mt, modem>>

\* The thread computes when to give up, and waits unless it has its answer
StartWait(r) ==
  /\ thread[r] = "new"
  /\ \/ Session(r).respRecvd /\ Finish(r, Session(r).resp)
     \/ /\ ~Session(r).respRecvd
        /\ thread' = [thread EXCEPT ![r] = "waiting"]
        /\ UNCHANGED <<ni, reqIDCounter, owner, taken, notified, userVars, mt, modem>>

WakeUp(r) ==
  /\ thread[r] = "waiting"
  /\ Session(r).respRecvd
  /\ Finish(r, Session(r).resp)

TimeOut_forgetsRequest(r) ==
  /\ thread[r] = "waiting"
  /\ thread' = [thread EXCEPT ![r] = "resetId"]
  /\ UNCHANGED <<ni, reqIDCounter, owner, taken, notified, userVars, mt, modem>>

\* The timeout wins even if an answer has just come
TimeOut(r) ==
  /\ thread[r] = "waiting"
  /\ Finish(r, "NO_RESPONSE")

\* The thread has unlocked: this write races with requestNiNotify
ResetId(r) ==
  /\ thread[r] = "resetId"
  /\ ni' = [ni EXCEPT ![owner[r]].reqID = 0]
  /\ thread' = [thread EXCEPT ![r] = IF taken[r] # None THEN "sent" ELSE "ended"]
  /\ UNCHANGED <<reqIDCounter, owner, taken, notified, userVars, mt, modem>>

ThreadStep(r) == StartWait(r) \/ WakeUp(r) \/ TimeOut(r) \/ ResetId(r)

-----------------------------------------------------------------------------
Init ==
  /\ ni = [s \in Sessions |-> [rawRequest |-> 0, reqID |-> 0,
                               respRecvd |-> FALSE, resp |-> None]]
  /\ reqIDCounter = 0
  /\ owner = [r \in Requests |-> None]
  /\ thread = [r \in Requests |-> None]
  /\ taken = [r \in Requests |-> None]
  /\ notified = [r \in Requests |-> 0]
  /\ answers = [r \in Requests |-> 0]
  /\ accepted = {}
  /\ mt = Idle
  /\ modem = [r \in Requests |-> None]

MsgTaskStep == SpawnThread \/ IgnoreOther \/ Deliver \/ \E r \in Requests : InformModem(r)

Next ==
  \/ \E s \in Sessions : SaveRequest(s)
  \/ \E r \in Requests, a \in Responses : Respond(r, a)
  \/ MsgTaskStep
  \/ \E r \in Requests : ThreadStep(r)

Spec == Init /\ [][Next]_vars

\* Neither the modem nor the user has to do anything
FairSpec ==
  Spec /\ WF_vars(MsgTaskStep) /\ \A r \in Requests : WF_vars(ThreadStep(r))

-----------------------------------------------------------------------------
(* Properties.                                                             *)

ThreadStates == {None, "new", "waiting", "resetId", "sent", "ended"}

NiSession == [rawRequest : 0 .. MaxReq, reqID : 0 .. MaxReq, respRecvd : BOOLEAN,
              resp : Responses \cup {"IGNORE", None}]

TypeOK ==
  /\ ni \in [Sessions -> NiSession]
  /\ reqIDCounter \in 0 .. MaxReq
  /\ owner \in [Requests -> Sessions \cup {None}]
  /\ thread \in [Requests -> ThreadStates]
  /\ taken \in [Requests -> Responses \cup {None}]
  /\ notified \in [Requests -> 0 .. MaxReq]
  /\ answers \in [Requests -> 0 .. MaxAnswers]
  /\ accepted \subseteq Requests
  /\ \/ mt = Idle
     \/ mt \in [pc : {"spawn"}, request : Requests]
     \/ mt \in [pc : {"ignore", "deliver"}, session : Sessions, response : Responses]
  /\ modem \in [Requests -> Responses \cup {None}]

\* A thread that has not finished waiting finds its own request in its session:
\* it never takes a later one, and a response never goes out with the payload
\* of another request (niThreadProc takes whatever rawRequest is there).
OwnRequest ==
  \A r \in Requests : thread[r] \in {"new", "waiting"} => Session(r).rawRequest = r

\* No other request starts while an emergency one is pending; of two pending
\* requests the emergency one came later (requestNiNotify reads both sessions).
EsExcludesNew ==
  ~Free("session") /\ ~Free("sessionEs") =>
    ni["session"].rawRequest < ni["sessionEs"].rawRequest

\* The modem is told only what the user decided for that request, or that
\* there was no response: respRecvd is reset "for the next session".
UserDecides == \A r \in Requests : modem[r] = "ACCEPT" => r \in accepted

\* A thread that is spawned ends its session, so that the next request can
\* have it, and the modem is told or the request was ignored.
SessionEnds ==
  \A r \in Requests : thread[r] = "new" ~>
    /\ \A s \in Sessions : ni[s].rawRequest # r
    /\ modem[r] # None \/ thread[r] = "ended"

=============================================================================
