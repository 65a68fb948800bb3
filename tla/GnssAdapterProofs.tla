------------------------- MODULE GnssAdapterProofs -------------------------
(***************************************************************************)
(* Proofs about the two parts of gps/gnss/GnssAdapter.cpp that talk to     *)
(* threads of their own.                                                   *)
(*                                                                         *)
(* GnssNi, for any number of requests and answers, whether or not threads  *)
(* can be created.                                                         *)
(*                                                                         *)
(* GnssOdcpi, for any number of expiry messages that wait: the flag of the *)
(* timer always has a timer behind it, although the thread of LocTimer     *)
(* stops the timer in two steps while the adapter's handlers start and     *)
(* stop it, and no emergency is merged into another session.               *)
(***************************************************************************)
EXTENDS GnssNi, GnssOdcpi, TLAPS

-----------------------------------------------------------------------------
(* Requests of the network: GnssNi                                         *)

\* Requests have sessions and threads only once they are counted
Counted ==
  /\ \A r \in Requests : r <= reqIDCounter => owner[r] \in Sessions
  /\ \A r \in Requests : thread[r] # None => r <= reqIDCounter
  /\ \A s \in Sessions : ni[s].rawRequest <= reqIDCounter

\* The request MsgTask is about to spawn a thread for is in its session
SpawnsOwn ==
  mt.pc = "spawn" =>
    /\ mt.request \in Requests /\ mt.request <= reqIDCounter
    /\ thread[mt.request] = None
    /\ Session(mt.request).rawRequest = mt.request

IInv == TypeOK /\ Counted /\ SpawnsOwn /\ OwnRequest /\ EsExcludesNew

\* At first no request has a thread and no session has a request
LEMMA InitInvariant == Init => IInv
BY ConstantsAssumption
   DEF Init, IInv, TypeOK, Counted, SpawnsOwn, OwnRequest, EsExcludesNew, Session, Free,
       Requests, Sessions, Responses, ThreadStates, NiSession, Idle, None

\* Two different requests whose threads wait or are about to have two sessions
LEMMA NoneIsNoState == None \notin {"new", "waiting"} /\ None \notin Sessions
BY DEF None, Sessions

\* A finishing thread frees its session and disturbs no other thread
LEMMA FinishKeepsInv ==
  ASSUME IInv, NEW r \in Requests, thread[r] \in {"new", "waiting"},
         NEW resp \in Responses \cup {"IGNORE", None},
         Finish(r, resp)
  PROVE  IInv'
<1> USE ConstantsAssumption
<1>1. owner[r] \in Sessions /\ ni[owner[r]].rawRequest = r
  BY DEF IInv, Counted, OwnRequest, Session, None
<1>2. TypeOK'
  <2>1. [ni[owner[r]] EXCEPT !.respRecvd = FALSE, !.resp = resp, !.rawRequest = 0] \in NiSession
    <3>1. ni[owner[r]] \in NiSession /\ 0 \in 0 .. MaxReq /\ MaxReq \in Nat
      BY <1>1 DEF IInv, TypeOK
    <3>2. [ni[owner[r]] EXCEPT !.respRecvd = FALSE, !.resp = resp] \in NiSession
      BY <3>1 DEF NiSession
    <3> QED
      BY <3>1, <3>2 DEF NiSession
  <2>2. ni' = [ni EXCEPT ![owner[r]] = [@ EXCEPT !.respRecvd = FALSE, !.resp = resp, !.rawRequest = 0]]
    BY <1>1 DEF Finish, IInv, TypeOK
  <2>3. ni' \in [Sessions -> NiSession]
    BY <1>1, <2>1, <2>2 DEF IInv, TypeOK
  <2>4. taken' \in [Requests -> Responses \cup {None}]
    BY DEF Finish, IInv, TypeOK
  <2>5. thread' \in [Requests -> ThreadStates]
    BY DEF Finish, IInv, TypeOK, ThreadStates
  <2> QED
    BY <2>3, <2>4, <2>5 DEF Finish, IInv, TypeOK, userVars
<1>3. /\ ni'[owner[r]].rawRequest = 0
      /\ \A s \in Sessions : s # owner[r] => ni'[s] = ni[s]
      /\ thread'[r] = "resetId"
      /\ \A q \in Requests : q # r => thread'[q] = thread[q]
      /\ owner' = owner /\ mt' = mt /\ reqIDCounter' = reqIDCounter
  BY <1>1 DEF IInv, TypeOK, NiSession, Finish, userVars
<1>4. Counted'
  BY <1>1, <1>3 DEF IInv, TypeOK, Counted, None
<1>5. \A q \in Requests : q # r /\ Session(q).rawRequest = q /\ owner[q] \in Sessions
                            => Session(q)'.rawRequest = q
  BY <1>1, <1>3 DEF Session, Requests
<1>6. OwnRequest'
  BY <1>3, <1>5 DEF IInv, Counted, OwnRequest, Session, None
<1>7. SpawnsOwn'
  BY <1>3, <1>5 DEF IInv, Counted, SpawnsOwn, Session, None
<1>8. EsExcludesNew'
  BY <1>1, <1>3 DEF IInv, EsExcludesNew, Free, Sessions
<1> QED
  BY <1>2, <1>4, <1>6, <1>7, <1>8 DEF IInv

\* A step that leaves the requests in the sessions, the threads and MsgTask's
\* spawning alone keeps everything but the types
LEMMA QuietStep ==
  ASSUME IInv, TypeOK',
         UNCHANGED <<reqIDCounter, owner>>,
         \A s \in Sessions : ni'[s].rawRequest = ni[s].rawRequest,
         \A r \in Requests : \/ thread'[r] = thread[r]
                             \/ thread[r] # None /\ thread'[r] \notin {"new", "waiting"}
                             \/ thread[r] = "new" /\ thread'[r] = "waiting",
         mt'.pc = "spawn" => mt' = mt
  PROVE  IInv'
<1>1. Counted'
  BY DEF IInv, Counted, None
<1>2. \A q \in Requests : owner[q] \in Sessions =>
                            Session(q)'.rawRequest = Session(q).rawRequest
  BY DEF Session
<1>3. OwnRequest'
  BY <1>2 DEF IInv, Counted, OwnRequest, None
<1>4. SpawnsOwn'
  BY <1>2 DEF IInv, Counted, SpawnsOwn, None
<1>5. EsExcludesNew'
  BY DEF IInv, EsExcludesNew, Free, Sessions
<1> QED
  BY <1>1, <1>3, <1>4, <1>5 DEF IInv

\* The request that is saved is newer than every one that has a session or a
\* thread, and its session was free
LEMMA SaveKeepsInv ==
  ASSUME IInv, NEW s \in Sessions, SaveRequest(s)
  PROVE  IInv'
<1> USE ConstantsAssumption
<1> DEFINE n == reqIDCounter + 1
<1>1. /\ n \in Requests /\ reqIDCounter' = n /\ Free(s)
      /\ mt' = [pc |-> "spawn", request |-> n]
      /\ ni' = [ni EXCEPT ![s].rawRequest = n, ![s].reqID = n]
      /\ owner' = [owner EXCEPT ![n] = s]
      /\ thread' = thread
  BY DEF SaveRequest, MayStart, IInv, TypeOK, Requests, Sessions
<1>2. TypeOK'
  <2>1. n \in 0 .. MaxReq
    BY <1>1 DEF Requests
  <2> HIDE DEF n
  <2>2. [ni[s] EXCEPT !.rawRequest = n, !.reqID = n] \in NiSession
    <3>1. ni[s] \in NiSession
      BY DEF IInv, TypeOK
    <3> QED
      BY <2>1, <3>1 DEF NiSession
  <2>3. ni' \in [Sessions -> NiSession]
    <3>1. ni' = [ni EXCEPT ![s] = [@ EXCEPT !.rawRequest = n, !.reqID = n]]
      BY <1>1 DEF IInv, TypeOK
    <3> QED
      BY <2>2, <3>1 DEF IInv, TypeOK
  <2>4. owner' \in [Requests -> Sessions \cup {None}] /\ mt' \in [pc : {"spawn"}, request : Requests]
    BY <1>1 DEF IInv, TypeOK
  <2> QED
    BY <1>1, <2>1, <2>3, <2>4 DEF SaveRequest, IInv, TypeOK, userVars
<1>3. /\ thread[n] = None
      /\ \A q \in Requests : q # n => owner'[q] = owner[q]
      /\ owner'[n] = s /\ ni'[s].rawRequest = n
      /\ \A t \in Sessions : t # s => ni'[t] = ni[t]
  BY <1>1 DEF IInv, TypeOK, NiSession, Counted, Requests
<1> HIDE DEF n
<1>4. n \in Int /\ reqIDCounter \in Int /\ reqIDCounter < n
      /\ \A t \in Sessions : ni[t].rawRequest \in Int
      /\ \A r \in Requests : r \in Int /\ (r <= n <=> r = n \/ r <= reqIDCounter)
  BY DEF n, IInv, TypeOK, NiSession, Requests
<1>5. Counted'
  <2>1. \A r \in Requests : r <= n => owner'[r] \in Sessions
    BY <1>3, <1>4 DEF IInv, Counted
  <2>2. \A r \in Requests : thread'[r] # None => r <= n
    BY <1>1, <1>4 DEF IInv, Counted
  <2>3. \A t \in Sessions : ni'[t].rawRequest <= n
    BY <1>3, <1>4 DEF IInv, Counted
  <2> QED
    BY <1>1, <2>1, <2>2, <2>3 DEF Counted
<1>6. OwnRequest'
  <2> SUFFICES ASSUME NEW r \in Requests, thread'[r] \in {"new", "waiting"}
               PROVE  Session(r)'.rawRequest = r
    BY DEF OwnRequest
  <2>1. thread[r] \in {"new", "waiting"} /\ Session(r).rawRequest = r /\ r # n
    BY <1>1, <1>3 DEF IInv, OwnRequest, None
  <2>2. owner[r] \in Sessions /\ owner[r] # s /\ r # 0
    BY <2>1, <1>1, <1>4 DEF IInv, Counted, Free, Session, None, Requests
  <2> QED
    BY <2>1, <2>2, <1>3 DEF Session
<1>7. SpawnsOwn'
  <2>1. mt'.request = n /\ ni'[owner'[n]].rawRequest = n
    <3>1. mt'.request = n
      BY <1>1
    <3> QED
      BY <1>3, <3>1
  <2>2. mt'.request \in Requests /\ mt'.request <= reqIDCounter' /\ thread'[mt'.request] = None
    BY <1>1, <1>3, <1>4, <2>1
  <2> QED
    BY <2>1, <2>2 DEF SpawnsOwn, Session
<1>8. EsExcludesNew'
  <2>1. CASE s = "session"
    BY <2>1, <1>3, <1>1 DEF EsExcludesNew, SaveRequest, MayStart, Free, Sessions
  <2>2. CASE s = "sessionEs"
    BY <2>2, <1>3, <1>4 DEF IInv, Counted, EsExcludesNew, Free, Sessions
  <2> QED
    BY <2>1, <2>2 DEF Sessions
<1> QED
  BY <1>2, <1>5, <1>6, <1>7, <1>8 DEF IInv

\* The thread that is spawned has the session whose request was just saved
LEMMA SpawnKeepsInv ==
  ASSUME IInv, SpawnThread
  PROVE  IInv'
<1> USE ConstantsAssumption
<1>1. PICK r \in Requests : r = mt.request
  BY DEF SpawnThread, IInv, SpawnsOwn
<1>2. /\ ni' = ni /\ owner' = owner /\ reqIDCounter' = reqIDCounter /\ mt' = Idle
      /\ notified' = [notified EXCEPT ![r] = ni[owner[r]].reqID]
      /\ thread' = [thread EXCEPT ![r] = "new"] \/ thread' = thread
      /\ UNCHANGED <<taken, answers, accepted, modem>>
  BY <1>1 DEF SpawnThread, userVars
<1>3. r <= reqIDCounter /\ Session(r).rawRequest = r /\ owner[r] \in Sessions
  BY <1>1 DEF SpawnThread, IInv, SpawnsOwn, Counted
<1>4. TypeOK'
  BY <1>2, <1>3 DEF IInv, TypeOK, NiSession, Requests, ThreadStates
<1>5. \A q \in Requests : thread'[q] = thread[q] \/ q = r
  BY <1>2 DEF IInv, TypeOK
<1>6. Counted'
  BY <1>2, <1>3, <1>5 DEF IInv, Counted
<1>7. OwnRequest'
  BY <1>2, <1>3, <1>5 DEF IInv, OwnRequest, Session
<1>8. SpawnsOwn' /\ EsExcludesNew'
  BY <1>2 DEF IInv, SpawnsOwn, EsExcludesNew, Free, Idle
<1> QED
  BY <1>4, <1>6, <1>7, <1>8 DEF IInv

\* Every step of the MsgTask thread and of the spawned threads keeps the invariant
LEMMA StepInvariant == IInv /\ [Next]_vars => IInv'
<1> SUFFICES ASSUME IInv, [Next]_vars PROVE IInv'
  OBVIOUS
<1> USE ConstantsAssumption
<1>1. ASSUME NEW s \in Sessions, SaveRequest(s) PROVE IInv'
  BY <1>1, SaveKeepsInv
<1>2. ASSUME NEW r \in Requests, NEW a \in Responses, Respond(r, a) PROVE IInv'
  <2>1. /\ mt' = mt \/ mt' \in [pc : {"ignore", "deliver"}, session : Sessions, response : Responses]
        /\ UNCHANGED <<ni, reqIDCounter, owner, thread, taken, notified, modem>>
    BY <1>2 DEF Respond, Sessions
  <2>2. TypeOK'
    BY <1>2, <2>1 DEF Respond, IInv, TypeOK
  <2> QED
    BY <2>1, <2>2, QuietStep
<1>3. CASE SpawnThread
  BY <1>3, SpawnKeepsInv
<1>4. CASE IgnoreOther
  <2>1. ni' = [ni EXCEPT !["session"].resp = "IGNORE", !["session"].respRecvd = TRUE]
    BY <1>4 DEF IgnoreOther, Signalled
  <2>2. mt \in [pc : {"ignore", "deliver"}, session : Sessions, response : Responses]
    BY <1>4 DEF IgnoreOther, IInv, TypeOK, Idle
  <2>3. mt' = [mt EXCEPT !.pc = "deliver"]
        /\ UNCHANGED <<reqIDCounter, owner, thread, taken, notified, userVars, modem>>
    BY <1>4 DEF IgnoreOther
  <2>4. TypeOK'
    <3>1. ni' \in [Sessions -> NiSession]
      <4>1. "session" \in Sessions /\ ni \in [Sessions -> NiSession]
        BY DEF IInv, TypeOK, Sessions
      <4>2. [ni["session"] EXCEPT !.resp = "IGNORE", !.respRecvd = TRUE] \in NiSession
        BY <4>1 DEF NiSession
      <4> QED
        BY <2>1, <4>1, <4>2
    <3>2. mt' \in [pc : {"ignore", "deliver"}, session : Sessions, response : Responses]
      BY <2>2, <2>3
    <3> QED
      BY <2>3, <3>1, <3>2 DEF IInv, TypeOK, userVars
  <2>5. \A s \in Sessions : ni'[s].rawRequest = ni[s].rawRequest
    BY <2>1 DEF IInv, TypeOK, NiSession
  <2>6. mt'.pc # "spawn"
    BY <2>2, <2>3
  <2> QED
    BY <2>3, <2>4, <2>5, <2>6, QuietStep
<1>5. CASE Deliver
  <2>1. mt.session \in Sessions /\ mt.response \in Responses
    BY <1>5 DEF Deliver, IInv, TypeOK, Idle
  <2>2. /\ ni' = [ni EXCEPT ![mt.session].resp = mt.response, ![mt.session].respRecvd = TRUE]
        /\ mt' = Idle
        /\ UNCHANGED <<reqIDCounter, owner, thread, taken, notified, userVars, modem>>
    BY <1>5 DEF Deliver, Signalled
  <2>3. TypeOK'
    <3>1. ni' \in [Sessions -> NiSession]
      BY <2>1, <2>2 DEF IInv, TypeOK, NiSession
    <3> QED
      BY <2>2, <3>1 DEF IInv, TypeOK, userVars
  <2>4. \A s \in Sessions : ni'[s].rawRequest = ni[s].rawRequest
    BY <2>1, <2>2 DEF IInv, TypeOK, NiSession
  <2> QED
    BY <2>2, <2>3, <2>4, QuietStep DEF Idle
<1>6. ASSUME NEW r \in Requests, InformModem(r) PROVE IInv'
  <2>1. TypeOK'
    BY <1>6 DEF InformModem, IInv, TypeOK, userVars
  <2> QED
    BY <1>6, <2>1, QuietStep DEF InformModem
<1>7. ASSUME NEW r \in Requests, StartWait(r) PROVE IInv'
  <2>1. CASE Session(r).respRecvd /\ Finish(r, Session(r).resp)
    <3>1. Session(r).resp \in Responses \cup {"IGNORE", None}
      BY <1>7 DEF StartWait, IInv, TypeOK, NiSession, Counted, Session, None
    <3> QED
      BY <1>7, <2>1, <3>1, FinishKeepsInv DEF StartWait
  <2>2. CASE thread' = [thread EXCEPT ![r] = "waiting"]
             /\ UNCHANGED <<ni, reqIDCounter, owner, taken, notified, userVars, mt, modem>>
    <3>1. TypeOK'
      <4>1. thread' \in [Requests -> ThreadStates]
        BY <2>2 DEF IInv, TypeOK, ThreadStates
      <4> QED
        BY <2>2, <4>1 DEF IInv, TypeOK, userVars
    <3>2. \A q \in Requests : \/ thread'[q] = thread[q]
                              \/ thread[q] = "new" /\ thread'[q] = "waiting"
      <4>1. thread[r] = "new" /\ thread \in [Requests -> ThreadStates]
        BY <1>7 DEF StartWait, IInv, TypeOK
      <4> QED
        BY <2>2, <4>1
    <3> QED
      BY <2>2, <3>1, <3>2, QuietStep
  <2> QED
    BY <1>7, <2>1, <2>2 DEF StartWait
<1>8. ASSUME NEW r \in Requests, WakeUp(r) PROVE IInv'
  <2>1. Session(r).resp \in Responses \cup {"IGNORE", None}
    BY <1>8 DEF WakeUp, IInv, TypeOK, NiSession, Counted, Session, None
  <2> QED
    BY <1>8, <2>1, FinishKeepsInv DEF WakeUp
<1>9. ASSUME NEW r \in Requests, TimeOut(r) PROVE IInv'
  BY <1>9, FinishKeepsInv DEF TimeOut, Responses
<1>10. ASSUME NEW r \in Requests, ResetId(r) PROVE IInv'
  <2>1. owner[r] \in Sessions
    BY <1>10 DEF ResetId, IInv, Counted, None
  <2>2. TypeOK'
    <3>1. ni' \in [Sessions -> NiSession]
      BY <1>10, <2>1 DEF ResetId, IInv, TypeOK, NiSession
    <3>2. thread' \in [Requests -> ThreadStates]
      BY <1>10 DEF ResetId, IInv, TypeOK, ThreadStates
    <3> QED
      BY <1>10, <3>1, <3>2 DEF ResetId, IInv, TypeOK, userVars
  <2>3. \A s \in Sessions : ni'[s].rawRequest = ni[s].rawRequest
    BY <1>10, <2>1 DEF ResetId, IInv, TypeOK, NiSession
  <2>4. \A q \in Requests : \/ thread'[q] = thread[q]
                            \/ thread[q] # None /\ thread'[q] \notin {"new", "waiting"}
    <3>1. /\ thread[r] = "resetId" /\ thread \in [Requests -> ThreadStates]
          /\ \E t \in {"sent", "ended"} : thread' = [thread EXCEPT ![r] = t]
      BY <1>10 DEF ResetId, IInv, TypeOK
    <3> QED
      BY <3>1 DEF None
  <2> QED
    BY <1>10, <2>2, <2>3, <2>4, QuietStep DEF ResetId
<1>11. CASE UNCHANGED vars
  <2>1. TypeOK'
    BY <1>11 DEF vars, userVars, IInv, TypeOK
  <2> QED
    BY <1>11, <2>1, QuietStep DEF vars
<1> QED
  BY <1>1, <1>2, <1>3, <1>4, <1>5, <1>6, <1>7, <1>8, <1>9, <1>10, <1>11
     DEF Next, MsgTaskStep, ThreadStep

\* Every reachable state satisfies the inductive invariant.
THEOREM Invariance == Spec => []IInv
BY InitInvariant, StepInvariant, PTL DEF Spec

\* A waiting thread always finds its own request in its session.
THEOREM AlwaysOwnRequest == Spec => []OwnRequest
BY Invariance, PTL DEF IInv

\* Of two pending requests the emergency one always came later.
THEOREM AlwaysEsExcludesNew == Spec => []EsExcludesNew
BY Invariance, PTL DEF IInv

-----------------------------------------------------------------------------
(* On-demand position injection: GnssOdcpi                                 *)

OdcpiInv == OdcpiTypeOK /\ ActiveTimerExpires /\ EmergencyIsAsked

\* The handlers of the adapter that the modem calls leave the timer alone or
\* start it.
LEMMA StartStep ==
  ASSUME OdcpiInv, NEW emergency \in BOOLEAN, reportOdcpiStart(emergency)
  PROVE  OdcpiInv'
<1>1. OdcpiTypeOK'
  BY DEF OdcpiInv, OdcpiTypeOK, reportOdcpiStart, Ask, startTimer, Wait
<1>2. CASE (Replaces(emergency) \/ ~(mOdcpiRequestActive \/ mActive)) /\ Ask(emergency) /\ startTimer
  <2>1. ActiveTimerExpires'
    BY <1>2 DEF ActiveTimerExpires, startTimer
  <2>2. EmergencyIsAsked'
    BY <1>2 DEF EmergencyIsAsked, Ask, reportOdcpiStart
  <2> QED
    BY <1>1, <2>1, <2>2 DEF OdcpiInv
<1>3. CASE ~Replaces(emergency) /\ Wait
  <2>1. ActiveTimerExpires'
    BY <1>3 DEF OdcpiInv, ActiveTimerExpires, Wait, reportOdcpiStart
  <2>2. EmergencyIsAsked'
    BY <1>3 DEF OdcpiInv, EmergencyIsAsked, Replaces, Wait, reportOdcpiStart
  <2> QED
    BY <1>1, <2>1, <2>2 DEF OdcpiInv
<1> QED
  BY <1>2, <1>3 DEF reportOdcpiStart

\* The message of an expiry is the last trace of a timer that has stopped: its
\* handler starts the timer again or resets the flag.
LEMMA ExpiredStep ==
  ASSUME OdcpiInv, odcpiTimerExpire
  PROVE  OdcpiInv'
<1>1. OdcpiTypeOK'
  <2>1. expired' \in 0 .. MaxExpired
    BY OdcpiAssumption DEF OdcpiAssumption, OdcpiInv, OdcpiTypeOK, odcpiTimerExpire
  <2> QED
    BY <2>1 DEF OdcpiInv, OdcpiTypeOK, odcpiTimerExpire, Ask, startTimer, stopTimer
<1>2. ActiveTimerExpires'
  BY DEF ActiveTimerExpires, odcpiTimerExpire, startTimer, stopTimer
<1>3. EmergencyIsAsked'
  <2>1. mOdcpiRequest' = mOdcpiRequest
    BY DEF odcpiTimerExpire
  <2>2. asked' = mOdcpiRequest \/ asked' = asked
    BY DEF odcpiTimerExpire, Ask
  <2> QED
    BY <2>1, <2>2 DEF OdcpiInv, EmergencyIsAsked
<1> QED
  BY <1>1, <1>2, <1>3 DEF OdcpiInv

\* The thread of LocTimer: who stops a running timer is going to call back.
LEMMA TimerThreadStep ==
  ASSUME OdcpiInv, TimerStep
  PROVE  OdcpiInv'
<1>1. CASE Expire
  BY <1>1 DEF OdcpiInv, OdcpiTypeOK, ActiveTimerExpires, EmergencyIsAsked, Expire, sessionVars
<1>2. CASE stopExpired
  BY <1>2 DEF OdcpiInv, OdcpiTypeOK, ActiveTimerExpires, EmergencyIsAsked, stopExpired, sessionVars
<1>3. CASE timeOutCallback
  <2>1. expired' \in 1 .. MaxExpired
    BY <1>3, OdcpiAssumption DEF OdcpiAssumption, OdcpiInv, OdcpiTypeOK, timeOutCallback
  <2> QED
    BY <1>3, <2>1 DEF OdcpiInv, OdcpiTypeOK, ActiveTimerExpires, EmergencyIsAsked, timeOutCallback, sessionVars
<1> QED
  BY <1>1, <1>2, <1>3 DEF TimerStep

\* Every step of a handler, of the timer or of its expiry keeps the invariant.
LEMMA OdcpiStep ==
  ASSUME OdcpiInv, [OdcpiNext]_odcpiVars
  PROVE  OdcpiInv'
<1>1. CASE initOdcpi
  BY <1>1 DEF OdcpiInv, OdcpiTypeOK, ActiveTimerExpires, EmergencyIsAsked, initOdcpi
<1>2. CASE \E emergency \in BOOLEAN : reportOdcpiStart(emergency)
  BY <1>2, StartStep
<1>3. CASE reportOdcpiStop
  BY <1>3 DEF OdcpiInv, OdcpiTypeOK, ActiveTimerExpires, EmergencyIsAsked, reportOdcpiStop
<1>4. CASE restartSessions
  BY <1>4 DEF OdcpiInv, OdcpiTypeOK, ActiveTimerExpires, EmergencyIsAsked, restartSessions
<1>5. CASE odcpiTimerExpire
  BY <1>5, ExpiredStep
<1>6. CASE TimerStep
  BY <1>6, TimerThreadStep
<1>7. CASE UNCHANGED odcpiVars
  BY <1>7 DEF odcpiVars, OdcpiInv, OdcpiTypeOK, ActiveTimerExpires, EmergencyIsAsked
<1> QED
  BY <1>1, <1>2, <1>3, <1>4, <1>5, <1>6, <1>7 DEF OdcpiNext

\* The inductive invariant holds in every reachable state of the adapter's
\* session, its timer and the thread of LocTimer.
THEOREM OdcpiInvariance == OdcpiSpec => []OdcpiInv
<1>1. OdcpiInit => OdcpiInv
  <2>1. 0 \in 0 .. MaxExpired
    BY OdcpiAssumption DEF OdcpiAssumption
  <2> QED
    BY <2>1 DEF OdcpiInit, OdcpiInv, OdcpiTypeOK, ActiveTimerExpires, EmergencyIsAsked
<1>2. OdcpiInv /\ [OdcpiNext]_odcpiVars => OdcpiInv'
  BY OdcpiStep
<1> QED
  BY <1>1, <1>2, PTL DEF OdcpiSpec

\* mActive of OdcpiTimer is never left set without a LocTimer that runs, a
\* thread that is about to send its message, or a message that waits.
THEOREM AlwaysActiveTimerExpires == OdcpiSpec => []ActiveTimerExpires
<1>1. OdcpiInv => ActiveTimerExpires
  BY DEF OdcpiInv
<1> QED
  BY <1>1, OdcpiInvariance, PTL

\* A session remembered as an emergency is one the framework was asked for as
\* an emergency, whatever requests were merged into it.
THEOREM AlwaysEmergencyIsAsked == OdcpiSpec => []EmergencyIsAsked
<1>1. OdcpiInv => EmergencyIsAsked
  BY DEF OdcpiInv
<1> QED
  BY <1>1, OdcpiInvariance, PTL
=============================================================================
