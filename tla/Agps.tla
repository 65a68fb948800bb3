------------------------------- MODULE Agps --------------------------------
(***************************************************************************)
(* The AGPS connection manager of gps/gnss/Agps.{h,cpp}: the modem asks    *)
(* the adapter to open and close assisted-GPS data connections (ATL        *)
(* requests, one connection handle each), and one state machine per kind   *)
(* of connection (SM) shares a single data connection among the handles    *)
(* subscribed to it.  Two SMs bring the connection up through the Android  *)
(* framework, the third (DSStateMachine) through the data-services client  *)
(* used for emergency SUPL; it retries a busy client on a timer and falls  *)
(* back to the SUPL machine when the call cannot be set up.                *)
(*                                                                         *)
(* Every handler runs on the adapter's MsgTask thread and is one step.     *)
(* The requests of the modem and the requests the DS machine posts to      *)
(* itself wait in `queue'.  The connection provider of each SM serves the  *)
(* commands it was given in order: a report is handled in the step that    *)
(* takes its command off `cmds', however late that is.                     *)
(***************************************************************************)
EXTENDS Integers, Sequences, FiniteSets

CONSTANTS
  Handles,     \* connection handles the modem uses
  ReqTypes,    \* kinds of connection the modem asks for, a subset of AgpsTypes
  UsePdn,      \* USE_EMERGENCY_PDN_FOR_EMERGENCY_SUPL of gps.conf
  MaxRetries,  \* MAX_START_DATA_CALL_RETRIES
  MaxCmds,     \* bound: unanswered commands per provider
  MaxQueue,    \* bound: queue length up to which messages are posted from outside
  MaxTimers    \* bound: retry timers running at once

AgpsTypes == {"SUPL", "SUPL_ES", "WWAN_ANY"}
SMs       == {"AGNSS", "INTERNET", "DS"}
States    == {"RELEASED", "PENDING", "ACQUIRED", "RELEASING"}

ASSUME ConstantsAssumption ==
  /\ IsFiniteSet(Handles)
  /\ ReqTypes \subseteq AgpsTypes
  /\ UsePdn \in BOOLEAN
  /\ {MaxRetries, MaxCmds, MaxQueue, MaxTimers} \subseteq Nat

None == "none"
ASSUME NoneAssumption == None \notin Handles

VARIABLES
  state,    \* mState of each SM
  list,     \* mSubscriberList of each SM
  dsReady,  \* mDsNif # NULL
  retries,  \* mRetries of the DS machine
  timers,   \* number of retry timers started and not yet fired
  pick,     \* handle retryCallback has read and not posted yet, on the timer thread
  queue,    \* messages waiting for the MsgTask thread
  cmds,     \* commands each connection provider has not answered yet
  up,       \* SMs whose data connection is up, as the provider knows it
  atl       \* each handle as the modem sees it

dsVars == <<dsReady, retries, timers, pick>>
vars   == <<state, list, dsReady, retries, timers, pick, queue, cmds, up, atl>>

-----------------------------------------------------------------------------
(* Subscriber lists.  A std::list of subscribers with distinct handles is  *)
(* its set of handles, the relation "stands before" on them, and the sets  *)
(* of those with mIsInactive and with mWaitForCloseComplete set.           *)

SubscriberList ==
  [subs : SUBSET Handles, before : SUBSET (Handles \X Handles),
   inactive : SUBSET Handles, waits : SUBSET Handles]

EmptyList == [subs |-> {}, before |-> {}, inactive |-> {}, waits |-> {}]

addSubscriber(l, h, wait) ==
  IF h \in l.subs
    THEN l
    ELSE [subs     |-> l.subs \cup {h},
          before   |-> l.before \cup (l.subs \X {h}),
          inactive |-> l.inactive,
          waits    |-> IF wait THEN l.waits \cup {h} ELSE l.waits]

deleteSubscribers(l, gone) ==
  LET kept == l.subs \ gone
  IN  [subs     |-> kept,
       before   |-> l.before \cap (kept \X kept),
       inactive |-> l.inactive \ gone,
       waits    |-> l.waits \ gone]

active(l) == l.subs \ l.inactive

\* h is what getFirstSubscriber(false) returns
FirstActive(l, h) ==
  /\ h \in active(l)
  /\ \A g \in active(l) : <<g, h>> \notin l.before

\* The list traversed front to back
ListOrders(l) ==
  {s \in [1 .. Cardinality(l.subs) -> l.subs] :
     \A i, j \in DOMAIN s : i < j => <<s[i], s[j]>> \in l.before}

-----------------------------------------------------------------------------
(* Messages, and what the modem makes of the notifications it gets.        *)

RequestATL(h, type) == [kind |-> "requestATL", handle |-> h, type |-> type]
ReleaseATL(h)       == [kind |-> "releaseATL", handle |-> h]

Messages == [kind : {"requestATL"}, handle : Handles, type : AgpsTypes]
              \cup [kind : {"releaseATL"}, handle : Handles]

ModemStates == {"idle", "asked", "open", "closing"}

\* mAtlOpenStatusCb(h, ok) for every h of hs
AtlOpenStatus(hs, ok) ==
  [h \in Handles |-> IF h \in hs /\ atl[h] = "asked"
                       THEN IF ok THEN "open" ELSE "idle"
                       ELSE atl[h]]

\* mAtlCloseStatusCb(h, 1) for every h of hs
AtlCloseStatus(hs) == [h \in Handles |-> IF h \in hs THEN "idle" ELSE atl[h]]

\* mAtlCloseStatusCb(h, 0): nothing to close, of no interest to a newer request
AtlCloseFailed(h) == [atl EXCEPT ![h] = IF @ = "closing" THEN "idle" ELSE @]

-----------------------------------------------------------------------------
(* requestOrReleaseDataConn.  c and q are the command queues and the       *)
(* message queue without what the handler that runs has taken off them.    *)

Commanded(c, sm, cmd) ==
  /\ Len(c[sm]) < MaxCmds
  /\ cmds' = [c EXCEPT ![sm] = Append(@, cmd)]

\* Mutant: the release command is not sent
ReleaseDataConn_dropped(sm, c) == cmds' = c

ReleaseDataConn(sm, c) == Commanded(c, sm, "RELEASE")

\* The framework takes every request; `ok' is "returned 0".
FrameworkRequest(sm, c, q, ok) ==
  /\ ok
  /\ Commanded(c, sm, "REQUEST")
  /\ queue' = q
  /\ UNCHANGED <<retries, timers>>

NoActiveSubscriber(l, c, q, ok) ==
  /\ active(l) = {}
  /\ ~ok
  /\ cmds' = c
  /\ queue' = q
  /\ UNCHANGED <<retries, timers>>

\* mDSClientOpenAndStartDataCallFn returns SUCCESS
DataCallStarted(l, c, q, ok) ==
  /\ active(l) # {}
  /\ FrameworkRequest("DS", c, q, ok)

\* DENIED notified to subscriber h of the DS machine: fall back to SUPL
FallBack(h, q) ==
  /\ retries' = 0
  /\ queue' = Append(q, RequestATL(h, "SUPL"))

\* It returns ENGINE_BUSY: retry later, or give up
DataCallBusy(l, c, q, ok) ==
  /\ ~ok
  /\ cmds' = c
  /\ \E h \in active(l) :
       /\ FirstActive(l, h)
       /\ \/ /\ retries + 1 > MaxRetries
             /\ FallBack(h, q)
             /\ UNCHANGED timers
          \/ /\ retries + 1 <= MaxRetries
             /\ timers < MaxTimers
             /\ retries' = retries + 1
             /\ timers' = timers + 1
             /\ queue' = q

\* It returns UNSUPPORTED: no emergency profile
DataCallUnsupported(l, c, q, ok) ==
  /\ ~ok
  /\ cmds' = c
  /\ \E h \in active(l) : FirstActive(l, h) /\ FallBack(h, q)
  /\ UNCHANGED timers

\* It returns anything else
DataCallFailed(l, c, q, ok) ==
  /\ active(l) # {}
  /\ ~ok
  /\ cmds' = c
  /\ queue' = q
  /\ UNCHANGED <<retries, timers>>

RequestDataConn(sm, l, c, q, ok) ==
  \/ sm # "DS" /\ FrameworkRequest(sm, c, q, ok)
  \/ /\ sm = "DS"
     /\ \/ NoActiveSubscriber(l, c, q, ok)
        \/ DataCallStarted(l, c, q, ok)
        \/ DataCallBusy(l, c, q, ok)
        \/ DataCallUnsupported(l, c, q, ok)
        \/ DataCallFailed(l, c, q, ok)

-----------------------------------------------------------------------------
(* AgpsStateMachine::processAgpsEvent, one operator per event.             *)

SetSM(sm, newState, newList) ==
  /\ state' = [state EXCEPT ![sm] = newState]
  /\ list'  = [list EXCEPT ![sm] = newList]

Quiet(c, q) ==
  /\ cmds' = c
  /\ queue' = q
  /\ UNCHANGED <<retries, timers>>

Ignore(c, q) == Quiet(c, q) /\ UNCHANGED <<state, list, atl>>

Subscribe(sm, h, wait, c, q) ==
  LET l == addSubscriber(list[sm], h, wait)
  IN  \/ /\ state[sm] = "RELEASED"
         /\ \E ok \in BOOLEAN :
              /\ RequestDataConn(sm, l, c, q, ok)
              /\ SetSM(sm, IF ok THEN "PENDING" ELSE "RELEASED", l)
         /\ UNCHANGED atl
      \/ /\ state[sm] \in {"PENDING", "RELEASING"}
         /\ SetSM(sm, state[sm], l)
         /\ Quiet(c, q)
         /\ UNCHANGED atl
      \/ /\ state[sm] = "ACQUIRED"
         /\ atl' = AtlOpenStatus({h}, TRUE)
         /\ SetSM(sm, "ACQUIRED", l)
         /\ Quiet(c, q)

\* Mutant: the connection is released only when the list is empty
Unsubscribe_onlyEmpty(sm, h, c, q) ==
  LET waits == h \in list[sm].waits
      l     == IF waits THEN [list[sm] EXCEPT !.inactive = @ \cup {h}]
                        ELSE deleteSubscribers(list[sm], {h})
  IN  /\ atl' = AtlCloseStatus(IF waits THEN {} ELSE {h})
      /\ SetSM(sm, IF l.subs = {} THEN "RELEASED" ELSE state[sm], l)
      /\ Quiet(c, q)

\* The subscriber is kept inactive until the close, or told and dropped
Unsubscribe(sm, h, c, q) ==
  LET waits == h \in list[sm].waits
      l     == IF waits THEN [list[sm] EXCEPT !.inactive = @ \cup {h}]
                        ELSE deleteSubscribers(list[sm], {h})
      told  == IF waits THEN {} ELSE {h}
  IN  \/ /\ state[sm] = "RELEASED"
         /\ atl' = AtlCloseStatus({h})
         /\ Quiet(c, q)
         /\ UNCHANGED <<state, list>>
      \/ /\ state[sm] \in {"PENDING", "ACQUIRED"}
         /\ atl' = AtlCloseStatus(told)
         /\ \/ /\ active(l) = {}
               /\ SetSM(sm, IF l.subs = {} THEN "RELEASED" ELSE "RELEASING", l)
               /\ ReleaseDataConn(sm, c)
               /\ queue' = q
               /\ UNCHANGED <<retries, timers>>
            \/ /\ active(l) # {}
               /\ SetSM(sm, state[sm], l)
               /\ Quiet(c, q)
      \/ /\ state[sm] = "RELEASING"
         /\ atl' = AtlCloseStatus(told)
         /\ SetSM(sm, IF l.subs = {} THEN "RELEASED" ELSE "RELEASING", l)
         /\ Quiet(c, q)

Granted(sm, c, q) ==
  \/ /\ state[sm] = "PENDING"
     /\ atl' = AtlOpenStatus(active(list[sm]), TRUE)
     /\ SetSM(sm, "ACQUIRED", list[sm])
     /\ Quiet(c, q)
  \/ state[sm] # "PENDING" /\ Ignore(c, q)

\* Mutant: the active subscribers are dropped too
CloseComplete_dropsAll(sm, c, q) ==
  /\ state[sm] = "RELEASING"
  /\ atl' = AtlCloseStatus(list[sm].inactive)
  /\ SetSM(sm, "RELEASED", EmptyList)
  /\ Quiet(c, q)

\* Mutant: subscribers are dropped and not told
CloseComplete_silent(sm, c, q) ==
  LET l == deleteSubscribers(list[sm], list[sm].inactive)
  IN  /\ state[sm] = "RELEASING"
      /\ SetSM(sm, IF active(l) = {} THEN "RELEASED" ELSE "PENDING", l)
      /\ Quiet(c, q)
      /\ UNCHANGED atl

\* Mutant: PENDING again, without a new request
CloseComplete_noRequest(sm, c, q) ==
  LET l == deleteSubscribers(list[sm], list[sm].inactive)
  IN  /\ state[sm] = "RELEASING"
      /\ atl' = AtlCloseStatus(list[sm].inactive)
      /\ SetSM(sm, IF active(l) = {} THEN "RELEASED" ELSE "PENDING", l)
      /\ Quiet(c, q)

\* RELEASED, or DENIED, while RELEASING
CloseComplete(sm, c, q) ==
  LET l == deleteSubscribers(list[sm], list[sm].inactive)
  IN  /\ state[sm] = "RELEASING"
      /\ atl' = AtlCloseStatus(list[sm].inactive)
      /\ \/ /\ active(l) # {}
            /\ SetSM(sm, "PENDING", l)
            /\ \E ok \in BOOLEAN : RequestDataConn(sm, l, c, q, ok)
         \/ /\ active(l) = {}
            /\ SetSM(sm, "RELEASED", l)
            /\ Quiet(c, q)

Denied(sm, c, q) ==
  \/ state[sm] \in {"RELEASED", "ACQUIRED"} /\ Ignore(c, q)
  \/ CloseComplete(sm, c, q)
  \/ /\ state[sm] = "PENDING"
     /\ SetSM(sm, "RELEASED", EmptyList)
     /\ cmds' = c
     /\ UNCHANGED timers
     /\ \/ /\ sm # "DS"
           /\ atl' = AtlOpenStatus(list[sm].subs, FALSE)
           /\ queue' = q
           /\ UNCHANGED retries
        \/ /\ sm = "DS"
           /\ \E s \in ListOrders(list[sm]) :
                queue' = q \o [i \in DOMAIN s |-> RequestATL(s[i], "SUPL")]
           /\ retries' = IF list[sm].subs = {} THEN retries ELSE 0
           /\ UNCHANGED atl

\* Mutant: a forced release is ignored
Released_unforced(sm, c, q) ==
  \/ state[sm] \in {"RELEASED", "ACQUIRED"} /\ Ignore(c, q)
  \/ state[sm] = "PENDING" /\ sm # "DS" /\ Ignore(c, q)
  \/ state[sm] = "PENDING" /\ sm = "DS" /\ Denied(sm, c, q)
  \/ CloseComplete(sm, c, q)

\* DSStateMachine::processAgpsEvent takes RELEASED while PENDING for DENIED
Released(sm, c, q) ==
  \/ state[sm] = "RELEASED" /\ Ignore(c, q)
  \/ state[sm] = "PENDING" /\ sm # "DS" /\ Ignore(c, q)
  \/ state[sm] = "PENDING" /\ sm = "DS" /\ Denied(sm, c, q)
  \/ /\ state[sm] = "ACQUIRED"
     /\ atl' = AtlCloseStatus(list[sm].subs)
     /\ SetSM(sm, "RELEASED", EmptyList)
     /\ Quiet(c, q)
  \/ CloseComplete(sm, c, q)

-----------------------------------------------------------------------------
(* AgpsManager: messages handled by the MsgTask thread.                    *)

getAgpsStateMachine(type) ==
  CASE type = "SUPL"     -> "AGNSS"
    [] type = "SUPL_ES"  -> IF UsePdn THEN "DS" ELSE "AGNSS"
    [] type = "WWAN_ANY" -> "INTERNET"

\* The DS machine is created when it is first needed, if its client initialises
CreateDs(sm) ==
  IF sm = "DS" /\ ~dsReady THEN dsReady' \in BOOLEAN ELSE UNCHANGED dsReady

ProcRequestATL ==
  /\ queue # <<>> /\ Head(queue).kind = "requestATL"
  /\ LET h  == Head(queue).handle
         t  == Head(queue).type
         sm == getAgpsStateMachine(t)
     IN  /\ CreateDs(sm)
         /\ \/ /\ sm = "DS" /\ ~dsReady'
               /\ atl' = AtlOpenStatus({h}, FALSE)
               /\ Quiet(cmds, Tail(queue))
               /\ UNCHANGED <<state, list>>
            \/ /\ sm # "DS" \/ dsReady'
               /\ Subscribe(sm, h, t = "SUPL_ES", cmds, Tail(queue))
  /\ UNCHANGED <<pick, up>>

\* The machines are searched in this order
HolderOf(h, sm) ==
  /\ h \in list[sm].subs
  /\ sm = "INTERNET" => h \notin list["AGNSS"].subs
  /\ sm = "DS" => h \notin list["AGNSS"].subs \cup list["INTERNET"].subs

ProcReleaseATL ==
  /\ queue # <<>> /\ Head(queue).kind = "releaseATL"
  /\ LET h == Head(queue).handle
     IN  \/ \E sm \in SMs :
              HolderOf(h, sm) /\ Unsubscribe(sm, h, cmds, Tail(queue))
         \/ /\ \A sm \in SMs : h \notin list[sm].subs
            /\ atl' = AtlCloseFailed(h)
            /\ Quiet(cmds, Tail(queue))
            /\ UNCHANGED <<state, list>>
  /\ UNCHANGED <<dsReady, pick, up>>

-----------------------------------------------------------------------------
(* The connection providers: the framework for AGNSS and INTERNET, the     *)
(* data-services client for DS, which reports a failure as a closure.      *)

Served(sm) == [cmds EXCEPT ![sm] = Tail(@)]

\* reportAtlOpenSuccess, reportDataCallOpened
ReportOpened(sm) ==
  /\ cmds[sm] # <<>> /\ Head(cmds[sm]) = "REQUEST"
  /\ up' = up \cup {sm}
  /\ Granted(sm, Served(sm), queue)
  /\ UNCHANGED <<dsReady, pick>>

\* reportAtlOpenFailed, or reportDataCallClosed for a call that failed
ReportOpenFailed(sm) ==
  /\ cmds[sm] # <<>> /\ Head(cmds[sm]) = "REQUEST"
  /\ sm \notin up
  /\ IF sm = "DS" THEN Released(sm, Served(sm), queue)
                  ELSE Denied(sm, Served(sm), queue)
  /\ UNCHANGED <<dsReady, pick, up>>

\* reportAtlClosed, reportDataCallClosed
ReportClosed(sm) ==
  /\ cmds[sm] # <<>> /\ Head(cmds[sm]) = "RELEASE"
  /\ up' = up \ {sm}
  /\ Released(sm, Served(sm), queue)
  /\ UNCHANGED <<dsReady, pick>>

\* The same reports when a connection that was up is lost
ReportLost(sm) ==
  /\ sm \in up
  /\ up' = up \ {sm}
  /\ Released(sm, cmds, queue)
  /\ UNCHANGED <<dsReady, pick>>

-----------------------------------------------------------------------------
(* The retry timer.  retryCallback runs on the timer thread, without the   *)
(* MsgTask thread: what it reads can be stale when it posts the message.   *)

RetryRead ==
  /\ timers > 0 /\ pick = None
  /\ timers' = timers - 1
  /\ \/ active(list["DS"]) = {} /\ UNCHANGED pick
     \/ \E h \in Handles : FirstActive(list["DS"], h) /\ pick' = h
  /\ UNCHANGED <<state, list, dsReady, retries, queue, cmds, up, atl>>

RetryPost ==
  /\ pick # None
  /\ Len(queue) < MaxQueue
  /\ queue' = Append(queue, RequestATL(pick, "SUPL_ES"))
  /\ pick' = None
  /\ UNCHANGED <<state, list, dsReady, retries, timers, cmds, up, atl>>

-----------------------------------------------------------------------------
(* The modem (QMI thread): GnssAdapter::requestATL, requestSuplES and      *)
(* releaseATL post a message.  It uses a handle for one request at a time, *)
(* and does not release it again while its release waits to be handled.    *)

Queued(msg) == \E i \in 1 .. Len(queue) : queue[i] = msg

ModemRequest(h, type) ==
  /\ atl[h] = "idle"
  /\ Len(queue) < MaxQueue
  /\ atl' = [atl EXCEPT ![h] = "asked"]
  /\ queue' = Append(queue, RequestATL(h, type))
  /\ UNCHANGED <<state, list, dsReady, retries, timers, pick, cmds, up>>

ModemRelease(h) ==
  /\ atl[h] \in {"asked", "open"}
  /\ ~ Queued(ReleaseATL(h))
  /\ Len(queue) < MaxQueue
  /\ atl' = [atl EXCEPT ![h] = "closing"]
  /\ queue' = Append(queue, ReleaseATL(h))
  /\ UNCHANGED <<state, list, dsReady, retries, timers, pick, cmds, up>>

-----------------------------------------------------------------------------
Init ==
  /\ state = [sm \in SMs |-> "RELEASED"]
  /\ list = [sm \in SMs |-> EmptyList]
  /\ dsReady \in (IF UsePdn THEN BOOLEAN ELSE {FALSE})
  /\ retries = 0
  /\ timers = 0
  /\ pick = None
  /\ queue = <<>>
  /\ cmds = [sm \in SMs |-> <<>>]
  /\ up = {}
  /\ atl = [h \in Handles |-> "idle"]

MsgTask == ProcRequestATL \/ ProcReleaseATL

Provider(sm) ==
  ReportOpened(sm) \/ ReportOpenFailed(sm) \/ ReportClosed(sm)

Next ==
  \/ MsgTask
  \/ \E sm \in SMs : Provider(sm) \/ ReportLost(sm)
  \/ RetryRead
  \/ RetryPost
  \/ \E h \in Handles :
       ModemRelease(h) \/ \E type \in ReqTypes : ModemRequest(h, type)

Spec == Init /\ [][Next]_vars

\* The threads run and the providers answer every command; the modem owes nothing
Fairness ==
  /\ WF_vars(MsgTask)
  /\ WF_vars(RetryRead)
  /\ WF_vars(RetryPost)
  /\ \A sm \in SMs : WF_vars(Provider(sm))

FairSpec == Spec /\ Fairness

-----------------------------------------------------------------------------
(* Properties.                                                             *)

\* Every variable keeps its type: the handlers never leave a list that is
\* not a list, a retry count above its limit, or a message of no kind.
TypeOK ==
  /\ state \in [SMs -> States]
  /\ list \in [SMs -> SubscriberList]
  /\ dsReady \in BOOLEAN
  /\ retries \in 0 .. MaxRetries
  /\ timers \in Nat
  /\ pick \in Handles \cup {None}
  /\ queue \in Seq(Messages)
  /\ cmds \in [SMs -> Seq({"REQUEST", "RELEASE"})]
  /\ up \in SUBSET SMs
  /\ atl \in [Handles -> ModemStates]

FrameworkSMs == SMs \ {"DS"}

Outstanding(sm, cmd) == \E i \in 1 .. Len(cmds[sm]) : cmds[sm][i] = cmd

RequestQueued(h) == \E type \in AgpsTypes : Queued(RequestATL(h, type))

\* A machine that waits for its provider waits for a command it has given
\* and that is not answered yet: no state it cannot leave.  (The DS machine
\* can enter PENDING without a call, since the result of the request that
\* follows a close is ignored.)
WaitsForAnAnswer ==
  \A sm \in SMs :
    /\ state[sm] = "RELEASING" => Outstanding(sm, "RELEASE")
    /\ sm \in FrameworkSMs /\ state[sm] = "PENDING" => Outstanding(sm, "REQUEST")

\* The state of a machine and its subscriber list agree: a connection is
\* asked for or kept only for an active subscriber, a machine that closes
\* has somebody to tell, and a framework machine at rest has no subscriber.
ListMatchesState ==
  \A sm \in SMs :
    /\ state[sm] \in {"PENDING", "ACQUIRED"} => active(list[sm]) # {}
    /\ state[sm] = "RELEASING" => list[sm].inactive # {}
    /\ sm \in FrameworkSMs /\ state[sm] = "RELEASED" => list[sm].subs = {}

\* A handle the modem has been granted and not released is served by a
\* machine whose connection really is up.
GrantIsServed ==
  \A h \in Handles : atl[h] = "open" =>
    \E sm \in up : state[sm] = "ACQUIRED" /\ h \in active(list[sm])

\* A subscriber that leaves the DS machine has been told so or is handed to the
\* SUPL machine; no step forgets one.
LeavesWithANotice ==
  [][\A h \in list["DS"].subs \ list'["DS"].subs :
       atl'[h] = "idle" \/ Queued(RequestATL(h, "SUPL"))']_vars

\* A request the modem has no answer to is still known: as a message that
\* waits or as an active subscriber of a machine that will be answered.
AskedIsTracked ==
  \A h \in Handles : atl[h] = "asked" =>
    \/ RequestQueued(h)
    \/ \E sm \in SMs : h \in active(list[sm]) /\ state[sm] \in {"PENDING", "RELEASING"}

\* The modem gets an answer to every request it makes and does not withdraw.
RequestIsAnswered == \A h \in Handles : atl[h] = "asked" ~> atl[h] # "asked"

-----------------------------------------------------------------------------
(* What a comment of Agps.cpp says, and the code does not do.              *)

\* Agps.cpp:141: without subscribers the data connection is released.
NoIdleConnection ==
  \A sm \in up : cmds[sm] = <<>> => list[sm].subs # {}
=============================================================================
