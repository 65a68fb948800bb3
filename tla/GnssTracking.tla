---------------------------- MODULE GnssTracking ----------------------------
(***************************************************************************)
(* Time-based tracking in gps/gnss/GnssAdapter.cpp.  The modem's engine    *)
(* runs one fix at a time, so the adapter multiplexes the tracking         *)
(* sessions of its clients: the engine runs with the options of a session  *)
(* whose interval is smallest.  Commands are messages, handled one by one  *)
(* on the adapter's MsgTask thread; the handler that removes a client      *)
(* calls the engine several times, once in each step here.  Calls into the *)
(* engine can fail, the engine can go down between any two calls and, when *)
(* it is back, a message restarts the sessions.                            *)
(*                                                                         *)
(* The adapter is modelled as it runs without a ULP library, that is with  *)
(* UlpProxyBase, whose send operations do nothing and return false.        *)
(***************************************************************************)
EXTENDS Integers, FiniteSets

CONSTANTS
  Clients,      \* LocationAPI objects
  None,         \* no client
  MaxId,        \* bound: session ids given out
  Intervals,    \* values of minInterval
  Modes,        \* the rest of the options, as far as the engine cares
  MaxRestarts   \* bound: restart messages waiting at once

ASSUME ConstantsAssumption ==
  /\ None \notin Clients
  /\ MaxId \in Nat /\ MaxRestarts \in Nat
  /\ Intervals \subseteq Nat

Ids     == 1 .. MaxId
Keys    == Clients \X Ids                        \* LocationSessionKey
Options == [minInterval : Intervals, mode : Modes]
Off     == [minInterval |-> -1, mode |-> None]    \* no fix is running

VARIABLES
  registered,  \* mClientData: clients with a tracking or measurements callback
  sessions,    \* mTrackingSessions: a function from some keys to their options
  nextId,      \* the id generateSessionId gives next
  engine,      \* the options of the fix the engine runs, or Off
  engineUp,    \* is the modem up?
  failed,      \* history: has a call failed since the engine last came up?
  restarts,    \* MsgRestartSessions messages not handled yet
  removing,    \* the client whose MsgRemoveClient is being handled, or None
  unvisited    \* the sessions the loop of stopClientSessions has not reached

vars == <<registered, sessions, nextId, engine, engineUp, failed, restarts, removing, unvisited>>
loopVars == <<removing, unvisited>>

Live == DOMAIN sessions

Saved(key, options) ==
  [k \in Live \cup {key} |-> IF k = key THEN options ELSE sessions[k]]

Erased(key) == [k \in Live \ {key} |-> sessions[k]]

\* The session the search over the keys ks finds: of those with the smallest
\* interval the first one in the order of the map, which is that of the ids
IsFastest(ks, k) ==
  /\ k \in ks
  /\ \A j \in ks \ {k} :
       \/ sessions[k].minInterval < sessions[j].minInterval
       \/ sessions[k].minInterval = sessions[j].minInterval /\ k[2] <= j[2]

-----------------------------------------------------------------------------
(* Calls into the engine; ok is LOCATION_ERROR_SUCCESS.  Nothing is known  *)
(* of what a call returns while the engine is down.                        *)

EngineCall(options, ok) ==
  \/ engineUp /\ ok /\ engine' = options /\ UNCHANGED failed
  \/ engineUp /\ ~ok /\ failed' = TRUE /\ UNCHANGED engine
  \/ ~engineUp /\ UNCHANGED <<engine, failed>>

startTracking(options, ok) == EngineCall(options, ok)

stopTracking(ok) == EngineCall(Off, ok)

NoEngineCall(ok) == ok /\ UNCHANGED <<engine, failed>>

startTrackingMultiplex(options, ok) ==
  \/ Live = {} /\ startTracking(options, ok)
  \/ \E k \in Live :
       /\ IsFastest(Live, k)
       /\ \/ options.minInterval < sessions[k].minInterval /\ startTracking(options, ok)
          \/ options.minInterval >= sessions[k].minInterval /\ NoEngineCall(ok)

\* A bug to break the properties with: only the old interval decides
updateTrackingMultiplex_ignoresNew(key, options, ok) ==
  \/ Live = {key} /\ startTracking(options, ok)
  \/ \E k \in Live \ {key} :
       /\ IsFastest(Live \ {key}, k)
       /\ \/ /\ sessions[key].minInterval < sessions[k].minInterval
             /\ startTracking(sessions[k], ok)
          \/ /\ sessions[key].minInterval >= sessions[k].minInterval
             /\ NoEngineCall(ok)

updateTrackingMultiplex(key, options, ok) ==
  \/ Live = {key} /\ startTracking(options, ok)
  \/ \E k \in Live \ {key} :
       /\ IsFastest(Live \ {key}, k)
       /\ \/ /\ options.minInterval < sessions[k].minInterval
             /\ startTracking(options, ok)
          \/ /\ options.minInterval >= sessions[k].minInterval
             /\ sessions[key].minInterval < sessions[k].minInterval
             /\ startTracking(sessions[k], ok)
          \/ /\ options.minInterval >= sessions[k].minInterval
             /\ sessions[key].minInterval >= sessions[k].minInterval
             /\ NoEngineCall(ok)

stopTrackingMultiplex_stopsFastest(key, ok) ==
  \/ Live = {key} /\ stopTracking(ok)
  \/ \E k \in Live \ {key} :
       /\ IsFastest(Live \ {key}, k)
       /\ \/ /\ sessions[key].minInterval < sessions[k].minInterval
             /\ stopTracking(ok)
          \/ /\ sessions[key].minInterval >= sessions[k].minInterval
             /\ NoEngineCall(ok)

stopTrackingMultiplex(key, ok) ==
  \/ Live = {key} /\ stopTracking(ok)
  \/ \E k \in Live \ {key} :
       /\ IsFastest(Live \ {key}, k)
       /\ \/ /\ sessions[key].minInterval < sessions[k].minInterval
             /\ startTracking(sessions[k], ok)
          \/ /\ sessions[key].minInterval >= sessions[k].minInterval
             /\ NoEngineCall(ok)

-----------------------------------------------------------------------------
(* Commands: each is handled when no handler is under way.                 *)

\* addClientCommand and updateCallbacks: with or without callbacks for fixes
SaveClient(c) ==
  /\ removing = None
  /\ registered' \in {registered \cup {c}, registered \ {c}}
  /\ UNCHANGED <<sessions, nextId, engine, engineUp, failed, restarts, loopVars>>

\* Without a callback the command is refused, but the id is used up
StartTracking(c, options) ==
  /\ removing = None
  /\ nextId <= MaxId
  /\ nextId' = nextId + 1
  /\ \/ c \notin registered /\ UNCHANGED <<sessions, engine, failed>>
     \/ /\ c \in registered
        /\ \E ok \in BOOLEAN :
             /\ startTrackingMultiplex(options, ok)
             /\ sessions' = IF ok THEN Saved(<<c, nextId>>, options) ELSE sessions
  /\ UNCHANGED <<registered, engineUp, restarts, loopVars>>

UpdateTracking(c, id, options) ==
  /\ removing = None
  /\ <<c, id>> \in Live
  /\ \E ok \in BOOLEAN :
       /\ updateTrackingMultiplex(<<c, id>>, options, ok)
       /\ sessions' = IF ok THEN Saved(<<c, id>>, options) ELSE sessions
  /\ UNCHANGED <<registered, nextId, engineUp, restarts, loopVars>>

StopTracking(c, id) ==
  /\ removing = None
  /\ <<c, id>> \in Live
  /\ \E ok \in BOOLEAN :
       /\ stopTrackingMultiplex(<<c, id>>, ok)
       /\ sessions' = IF ok THEN Erased(<<c, id>>) ELSE sessions
  /\ UNCHANGED <<registered, nextId, engineUp, restarts, loopVars>>

RemoveClient(c) ==
  /\ removing = None
  /\ removing' = c
  /\ unvisited' = {k \in Live : k[1] = c}
  /\ UNCHANGED <<registered, sessions, nextId, engine, engineUp, failed, restarts>>

\* One turn of stopClientSessions: a session whose stop fails is kept
StopNextSession ==
  \E key \in unvisited, ok \in BOOLEAN :
    /\ \A k \in unvisited : key[2] <= k[2]
    /\ stopTrackingMultiplex(key, ok)
    /\ sessions' = IF ok THEN Erased(key) ELSE sessions
    /\ unvisited' = unvisited \ {key}
    /\ UNCHANGED <<registered, nextId, engineUp, restarts, removing>>

eraseClient ==
  /\ removing # None /\ unvisited = {}
  /\ registered' = registered \ {removing}
  /\ removing' = None
  /\ UNCHANGED <<sessions, nextId, engine, engineUp, failed, restarts, unvisited>>

-----------------------------------------------------------------------------
(* The engine goes down and comes back at any time.                        *)

EngineDown ==
  /\ engineUp
  /\ engineUp' = FALSE /\ engine' = Off
  /\ UNCHANGED <<registered, sessions, nextId, failed, restarts, loopVars>>

EngineUp_forgetsSessions ==
  /\ ~engineUp
  /\ engineUp' = TRUE /\ failed' = FALSE
  /\ UNCHANGED <<registered, sessions, nextId, engine, restarts, loopVars>>

EngineUp ==
  /\ ~engineUp /\ restarts < MaxRestarts
  /\ engineUp' = TRUE /\ failed' = FALSE /\ restarts' = restarts + 1
  /\ UNCHANGED <<registered, sessions, nextId, engine, loopVars>>

\* A restart message that leaves the sessions alone
RestartSessions_idle ==
  /\ removing = None
  /\ restarts > 0 /\ restarts' = restarts - 1
  /\ UNCHANGED <<registered, sessions, nextId, engine, engineUp, failed, loopVars>>

\* The result of startFix is ignored
RestartSessions ==
  /\ removing = None
  /\ restarts > 0 /\ restarts' = restarts - 1
  /\ \/ Live = {} /\ UNCHANGED <<engine, failed>>
     \/ \E k \in Live, ok \in BOOLEAN : IsFastest(Live, k) /\ EngineCall(sessions[k], ok)
  /\ UNCHANGED <<registered, sessions, nextId, engineUp, loopVars>>

-----------------------------------------------------------------------------
Init ==
  /\ registered = {}
  /\ sessions = [k \in {} |-> Off]
  /\ nextId = 1
  /\ engine = Off /\ engineUp = TRUE /\ failed = FALSE
  /\ restarts = 0
  /\ removing = None /\ unvisited = {}

Next ==
  \/ \E c \in Clients : SaveClient(c) \/ RemoveClient(c)
  \/ \E c \in Clients, o \in Options : StartTracking(c, o)
  \/ \E c \in Clients, i \in Ids, o \in Options : UpdateTracking(c, i, o)
  \/ \E c \in Clients, i \in Ids : StopTracking(c, i)
  \/ StopNextSession \/ eraseClient
  \/ EngineDown \/ EngineUp \/ RestartSessions

Spec == Init /\ [][Next]_vars

\* MsgTask goes on handling its messages and nobody has to send any.  The queue
\* is a FIFO one: a restart message cannot be overtaken for ever by commands.
FairSpec ==
  Spec /\ WF_vars(StopNextSession) /\ WF_vars(eraseClient) /\ SF_vars(RestartSessions)

-----------------------------------------------------------------------------
(* Properties.                                                             *)

TypeOK ==
  /\ registered \subseteq Clients
  /\ Live \subseteq Keys
  /\ sessions = [k \in Live |-> sessions[k]]
  /\ \A k \in Live : sessions[k] \in Options /\ k[2] < nextId
  /\ nextId \in 1 .. MaxId + 1
  /\ engine \in Options \cup {Off}
  /\ engineUp \in BOOLEAN /\ failed \in BOOLEAN
  /\ restarts \in 0 .. MaxRestarts
  /\ removing \in Clients \cup {None}
  /\ unvisited \subseteq {k \in Live : k[1] = removing}

\* The engine runs a fix only for live sessions and at the smallest of their
\* intervals: never faster than anybody asked (it would waste power), never
\* slower (a client would miss fixes), whatever calls fail and whenever the
\* engine goes down (startTrackingMultiplex and its two siblings).
EngineRunsFastest ==
  engine # Off =>
    /\ \E k \in Live : sessions[k].minInterval = engine.minInterval
    /\ \A k \in Live : engine.minInterval <= sessions[k].minInterval

\* Unless a call to an engine that was up has failed, live sessions have a fix,
\* or the message that restarts them is on its way (restartSessions).
EngineServes ==
  Live # {} /\ engine = Off => ~engineUp \/ restarts > 0 \/ failed

\* While sessions remain, no command of one client takes the fix away from the
\* others: only the engine itself can (stopTrackingMultiplex).
OthersKeepTheFix ==
  [][engine # Off /\ engineUp' /\ Live' # {} => engine' # Off]_vars

\* After the engine came back, the sessions get a fix again, unless a call
\* fails, it goes down once more or they are stopped (handleEngineUpEvent).
SessionsResume ==
  (Live # {} /\ engineUp) ~> (engine # Off \/ ~engineUp \/ failed \/ Live = {})

=============================================================================
