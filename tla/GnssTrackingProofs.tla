------------------------- MODULE GnssTrackingProofs -------------------------
(***************************************************************************)
(* Proofs about GnssTracking for any clients, intervals and bounds, with   *)
(* failing engine calls and an engine that goes down at any time.          *)
(***************************************************************************)
EXTENDS GnssTracking, TLAPS

\* An engine that is down runs no fix
DownIsOff == ~engineUp => engine = Off

IInv == TypeOK /\ DownIsOff /\ EngineRunsFastest

\* What a session found by the search says of all the others
LEMMA FastestBound ==
  ASSUME TypeOK, NEW ks \in SUBSET Live, NEW k, IsFastest(ks, k)
  PROVE  /\ k \in ks
         /\ sessions[k] \in Options
         /\ \A j \in ks : sessions[k].minInterval <= sessions[j].minInterval
<1>1. k \in ks /\ sessions[k] \in Options
  BY DEF IsFastest, TypeOK
<1>2. \A j \in ks : sessions[j].minInterval \in Int
  BY ConstantsAssumption DEF TypeOK, Options
<1>3. \A j \in ks : sessions[k].minInterval <= sessions[j].minInterval
  BY <1>1, <1>2 DEF IsFastest
<1> QED
  BY <1>1, <1>3

\* The options of the engine are those of a fix or Off, and Off is no options
LEMMA OffIsNoOptions == Off \notin Options
BY ConstantsAssumption DEF Off, Options

\* At first there is no session and the engine is down
LEMMA InitInvariant == Init => IInv
<1>1. Init => failed \in BOOLEAN
  BY Zenon DEF Init
<1> QED
  BY <1>1, ConstantsAssumption DEF Init, IInv, TypeOK, DownIsOff, EngineRunsFastest, Live, Keys, Ids

\* Starting and stopping leave the fix at the smallest interval of the sessions
LEMMA StartKeepsFastest ==
  ASSUME IInv, NEW key \in Keys, key \notin Live, NEW options \in Options, NEW ok \in BOOLEAN,
         startTrackingMultiplex(options, ok), UNCHANGED engineUp,
         sessions' = IF ok THEN Saved(key, options) ELSE sessions
  PROVE  DownIsOff' /\ EngineRunsFastest' /\ engine' \in Options \cup {Off}
<1>1. TypeOK /\ options.minInterval \in Int /\ \A j \in Live : sessions[j].minInterval \in Int
  BY ConstantsAssumption DEF IInv, TypeOK, Options
<1>2. /\ ok => /\ Live' = Live \cup {key} /\ sessions'[key] = options
               /\ \A j \in Live : sessions'[j] = sessions[j]
      /\ ~ok => sessions' = sessions /\ Live' = Live
  BY DEF Saved, Live
<1>3. CASE Live = {}
  <2>1. EngineCall(options, ok)
    BY <1>3 DEF startTrackingMultiplex, startTracking
  <2> QED
    BY <1>1, <1>2, <1>3, <2>1, OffIsNoOptions
       DEF IInv, TypeOK, DownIsOff, EngineRunsFastest, EngineCall
<1>4. CASE Live # {}
  <2>1. PICK k \in Live :
          /\ IsFastest(Live, k)
          /\ \/ options.minInterval < sessions[k].minInterval /\ startTracking(options, ok)
             \/ options.minInterval >= sessions[k].minInterval /\ NoEngineCall(ok)
    BY <1>4 DEF startTrackingMultiplex
  <2>2. \A j \in Live : sessions[k].minInterval <= sessions[j].minInterval
    BY <2>1, <1>1, FastestBound
  <2>3. CASE options.minInterval < sessions[k].minInterval /\ EngineCall(options, ok)
    BY <1>1, <1>2, <2>2, <2>3, OffIsNoOptions
       DEF IInv, TypeOK, DownIsOff, EngineRunsFastest, EngineCall
  <2>4. CASE options.minInterval >= sessions[k].minInterval /\ NoEngineCall(ok)
    BY <1>1, <1>2, <2>2, <2>4
       DEF IInv, TypeOK, DownIsOff, EngineRunsFastest, NoEngineCall
  <2> QED
    BY <2>1, <2>3, <2>4 DEF startTracking
<1> QED
  BY <1>3, <1>4

\* An update may make the session the fastest, or stop it being so
LEMMA UpdateKeepsFastest ==
  ASSUME IInv, NEW key \in Live, NEW options \in Options, NEW ok \in BOOLEAN,
         updateTrackingMultiplex(key, options, ok), UNCHANGED engineUp,
         sessions' = IF ok THEN Saved(key, options) ELSE sessions
  PROVE  DownIsOff' /\ EngineRunsFastest' /\ engine' \in Options \cup {Off}
<1>1. TypeOK /\ options.minInterval \in Int /\ \A j \in Live : sessions[j].minInterval \in Int
  BY ConstantsAssumption DEF IInv, TypeOK, Options
<1>2. /\ ok => sessions'[key] = options /\ \A j \in Live \ {key} : sessions'[j] = sessions[j]
      /\ ~ok => sessions' = sessions
      /\ Live' = Live
  BY DEF Saved, Live
<1>3. CASE Live = {key} /\ EngineCall(options, ok)
  BY <1>1, <1>2, <1>3, OffIsNoOptions
     DEF IInv, TypeOK, DownIsOff, EngineRunsFastest, EngineCall
<1>4. ASSUME NEW k \in Live \ {key}, IsFastest(Live \ {key}, k),
             \/ /\ options.minInterval < sessions[k].minInterval
                /\ startTracking(options, ok)
             \/ /\ options.minInterval >= sessions[k].minInterval
                /\ sessions[key].minInterval < sessions[k].minInterval
                /\ startTracking(sessions[k], ok)
             \/ /\ options.minInterval >= sessions[k].minInterval
                /\ sessions[key].minInterval >= sessions[k].minInterval
                /\ NoEngineCall(ok)
      PROVE  DownIsOff' /\ EngineRunsFastest' /\ engine' \in Options \cup {Off}
  <2>1. /\ sessions[k] \in Options
        /\ \A j \in Live \ {key} : sessions[k].minInterval <= sessions[j].minInterval
    BY <1>1, <1>4, FastestBound
  <2>2. CASE options.minInterval < sessions[k].minInterval /\ EngineCall(options, ok)
    BY <1>1, <1>2, <2>1, <2>2, OffIsNoOptions
       DEF IInv, TypeOK, DownIsOff, EngineRunsFastest, EngineCall
  <2>3. CASE /\ options.minInterval >= sessions[k].minInterval
             /\ EngineCall(sessions[k], ok)
    BY <1>1, <1>2, <1>4, <2>1, <2>3, OffIsNoOptions
       DEF IInv, TypeOK, DownIsOff, EngineRunsFastest, EngineCall
  <2>4. CASE /\ options.minInterval >= sessions[k].minInterval
             /\ sessions[key].minInterval >= sessions[k].minInterval
             /\ NoEngineCall(ok)
    <3>1. engine # Off => engine.minInterval = sessions[k].minInterval
      BY <1>1, <1>4, <2>1, <2>4 DEF IInv, EngineRunsFastest
    <3> QED
      BY <1>1, <1>2, <1>4, <2>1, <2>4, <3>1
         DEF IInv, TypeOK, DownIsOff, EngineRunsFastest, NoEngineCall
  <2> QED
    BY <1>4, <2>2, <2>3, <2>4 DEF startTracking
<1> QED
  BY <1>3, <1>4 DEF updateTrackingMultiplex, startTracking

\* After a stop the fix is that of the fastest session left, or none
LEMMA StopKeepsFastest ==
  ASSUME IInv, NEW key \in Live, NEW ok \in BOOLEAN,
         stopTrackingMultiplex(key, ok), UNCHANGED engineUp,
         sessions' = IF ok THEN Erased(key) ELSE sessions
  PROVE  DownIsOff' /\ EngineRunsFastest' /\ engine' \in Options \cup {Off}
<1>1. TypeOK /\ \A j \in Live : sessions[j].minInterval \in Int
  BY ConstantsAssumption DEF IInv, TypeOK, Options
<1>2. /\ ok => Live' = Live \ {key}
      /\ ~ok => Live' = Live
      /\ \A j \in Live' : sessions'[j] = sessions[j]
  BY DEF Erased, Live
<1>3. CASE Live = {key} /\ EngineCall(Off, ok)
  BY <1>1, <1>2, <1>3, OffIsNoOptions
     DEF IInv, TypeOK, DownIsOff, EngineRunsFastest, EngineCall
<1>4. ASSUME NEW k \in Live \ {key}, IsFastest(Live \ {key}, k),
             \/ /\ sessions[key].minInterval < sessions[k].minInterval
                /\ startTracking(sessions[k], ok)
             \/ /\ sessions[key].minInterval >= sessions[k].minInterval
                /\ NoEngineCall(ok)
      PROVE  DownIsOff' /\ EngineRunsFastest' /\ engine' \in Options \cup {Off}
  <2>1. /\ sessions[k] \in Options
        /\ \A j \in Live \ {key} : sessions[k].minInterval <= sessions[j].minInterval
    BY <1>1, <1>4, FastestBound
  <2>2. k \in Live'
    BY <1>2, <1>4
  <2>3. CASE EngineCall(sessions[k], ok)
    BY <1>1, <1>2, <1>4, <2>1, <2>2, <2>3, OffIsNoOptions
       DEF IInv, TypeOK, DownIsOff, EngineRunsFastest, EngineCall
  <2>4. CASE sessions[key].minInterval >= sessions[k].minInterval /\ NoEngineCall(ok)
    <3>1. engine # Off => engine.minInterval = sessions[k].minInterval
      BY <1>1, <1>4, <2>1, <2>4 DEF IInv, EngineRunsFastest
    <3> QED
      BY <1>1, <1>2, <2>1, <2>2, <2>4, <3>1
         DEF IInv, TypeOK, DownIsOff, EngineRunsFastest, NoEngineCall
  <2> QED
    BY <1>4, <2>3, <2>4 DEF startTracking
<1> QED
  BY <1>3, <1>4 DEF stopTrackingMultiplex, stopTracking

\* The history variable stays a truth value
LEMMA EngineCallFailed ==
  ASSUME failed \in BOOLEAN, NEW options, NEW ok, EngineCall(options, ok) \/ NoEngineCall(ok)
  PROVE  failed' \in BOOLEAN
BY Zenon DEF EngineCall, NoEngineCall

\* Every call into the engine leaves the history variable a Boolean
LEMMA FailedIsBoolean ==
  ASSUME failed \in BOOLEAN, [Next]_vars
  PROVE  failed' \in BOOLEAN
<1>1. ASSUME NEW options, NEW ok, startTrackingMultiplex(options, ok) PROVE failed' \in BOOLEAN
  BY <1>1, EngineCallFailed DEF startTrackingMultiplex, startTracking
<1>2. ASSUME NEW key, NEW options, NEW ok, updateTrackingMultiplex(key, options, ok)
      PROVE  failed' \in BOOLEAN
  BY <1>2, EngineCallFailed DEF updateTrackingMultiplex, startTracking
<1>3. ASSUME NEW key, NEW ok, stopTrackingMultiplex(key, ok) PROVE failed' \in BOOLEAN
  BY <1>3, EngineCallFailed DEF stopTrackingMultiplex, startTracking, stopTracking
<1>4. ASSUME NEW c, SaveClient(c) \/ RemoveClient(c) PROVE failed' \in BOOLEAN
  BY <1>4 DEF SaveClient, RemoveClient
<1>5. ASSUME NEW c, NEW o, StartTracking(c, o) PROVE failed' \in BOOLEAN
  BY Zenon, <1>1, <1>5 DEF StartTracking
<1>6. ASSUME NEW c, NEW i, NEW o, UpdateTracking(c, i, o) PROVE failed' \in BOOLEAN
  BY Zenon, <1>2, <1>6 DEF UpdateTracking
<1>7. ASSUME NEW c, NEW i, StopTracking(c, i) PROVE failed' \in BOOLEAN
  BY Zenon, <1>3, <1>7 DEF StopTracking
<1>8. CASE StopNextSession
  BY Zenon, <1>3, <1>8 DEF StopNextSession
<1>9. CASE eraseClient \/ EngineDown \/ UNCHANGED vars
  BY <1>9 DEF eraseClient, EngineDown, vars
<1>10. CASE EngineUp
  BY Zenon, <1>10 DEF EngineUp
<1>11. CASE RestartSessions
  BY Zenon, <1>11, EngineCallFailed DEF RestartSessions
<1> QED
  BY Zenon, <1>4, <1>5, <1>6, <1>7, <1>8, <1>9, <1>10, <1>11 DEF Next

\* Every handler, and each turn of the removal of a client, keeps the invariant
LEMMA StepInvariant == IInv /\ [Next]_vars => IInv'
<1> SUFFICES ASSUME IInv, [Next]_vars PROVE IInv'
  OBVIOUS
<1>0. failed' \in BOOLEAN
  BY FailedIsBoolean DEF IInv, TypeOK
<1> USE ConstantsAssumption
<1>1. ASSUME NEW c \in Clients, SaveClient(c) PROVE IInv'
  BY <1>1 DEF IInv, TypeOK, DownIsOff, EngineRunsFastest, SaveClient, loopVars, Live
<1>2. ASSUME NEW c \in Clients, RemoveClient(c) PROVE IInv'
  BY <1>2 DEF IInv, TypeOK, DownIsOff, EngineRunsFastest, RemoveClient, Live
<1>3. ASSUME NEW c \in Clients, NEW o \in Options, StartTracking(c, o) PROVE IInv'
  <2> DEFINE key == <<c, nextId>>
  <2>1. key \in Keys /\ key \notin Live /\ nextId' \in 1 .. MaxId + 1
    BY <1>3 DEF IInv, TypeOK, Keys, Ids, StartTracking
  <2>2. ASSUME NEW ok \in BOOLEAN, startTrackingMultiplex(o, ok),
               sessions' = IF ok THEN Saved(key, o) ELSE sessions
        PROVE  IInv'
    <3>1. DownIsOff' /\ EngineRunsFastest' /\ engine' \in Options \cup {Off}
      BY <1>3, <2>1, <2>2, StartKeepsFastest DEF StartTracking
    <3>2. key[2] = nextId /\ nextId' = nextId + 1 /\ nextId \in Int
      BY <1>3 DEF IInv, TypeOK, StartTracking
    <3> HIDE DEF key
    <3>3. /\ Live' \subseteq Live \cup {key} /\ Live \subseteq Live'
          /\ sessions' = [k \in Live' |-> sessions'[k]]
          /\ \A k \in Live' : sessions'[k] = IF k \in Live THEN sessions[k] ELSE o
      <4>1. CASE ok
        BY <2>1, <2>2, <4>1 DEF Live, Saved
      <4>2. CASE ~ok
        BY <2>2, <4>2 DEF IInv, TypeOK, Live
      <4> QED
        BY <4>1, <4>2
    <3>4. \A k \in Live' : sessions'[k] \in Options /\ k[2] < nextId'
      BY <3>2, <3>3 DEF IInv, TypeOK, Keys, Ids
    <3>5. /\ registered' = registered /\ engineUp' = engineUp /\ restarts' = restarts
          /\ removing' = removing /\ unvisited' = unvisited
      BY <1>3 DEF StartTracking, loopVars
    <3>6. unvisited' \subseteq {k \in Live' : k[1] = removing'}
      BY <3>3, <3>5 DEF IInv, TypeOK
    <3>7. Live' \subseteq Keys
      BY <2>1, <3>3 DEF IInv, TypeOK
    <3> QED
      <4>1. /\ registered' \subseteq Clients /\ restarts' \in 0 .. MaxRestarts
            /\ engineUp' \in BOOLEAN /\ removing' \in Clients \cup {None}
        BY <3>5 DEF IInv, TypeOK
      <4>2. TypeOK'
        BY <1>0, <2>1, <3>1, <3>3, <3>4, <3>6, <3>7, <4>1 DEF TypeOK
      <4> QED
        BY <3>1, <4>2 DEF IInv
  <2>3. CASE c \notin registered /\ UNCHANGED <<sessions, engine, failed>>
    BY <1>3, <2>1, <2>3 DEF IInv, TypeOK, DownIsOff, EngineRunsFastest, StartTracking, loopVars, Live, Keys, Ids
  <2> QED
    BY <1>3, <2>2, <2>3 DEF StartTracking
<1>4. ASSUME NEW c \in Clients, NEW i \in Ids, NEW o \in Options, UpdateTracking(c, i, o)
      PROVE  IInv'
  <2>1. PICK ok \in BOOLEAN : /\ updateTrackingMultiplex(<<c, i>>, o, ok)
                              /\ sessions' = IF ok THEN Saved(<<c, i>>, o) ELSE sessions
    BY <1>4 DEF UpdateTracking
  <2>2. DownIsOff' /\ EngineRunsFastest' /\ engine' \in Options \cup {Off}
    BY <1>4, <2>1, UpdateKeepsFastest DEF UpdateTracking
  <2>3. /\ Live' = Live
        /\ sessions' = [k \in Live' |-> sessions'[k]]
        /\ \A k \in Live' : sessions'[k] \in Options
    BY <1>4, <2>1 DEF IInv, TypeOK, Live, UpdateTracking, Saved
  <2> QED
    BY <1>0, <1>4, <2>2, <2>3 DEF IInv, TypeOK, UpdateTracking, loopVars
<1>5. ASSUME NEW key \in Live, NEW ok \in BOOLEAN, stopTrackingMultiplex(key, ok),
             sessions' = IF ok THEN Erased(key) ELSE sessions,
             unvisited' = unvisited \/ unvisited' = unvisited \ {key},
             key \in unvisited' => ~ok,
             UNCHANGED <<registered, nextId, engineUp, restarts, removing>>
      PROVE  IInv'
  <2>1. DownIsOff' /\ EngineRunsFastest' /\ engine' \in Options \cup {Off}
    BY <1>5, StopKeepsFastest
  <2>2. /\ Live' \subseteq Live /\ (Live \ {key} \subseteq Live') /\ (~ok => Live' = Live)
        /\ sessions' = [k \in Live' |-> sessions'[k]]
        /\ \A k \in Live' : sessions'[k] \in Options
    BY <1>5 DEF IInv, TypeOK, Live, Erased
  <2> QED
    BY <1>0, <1>5, <2>1, <2>2 DEF IInv, TypeOK
<1>6. ASSUME NEW c \in Clients, NEW i \in Ids, StopTracking(c, i) PROVE IInv'
  <2>1. removing = None /\ unvisited = {} /\ <<c, i>> \in Live
    BY <1>6 DEF StopTracking, IInv, TypeOK, Keys
  <2> QED
    BY <1>5, <1>6, <2>1 DEF StopTracking, loopVars
<1>7. CASE StopNextSession
  BY <1>5, <1>7 DEF StopNextSession, IInv, TypeOK
<1>8. CASE eraseClient
  BY <1>8 DEF IInv, TypeOK, DownIsOff, EngineRunsFastest, eraseClient, Live
<1>9. CASE EngineDown
  BY <1>9 DEF IInv, TypeOK, DownIsOff, EngineRunsFastest, EngineDown, loopVars, Live
<1>10. CASE EngineUp
  BY <1>0, <1>10 DEF IInv, TypeOK, DownIsOff, EngineRunsFastest, EngineUp, loopVars, Live
<1>11. CASE RestartSessions
  <2>1. CASE UNCHANGED <<engine, failed>>
    BY <1>11, <2>1 DEF IInv, TypeOK, DownIsOff, EngineRunsFastest, RestartSessions, loopVars, Live
  <2>2. ASSUME NEW k \in Live, NEW ok \in BOOLEAN, IsFastest(Live, k), EngineCall(sessions[k], ok)
        PROVE  IInv'
    <3>1. /\ sessions[k] \in Options
          /\ \A j \in Live : sessions[k].minInterval <= sessions[j].minInterval
      BY <2>2, FastestBound DEF IInv
    <3> QED
      BY <1>0, <1>11, <2>2, <3>1
         DEF IInv, TypeOK, DownIsOff, EngineRunsFastest, EngineCall, RestartSessions, loopVars, Live
  <2> QED
    BY <1>11, <2>1, <2>2 DEF RestartSessions
<1>12. CASE UNCHANGED vars
  BY <1>12 DEF IInv, TypeOK, DownIsOff, EngineRunsFastest, vars, Live
<1> QED
  BY <1>1, <1>2, <1>3, <1>4, <1>6, <1>7, <1>8, <1>9, <1>10, <1>11, <1>12 DEF Next

\* Every reachable state satisfies the inductive invariant.
THEOREM Invariance == Spec => []IInv
BY InitInvariant, StepInvariant, PTL DEF Spec

\* The bookkeeping of sessions, ids and the removal loop stays well-formed,
\* whatever engine calls fail.
THEOREM TypeCorrect == Spec => []TypeOK
BY Invariance, PTL DEF IInv

\* The engine always runs at the smallest interval of the live sessions or not
\* at all, for any clients and intervals, whatever calls fail.
THEOREM AlwaysRunsFastest == Spec => []EngineRunsFastest
BY Invariance, PTL DEF IInv

-----------------------------------------------------------------------------
(* That the sessions are served.                                           *)

\* What a step has to do for the sessions that it leaves: there is a fix unless
\* a reason excuses it, and a fix that was there is not taken away
Serves ==
  /\ Live' # {} /\ engine' = Off => ~engineUp' \/ restarts' > 0 \/ failed'
  /\ Live' # {} /\ engine # Off /\ engineUp' => engine' # Off

\* A call that asks for a fix gets one, or is excused
LEMMA CallServes ==
  ASSUME NEW options \in Options, NEW ok \in BOOLEAN, EngineCall(options, ok), engineUp' = engineUp
  PROVE  Serves
<1>1. options # Off
  BY OffIsNoOptions
<1>2. CASE engineUp /\ ok /\ engine' = options
  BY <1>1, <1>2 DEF Serves
<1>3. CASE engineUp /\ failed' = TRUE /\ engine' = engine
  BY Zenon, <1>3 DEF Serves
<1>4. CASE ~engineUp
  BY <1>4 DEF Serves
<1> QED
  BY Zenon, <1>2, <1>3, <1>4 DEF EngineCall

\* A step that makes no call leaves things as they were
LEMMA NoCallServes ==
  ASSUME EngineServes, Live' # {} => Live # {},
         engine' = engine, engineUp' = engineUp, failed' = failed, restarts' = restarts
  PROVE  Serves
BY Zenon DEF Serves, EngineServes

\* The first session to start asks for a fix, any other finds one
LEMMA StartServes ==
  ASSUME IInv, EngineServes, NEW options \in Options, NEW ok \in BOOLEAN,
         startTrackingMultiplex(options, ok), engineUp' = engineUp, restarts' = restarts
  PROVE  Serves
<1>1. CASE EngineCall(options, ok)
  BY <1>1, CallServes
<1>2. CASE Live # {} /\ NoEngineCall(ok)
  BY <1>2, NoCallServes DEF NoEngineCall
<1> QED
  BY <1>1, <1>2 DEF startTrackingMultiplex, startTracking

\* An update asks for the fix of the session it makes the fastest, or for none
LEMMA UpdateServes ==
  ASSUME IInv, EngineServes, NEW key \in Live, NEW options \in Options, NEW ok \in BOOLEAN,
         updateTrackingMultiplex(key, options, ok), engineUp' = engineUp, restarts' = restarts
  PROVE  Serves
<1>1. CASE EngineCall(options, ok)
  BY <1>1, CallServes
<1>2. ASSUME NEW k \in Live \ {key}, EngineCall(sessions[k], ok)
      PROVE  Serves
  <2>1. sessions[k] \in Options
    BY <1>2 DEF IInv, TypeOK
  <2> QED
    BY <1>2, <2>1, CallServes
<1>3. CASE NoEngineCall(ok)
  BY <1>3, NoCallServes DEF NoEngineCall
<1> QED
  BY <1>1, <1>2, <1>3 DEF updateTrackingMultiplex, startTracking

\* A stop ends the fix with the last session only
LEMMA StopServes ==
  ASSUME IInv, EngineServes, NEW key \in Live, NEW ok \in BOOLEAN,
         stopTrackingMultiplex(key, ok), engineUp' = engineUp, restarts' = restarts,
         sessions' = IF ok THEN Erased(key) ELSE sessions
  PROVE  Serves
<1>1. CASE Live = {key} /\ EngineCall(Off, ok)
  <2>1. CASE ok
    <3>1. Live' = {}
      BY <1>1, <2>1 DEF Live, Erased
    <3> QED
      BY <3>1 DEF Serves
  <2>2. CASE ~ok /\ engineUp
    BY Zenon, <1>1, <2>2 DEF EngineCall, Serves
  <2>3. CASE ~engineUp
    BY <2>3 DEF Serves
  <2> QED
    BY <2>1, <2>2, <2>3
<1>2. ASSUME NEW k \in Live \ {key}, EngineCall(sessions[k], ok)
      PROVE  Serves
  <2>1. sessions[k] \in Options
    BY <1>2 DEF IInv, TypeOK
  <2> QED
    BY <1>2, <2>1, CallServes
<1>3. CASE NoEngineCall(ok)
  BY <1>3, NoCallServes DEF NoEngineCall
<1> QED
  BY <1>1, <1>2, <1>3 DEF stopTrackingMultiplex, startTracking, stopTracking

\* Every step serves the sessions that it leaves
LEMMA StepServes ==
  ASSUME IInv, EngineServes, [Next]_vars
  PROVE  Serves
<1>1. ASSUME NEW c \in Clients, SaveClient(c) \/ RemoveClient(c) PROVE Serves
  BY <1>1, NoCallServes DEF SaveClient, RemoveClient, loopVars, Live
<1>2. ASSUME NEW c \in Clients, NEW o \in Options, StartTracking(c, o) PROVE Serves
  <2>1. engineUp' = engineUp /\ restarts' = restarts
    BY <1>2 DEF StartTracking
  <2>2. CASE UNCHANGED <<sessions, engine, failed>>
    BY <2>1, <2>2, NoCallServes DEF Live
  <2>3. ASSUME NEW ok \in BOOLEAN, startTrackingMultiplex(o, ok) PROVE Serves
    BY <2>1, <2>3, StartServes
  <2> QED
    BY <1>2, <2>2, <2>3 DEF StartTracking
<1>3. ASSUME NEW c \in Clients, NEW i \in Ids, NEW o \in Options, UpdateTracking(c, i, o)
      PROVE  Serves
  BY <1>3, UpdateServes DEF UpdateTracking
<1>4. ASSUME NEW c \in Clients, NEW i \in Ids, StopTracking(c, i) PROVE Serves
  BY <1>4, StopServes DEF StopTracking
<1>5. CASE StopNextSession
  <2>1. PICK key \in unvisited, ok \in BOOLEAN :
          /\ stopTrackingMultiplex(key, ok)
          /\ sessions' = IF ok THEN Erased(key) ELSE sessions
          /\ engineUp' = engineUp /\ restarts' = restarts
    BY <1>5 DEF StopNextSession
  <2>2. key \in Live
    BY DEF IInv, TypeOK
  <2> QED
    BY <2>1, <2>2, StopServes
<1>6. CASE eraseClient
  BY <1>6, NoCallServes DEF eraseClient, Live
<1>7. CASE EngineDown
  BY <1>7 DEF EngineDown, Serves
<1>8. CASE EngineUp
  <2>1. restarts' > 0 /\ ~engineUp
    BY <1>8 DEF EngineUp, IInv, TypeOK
  <2> QED
    BY <2>1 DEF Serves, IInv, DownIsOff
<1>9. CASE RestartSessions
  <2>1. engineUp' = engineUp /\ Live' = Live
    BY <1>9 DEF RestartSessions, Live
  <2>2. CASE Live = {}
    BY <2>1, <2>2 DEF Serves
  <2>3. ASSUME NEW k \in Live, NEW ok \in BOOLEAN, EngineCall(sessions[k], ok) PROVE Serves
    <3>1. sessions[k] \in Options
      BY <2>3 DEF IInv, TypeOK
    <3> QED
      BY <2>1, <2>3, <3>1, CallServes
  <2> QED
    BY <1>9, <2>2, <2>3 DEF RestartSessions
<1>10. CASE UNCHANGED vars
  BY <1>10, NoCallServes DEF vars, Live
<1> QED
  BY <1>1, <1>2, <1>3, <1>4, <1>5, <1>6, <1>7, <1>8, <1>9, <1>10 DEF Next

\* Live sessions have a fix or the message that restarts them is on its way,
\* unless a call has failed since the engine came up.
THEOREM AlwaysEngineServes == Spec => []EngineServes
<1>1. Init => EngineServes
  BY DEF Init, EngineServes, Live
<1>2. IInv /\ EngineServes /\ [Next]_vars => EngineServes'
  BY Zenon, StepServes DEF Serves, EngineServes
<1> QED
  BY <1>1, <1>2, Invariance, PTL DEF Spec

\* No command takes the fix from the sessions that it leaves: a session may come,
\* change its options, fail to stop or go, the others keep a fix.
THEOREM OthersAlwaysKeepTheFix == Spec => OthersKeepTheFix
<1>1. IInv /\ EngineServes /\ [Next]_vars =>
        [engine # Off /\ engineUp' /\ Live' # {} => engine' # Off]_vars
  BY Zenon, StepServes DEF Serves
<1> QED
  BY <1>1, Invariance, AlwaysEngineServes, PTL DEF Spec, OthersKeepTheFix
=============================================================================
