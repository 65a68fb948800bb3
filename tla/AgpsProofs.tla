----------------------------- MODULE AgpsProofs -----------------------------
(***************************************************************************)
(* Proofs about the AGPS connection manager, for any set of handles and    *)
(* any limits, with and without the emergency PDN: type correctness, that  *)
(* no machine waits for an answer nobody owes it, and that the state of a  *)
(* machine agrees with its subscriber list, and that nobody leaves the DS  *)
(* machine unnoticed; and, without the emergency PDN, that a granted       *)
(* handle has a live connection and that a request without an answer is    *)
(* not forgotten.                                                          *)
(*                                                                         *)
(* A handler works on one machine: Handled says what every handler does,   *)
(* whatever event it is for, and one lemma per event says in which states  *)
(* it can end and with which command.                                      *)
(***************************************************************************)
EXTENDS Agps, TLAPS, SequenceTheorems, FiniteSetTheorems

Commands     == {"REQUEST", "RELEASE"}
CommandLists == [SMs -> Seq(Commands)]

\* Of the members only waiting ones become inactive
WellFormed(l) == l.inactive \subseteq l.subs \cap l.waits

Matches(sm, st, l) ==
  /\ st \in {"PENDING", "ACQUIRED"} => active(l) # {}
  /\ st = "RELEASING" => l.inactive # {}
  /\ sm # "DS" /\ st = "RELEASED" => l.subs = {}

\* The inductive invariant
IInv ==
  /\ TypeOK
  /\ \A sm \in SMs : WellFormed(list[sm])
  /\ WaitsForAnAnswer
  /\ ListMatchesState

\* What a handler of machine sm does, given the commands c
Handled(sm, c) ==
  /\ state' \in [SMs -> States]
  /\ list' \in [SMs -> SubscriberList]
  /\ retries' \in 0 .. MaxRetries
  /\ timers' \in Nat
  /\ queue' \in Seq(Messages)
  /\ cmds' \in CommandLists
  /\ atl' \in [Handles -> ModemStates]
  /\ \A o \in SMs \ {sm} :
       state'[o] = state[o] /\ list'[o] = list[o] /\ cmds'[o] = c[o]
  /\ WellFormed(list'[sm])
  /\ Matches(sm, state'[sm], list'[sm])

\* It leaves machine sm in state st, and with the command cmd if it got there
Asks(sm, c, st, cmd) ==
  state'[sm] = st =>
    \/ state[sm] = st /\ cmds'[sm] = c[sm]
    \/ cmds'[sm] = Append(c[sm], cmd)

-----------------------------------------------------------------------------
(* Lists, commands and notifications.                                      *)

\* Adding a subscriber gives a list in which the others are as they were.
LEMMA AddFacts ==
  ASSUME NEW l \in SubscriberList, NEW h \in Handles, NEW w \in BOOLEAN, WellFormed(l)
  PROVE  LET m == addSubscriber(l, h, w)
         IN  /\ m \in SubscriberList
             /\ WellFormed(m)
             /\ m.inactive = l.inactive
             /\ active(l) \subseteq active(m)
             /\ l.subs = {} => active(m) = {h}
BY DEF SubscriberList, WellFormed, addSubscriber, active

\* Deleting subscribers leaves the others as they were.
LEMMA DeleteFacts ==
  ASSUME NEW l \in SubscriberList, NEW gone \in SUBSET Handles, WellFormed(l)
  PROVE  LET m == deleteSubscribers(l, gone)
         IN  /\ m \in SubscriberList
             /\ WellFormed(m)
             /\ m.subs = l.subs \ gone
             /\ m.inactive = l.inactive \ gone
BY DEF SubscriberList, WellFormed, deleteSubscribers

\* The empty list is a list.
LEMMA EmptyFacts ==
  EmptyList \in SubscriberList /\ WellFormed(EmptyList) /\ EmptyList.subs = {}
BY DEF EmptyList, SubscriberList, WellFormed

\* Notifications keep the modem's view of its handles well typed.
LEMMA NotifyTyped ==
  ASSUME TypeOK, NEW hs, NEW ok \in BOOLEAN
  PROVE  /\ AtlOpenStatus(hs, ok) \in [Handles -> ModemStates]
         /\ AtlCloseStatus(hs) \in [Handles -> ModemStates]
         /\ \A h \in Handles : AtlCloseFailed(h) \in [Handles -> ModemStates]
BY DEF TypeOK, AtlOpenStatus, AtlCloseStatus, AtlCloseFailed, ModemStates

\* A command given to one provider is the last of that provider's commands.
LEMMA CommandedFacts ==
  ASSUME NEW sm \in SMs, NEW c \in CommandLists, NEW cmd \in Commands,
         Commanded(c, sm, cmd)
  PROVE  /\ cmds' \in CommandLists
         /\ cmds'[sm] = Append(c[sm], cmd)
         /\ \A o \in SMs \ {sm} : cmds'[o] = c[o]
BY DEF Commanded, CommandLists

\* Asking for a connection keeps the types; a machine other than DS always
\* gives the command, and DS gives it whenever it says it did.
LEMMA RequestFacts ==
  ASSUME TypeOK, NEW sm \in SMs, NEW l \in SubscriberList, NEW c \in CommandLists,
         NEW q \in Seq(Messages), NEW ok \in BOOLEAN,
         RequestDataConn(sm, l, c, q, ok)
  PROVE  /\ retries' \in 0 .. MaxRetries
         /\ timers' \in Nat
         /\ queue' \in Seq(Messages)
         /\ cmds' \in CommandLists
         /\ \A o \in SMs \ {sm} : cmds'[o] = c[o]
         /\ sm # "DS" => ok
         /\ ok => cmds'[sm] = Append(c[sm], "REQUEST")
         /\ ok /\ sm = "DS" => active(l) # {}
<1> USE ConstantsAssumption
<1>1. CASE ok /\ FrameworkRequest(sm, c, q, ok) /\ (sm = "DS" => active(l) # {})
  BY <1>1, CommandedFacts DEF FrameworkRequest, TypeOK, Commands
<1>2. CASE sm = "DS" /\ ~ok /\ cmds' = c /\ queue' = q /\ UNCHANGED <<retries, timers>>
  BY <1>2 DEF TypeOK
<1>3. CASE /\ sm = "DS" /\ ~ok /\ cmds' = c /\ UNCHANGED timers
           /\ \E h \in active(l) : FallBack(h, q)
  <2> PICK h \in active(l) : FallBack(h, q)
    BY <1>3
  <2>1. RequestATL(h, "SUPL") \in Messages
    BY DEF RequestATL, Messages, AgpsTypes, active, SubscriberList
  <2> QED
    BY <1>3, <2>1 DEF FallBack, TypeOK
<1>4. CASE /\ sm = "DS" /\ ~ok /\ cmds' = c /\ queue' = q
           /\ retries + 1 <= MaxRetries /\ retries' = retries + 1 /\ timers' = timers + 1
  BY <1>4 DEF TypeOK
<1> QED
  BY <1>1, <1>2, <1>3, <1>4
  DEF RequestDataConn, NoActiveSubscriber, DataCallStarted, DataCallBusy,
      DataCallUnsupported, DataCallFailed, FrameworkRequest

-----------------------------------------------------------------------------
(* The events.                                                             *)

\* An event that is ignored is handled.
LEMMA IgnoreFacts ==
  ASSUME IInv, NEW sm \in SMs, NEW c \in CommandLists, NEW q \in Seq(Messages),
         Ignore(c, q)
  PROVE  Handled(sm, c) /\ state' = state /\ cmds' = c
BY DEF IInv, TypeOK, WaitsForAnAnswer, ListMatchesState, Ignore, Quiet, Handled,
       Matches, FrameworkSMs

\* SUBSCRIBE: a machine gets to PENDING with a request only.
LEMMA SubscribeFacts ==
  ASSUME IInv, NEW sm \in SMs, NEW h \in Handles, NEW w \in BOOLEAN,
         NEW c \in CommandLists, NEW q \in Seq(Messages), Subscribe(sm, h, w, c, q)
  PROVE  /\ Handled(sm, c)
         /\ Asks(sm, c, "PENDING", "REQUEST")
         /\ Asks(sm, c, "RELEASING", "RELEASE")
<1> DEFINE l == addSubscriber(list[sm], h, w)
<1>1. list[sm] \in SubscriberList /\ WellFormed(list[sm]) /\ Matches(sm, state[sm], list[sm])
  BY DEF IInv, TypeOK, ListMatchesState, Matches, FrameworkSMs
<1>2. /\ l \in SubscriberList /\ WellFormed(l) /\ l.inactive = list[sm].inactive
      /\ active(list[sm]) \subseteq active(l)
      /\ list[sm].subs = {} => active(l) = {h}
  BY <1>1, AddFacts
<1> HIDE DEF l
<1>3. CASE /\ state[sm] = "RELEASED"
           /\ \E ok \in BOOLEAN :
                /\ RequestDataConn(sm, l, c, q, ok)
                /\ SetSM(sm, IF ok THEN "PENDING" ELSE "RELEASED", l)
           /\ UNCHANGED atl
  <2> PICK ok \in BOOLEAN :
        /\ RequestDataConn(sm, l, c, q, ok)
        /\ SetSM(sm, IF ok THEN "PENDING" ELSE "RELEASED", l)
    BY <1>3
  <2>1. /\ retries' \in 0 .. MaxRetries /\ timers' \in Nat /\ queue' \in Seq(Messages)
        /\ cmds' \in CommandLists /\ \A o \in SMs \ {sm} : cmds'[o] = c[o]
        /\ sm # "DS" => ok
        /\ ok => cmds'[sm] = Append(c[sm], "REQUEST")
        /\ ok /\ sm = "DS" => active(l) # {}
    BY <1>2, RequestFacts DEF IInv
  <2>2. Matches(sm, IF ok THEN "PENDING" ELSE "RELEASED", l)
    BY <1>1, <1>2, <1>3, <2>1 DEF Matches
  <2> QED
    BY <1>2, <1>3, <2>1, <2>2 DEF SetSM, Handled, Asks, IInv, TypeOK, States
<1>4. CASE /\ state[sm] \in {"PENDING", "RELEASING"}
           /\ SetSM(sm, state[sm], l) /\ Quiet(c, q) /\ UNCHANGED atl
  <2>1. Matches(sm, state[sm], l)
    BY <1>1, <1>2, <1>4 DEF Matches
  <2> QED
    BY <1>2, <1>4, <2>1 DEF SetSM, Quiet, Handled, Asks, IInv, TypeOK, States
<1>5. CASE /\ state[sm] = "ACQUIRED" /\ atl' = AtlOpenStatus({h}, TRUE)
           /\ SetSM(sm, "ACQUIRED", l) /\ Quiet(c, q)
  <2>1. Matches(sm, "ACQUIRED", l)
    BY <1>1, <1>2, <1>5 DEF Matches
  <2>2. atl' \in [Handles -> ModemStates]
    BY <1>5, NotifyTyped DEF IInv
  <2> QED
    BY <1>2, <1>5, <2>1, <2>2 DEF SetSM, Quiet, Handled, Asks, IInv, TypeOK, States
<1> QED
  BY <1>3, <1>4, <1>5 DEF Subscribe, l

\* UNSUBSCRIBE: a machine gets to RELEASING with a release only.
LEMMA UnsubscribeFacts ==
  ASSUME IInv, NEW sm \in SMs, NEW h \in list[sm].subs,
         NEW c \in CommandLists, NEW q \in Seq(Messages), Unsubscribe(sm, h, c, q)
  PROVE  /\ Handled(sm, c)
         /\ Asks(sm, c, "PENDING", "REQUEST")
         /\ Asks(sm, c, "RELEASING", "RELEASE")
<1> DEFINE waits == h \in list[sm].waits
           l == IF waits THEN [list[sm] EXCEPT !.inactive = @ \cup {h}]
                         ELSE deleteSubscribers(list[sm], {h})
           told == IF waits THEN {} ELSE {h}
<1>1. list[sm] \in SubscriberList /\ WellFormed(list[sm]) /\ Matches(sm, state[sm], list[sm])
  BY DEF IInv, TypeOK, ListMatchesState, Matches, FrameworkSMs
<1>2. h \in Handles
  BY <1>1 DEF SubscriberList
<1>3. /\ l \in SubscriberList /\ WellFormed(l)
      /\ list[sm].inactive \subseteq l.inactive
  <2>1. CASE waits
    BY <1>1, <1>2, <2>1 DEF SubscriberList, WellFormed
  <2>2. CASE ~waits
    <3>1. /\ l \in SubscriberList /\ WellFormed(l)
          /\ l.inactive = list[sm].inactive \ {h}
      BY <1>1, <1>2, <2>2, DeleteFacts
    <3>2. h \notin list[sm].inactive
      BY <1>1, <2>2 DEF WellFormed
    <3> QED
      BY <3>1, <3>2
  <2> QED
    BY <2>1, <2>2
<1>4. AtlCloseStatus({h}) \in [Handles -> ModemStates]
      /\ AtlCloseStatus(told) \in [Handles -> ModemStates]
  BY <1>2, NotifyTyped DEF IInv
<1> HIDE DEF l, told
<1>5. CASE /\ state[sm] = "RELEASED" /\ atl' = AtlCloseStatus({h})
           /\ Quiet(c, q) /\ UNCHANGED <<state, list>>
  BY <1>1, <1>4, <1>5 DEF Quiet, Handled, Asks, IInv, TypeOK
<1>6. CASE /\ state[sm] \in {"PENDING", "ACQUIRED"}
           /\ atl' = AtlCloseStatus(told)
           /\ active(l) = {}
           /\ SetSM(sm, IF l.subs = {} THEN "RELEASED" ELSE "RELEASING", l)
           /\ ReleaseDataConn(sm, c)
           /\ queue' = q
           /\ UNCHANGED <<retries, timers>>
  <2>1. Matches(sm, IF l.subs = {} THEN "RELEASED" ELSE "RELEASING", l)
    BY <1>3, <1>6 DEF Matches, active
  <2>2. /\ cmds' \in CommandLists
        /\ cmds'[sm] = Append(c[sm], "RELEASE")
        /\ \A o \in SMs \ {sm} : cmds'[o] = c[o]
    BY <1>6, CommandedFacts DEF ReleaseDataConn, Commands
  <2> QED
    BY <1>3, <1>4, <1>6, <2>1, <2>2 DEF SetSM, Handled, Asks, IInv, TypeOK, States
<1>7. CASE /\ state[sm] \in {"PENDING", "ACQUIRED"}
           /\ atl' = AtlCloseStatus(told)
           /\ active(l) # {}
           /\ SetSM(sm, state[sm], l)
           /\ Quiet(c, q)
  <2>1. Matches(sm, state[sm], l)
    BY <1>7 DEF Matches
  <2> QED
    BY <1>3, <1>4, <1>7, <2>1 DEF SetSM, Quiet, Handled, Asks, IInv, TypeOK, States
<1>8. CASE /\ state[sm] = "RELEASING"
           /\ atl' = AtlCloseStatus(told)
           /\ SetSM(sm, IF l.subs = {} THEN "RELEASED" ELSE "RELEASING", l)
           /\ Quiet(c, q)
  <2>1. Matches(sm, IF l.subs = {} THEN "RELEASED" ELSE "RELEASING", l)
    BY <1>1, <1>3, <1>8 DEF Matches
  <2> QED
    BY <1>3, <1>4, <1>8, <2>1 DEF SetSM, Quiet, Handled, Asks, IInv, TypeOK, States
<1> QED
  BY <1>5, <1>6, <1>7, <1>8 DEF Unsubscribe, l, told

\* GRANTED: the machine is not PENDING afterwards.
LEMMA GrantedFacts ==
  ASSUME IInv, NEW sm \in SMs, NEW c \in CommandLists, NEW q \in Seq(Messages),
         Granted(sm, c, q)
  PROVE  /\ Handled(sm, c)
         /\ cmds' = c
         /\ state'[sm] # "PENDING"
         /\ state'[sm] = "RELEASING" => state[sm] = "RELEASING"
<1>1. CASE state[sm] # "PENDING" /\ Ignore(c, q)
  BY <1>1, IgnoreFacts
<1>2. CASE /\ state[sm] = "PENDING"
           /\ atl' = AtlOpenStatus(active(list[sm]), TRUE)
           /\ SetSM(sm, "ACQUIRED", list[sm])
           /\ Quiet(c, q)
  <2>1. atl' \in [Handles -> ModemStates]
    BY <1>2, NotifyTyped DEF IInv
  <2>2. WellFormed(list[sm]) /\ Matches(sm, "ACQUIRED", list[sm])
    BY <1>2 DEF IInv, ListMatchesState, Matches
  <2> QED
    BY <1>2, <2>1, <2>2 DEF SetSM, Quiet, Handled, IInv, TypeOK, States
<1> QED
  BY <1>1, <1>2 DEF Granted

\* The end of a close: the machine is at rest or asks again, and closes no more.
LEMMA CloseCompleteFacts ==
  ASSUME IInv, NEW sm \in SMs, NEW c \in CommandLists, NEW q \in Seq(Messages),
         CloseComplete(sm, c, q)
  PROVE  /\ Handled(sm, c)
         /\ state'[sm] # "RELEASING"
         /\ sm # "DS" /\ state'[sm] = "PENDING" => cmds'[sm] = Append(c[sm], "REQUEST")
<1> DEFINE l == deleteSubscribers(list[sm], list[sm].inactive)
<1>1. /\ list[sm] \in SubscriberList /\ WellFormed(list[sm])
      /\ list[sm].inactive \in SUBSET Handles
  BY DEF IInv, TypeOK, SubscriberList
<1>2. l \in SubscriberList /\ WellFormed(l) /\ l.inactive = {}
  BY <1>1, DeleteFacts
<1>3. AtlCloseStatus(list[sm].inactive) \in [Handles -> ModemStates]
  BY NotifyTyped DEF IInv
<1> HIDE DEF l
<1>4. CASE /\ atl' = AtlCloseStatus(list[sm].inactive)
           /\ active(l) # {}
           /\ SetSM(sm, "PENDING", l)
           /\ \E ok \in BOOLEAN : RequestDataConn(sm, l, c, q, ok)
  <2> PICK ok \in BOOLEAN : RequestDataConn(sm, l, c, q, ok)
    BY <1>4
  <2>1. /\ retries' \in 0 .. MaxRetries /\ timers' \in Nat /\ queue' \in Seq(Messages)
        /\ cmds' \in CommandLists /\ \A o \in SMs \ {sm} : cmds'[o] = c[o]
        /\ sm # "DS" => ok
        /\ ok => cmds'[sm] = Append(c[sm], "REQUEST")
    BY <1>2, RequestFacts DEF IInv
  <2>2. Matches(sm, "PENDING", l)
    BY <1>4 DEF Matches
  <2> QED
    BY <1>2, <1>3, <1>4, <2>1, <2>2 DEF SetSM, Handled, IInv, TypeOK, States
<1>5. CASE /\ atl' = AtlCloseStatus(list[sm].inactive)
           /\ active(l) = {}
           /\ SetSM(sm, "RELEASED", l)
           /\ Quiet(c, q)
  <2>1. Matches(sm, "RELEASED", l)
    BY <1>2, <1>5 DEF Matches, active
  <2> QED
    BY <1>2, <1>3, <1>5, <2>1 DEF SetSM, Quiet, Handled, IInv, TypeOK, States
<1> QED
  BY <1>4, <1>5 DEF CloseComplete, l

\* The fallback requests of a list are messages.
LEMMA FallBackTyped ==
  ASSUME NEW l \in SubscriberList, NEW s \in ListOrders(l), NEW q \in Seq(Messages)
  PROVE  q \o [i \in DOMAIN s |-> RequestATL(s[i], "SUPL")] \in Seq(Messages)
<1>1. l.subs \in SUBSET Handles
  BY DEF SubscriberList
<1>2. Cardinality(l.subs) \in Nat
  BY <1>1, ConstantsAssumption, FS_Subset, FS_CardinalityType
<1>3. s \in [1 .. Cardinality(l.subs) -> Handles]
  BY <1>1 DEF ListOrders
<1>4. \A h \in Handles : RequestATL(h, "SUPL") \in Messages
  BY DEF RequestATL, Messages, AgpsTypes
<1> DEFINE m == [i \in DOMAIN s |-> RequestATL(s[i], "SUPL")]
<1>5. m \in [1 .. Cardinality(l.subs) -> Messages]
  BY <1>3, <1>4
<1>6. m \in Seq(Messages)
  BY <1>2, <1>5
<1> QED
  BY <1>6

\* DENIED: the machine stays in a state, or leaves PENDING and RELEASING.
LEMMA DeniedFacts ==
  ASSUME IInv, NEW sm \in SMs, NEW c \in CommandLists, NEW q \in Seq(Messages),
         Denied(sm, c, q)
  PROVE  /\ Handled(sm, c)
         /\ state'[sm] # "RELEASING"
         /\ sm # "DS" /\ state'[sm] = "PENDING" => cmds'[sm] = Append(c[sm], "REQUEST")
<1>1. CASE state[sm] \in {"RELEASED", "ACQUIRED"} /\ Ignore(c, q)
  BY <1>1, IgnoreFacts
<1>2. CASE CloseComplete(sm, c, q)
  BY <1>2, CloseCompleteFacts
<1>3. CASE /\ state[sm] = "PENDING"
           /\ SetSM(sm, "RELEASED", EmptyList)
           /\ cmds' = c
           /\ UNCHANGED timers
           /\ atl' = AtlOpenStatus(list[sm].subs, FALSE)
           /\ queue' = q
           /\ UNCHANGED retries
  <2>1. atl' \in [Handles -> ModemStates]
    BY <1>3, NotifyTyped DEF IInv
  <2>2. Matches(sm, "RELEASED", EmptyList)
    BY EmptyFacts DEF Matches
  <2> QED
    BY <1>3, <2>1, <2>2, EmptyFacts DEF SetSM, Handled, IInv, TypeOK, States
<1>4. CASE /\ state[sm] = "PENDING"
           /\ SetSM(sm, "RELEASED", EmptyList)
           /\ cmds' = c
           /\ UNCHANGED timers
           /\ \E s \in ListOrders(list[sm]) :
                queue' = q \o [i \in DOMAIN s |-> RequestATL(s[i], "SUPL")]
           /\ retries' = IF list[sm].subs = {} THEN retries ELSE 0
           /\ UNCHANGED atl
  <2>1. queue' \in Seq(Messages)
    BY <1>4, FallBackTyped DEF IInv, TypeOK
  <2>2. retries' \in 0 .. MaxRetries
    BY <1>4, ConstantsAssumption DEF IInv, TypeOK
  <2>3. Matches(sm, "RELEASED", EmptyList)
    BY EmptyFacts DEF Matches
  <2> QED
    BY <1>4, <2>1, <2>2, <2>3, EmptyFacts DEF SetSM, Handled, IInv, TypeOK, States
<1> QED
  BY <1>1, <1>2, <1>3, <1>4 DEF Denied

\* RELEASED: only a framework machine that is PENDING stays so without a request.
LEMMA ReleasedFacts ==
  ASSUME IInv, NEW sm \in SMs, NEW c \in CommandLists, NEW q \in Seq(Messages),
         Released(sm, c, q)
  PROVE  /\ Handled(sm, c)
         /\ state'[sm] # "RELEASING"
         /\ sm # "DS" => Asks(sm, c, "PENDING", "REQUEST")
<1>1. CASE state[sm] = "RELEASED" /\ Ignore(c, q)
  BY <1>1, IgnoreFacts DEF Asks
<1>2. CASE state[sm] = "PENDING" /\ sm # "DS" /\ Ignore(c, q)
  BY <1>2, IgnoreFacts DEF Asks
<1>3. CASE sm = "DS" /\ Denied(sm, c, q)
  BY <1>3, DeniedFacts
<1>4. CASE /\ state[sm] = "ACQUIRED"
           /\ atl' = AtlCloseStatus(list[sm].subs)
           /\ SetSM(sm, "RELEASED", EmptyList)
           /\ Quiet(c, q)
  <2>1. atl' \in [Handles -> ModemStates]
    BY <1>4, NotifyTyped DEF IInv
  <2>2. Matches(sm, "RELEASED", EmptyList)
    BY EmptyFacts DEF Matches
  <2> QED
    BY <1>4, <2>1, <2>2, EmptyFacts DEF SetSM, Quiet, Handled, Asks, IInv, TypeOK, States
<1>5. CASE CloseComplete(sm, c, q)
  BY <1>5, CloseCompleteFacts DEF Asks
<1> QED
  BY <1>1, <1>2, <1>3, <1>4, <1>5 DEF Released

-----------------------------------------------------------------------------
(* Steps.                                                                  *)

\* A command given last is outstanding.
LEMMA AppendHas ==
  ASSUME NEW s \in Seq(Commands), NEW cmd \in Commands
  PROVE  \E i \in 1 .. Len(Append(s, cmd)) : Append(s, cmd)[i] = cmd
<1>1. Len(Append(s, cmd)) = Len(s) + 1 /\ Append(s, cmd)[Len(s) + 1] = cmd
  OBVIOUS
<1>2. Len(s) + 1 \in 1 .. Len(Append(s, cmd))
  BY <1>1
<1> QED
  BY <1>1, <1>2

\* Serving the first command leaves every different one outstanding.
LEMMA TailHas ==
  ASSUME NEW s \in Seq(Commands), s # <<>>, NEW cmd \in Commands, Head(s) # cmd,
         \E i \in 1 .. Len(s) : s[i] = cmd
  PROVE  \E i \in 1 .. Len(Tail(s)) : Tail(s)[i] = cmd
<1> PICK i \in 1 .. Len(s) : s[i] = cmd
  OBVIOUS
<1>1. i # 1
  OBVIOUS
<1>2. i - 1 \in 1 .. Len(Tail(s)) /\ Tail(s)[i - 1] = s[i]
  BY <1>1
<1> QED
  BY <1>2

\* A machine that stays in st with its commands c, or asks, waits for cmd.
LEMMA AsksWaits ==
  ASSUME NEW sm \in SMs, NEW c \in CommandLists, NEW st, NEW cmd \in Commands,
         Asks(sm, c, st, cmd), state'[sm] = st,
         state[sm] = st => \E i \in 1 .. Len(c[sm]) : c[sm][i] = cmd
  PROVE  Outstanding(sm, cmd)'
<1>1. CASE cmds'[sm] = c[sm] /\ state[sm] = st
  BY <1>1 DEF Outstanding
<1>2. CASE cmds'[sm] = Append(c[sm], cmd)
  BY <1>2, AppendHas DEF Outstanding, CommandLists
<1> QED
  BY <1>1, <1>2 DEF Asks

\* A handler keeps the invariant if its machine waits for an answer.
LEMMA HandledKeepsInv ==
  ASSUME IInv, NEW sm \in SMs, NEW c \in CommandLists, Handled(sm, c),
         \A o \in SMs \ {sm} : c[o] = cmds[o],
         state'[sm] = "RELEASING" => Outstanding(sm, "RELEASE")',
         sm # "DS" /\ state'[sm] = "PENDING" => Outstanding(sm, "REQUEST")',
         dsReady' \in BOOLEAN, pick' \in Handles \cup {None}, up' \in SUBSET SMs
  PROVE  IInv'
<1>1. TypeOK'
  BY DEF Handled, TypeOK, CommandLists, Commands
<1>2. \A o \in SMs : WellFormed(list'[o])
  BY DEF Handled, IInv
<1>3. \A o \in SMs \ {sm} : \A cmd : Outstanding(o, cmd)' <=> Outstanding(o, cmd)
  BY DEF Handled, Outstanding
<1>4. WaitsForAnAnswer'
  BY <1>3 DEF IInv, Handled, WaitsForAnAnswer, FrameworkSMs
<1>5. \A o \in SMs : Matches(o, state'[o], list'[o])
  BY DEF Handled, IInv, ListMatchesState, Matches, FrameworkSMs
<1>6. ListMatchesState'
  BY <1>5 DEF ListMatchesState, Matches, FrameworkSMs
<1> QED
  BY <1>1, <1>2, <1>4, <1>6 DEF IInv

\* A step that leaves states, lists and commands alone keeps the invariant.
LEMMA QuietKeepsInv ==
  ASSUME IInv, TypeOK', UNCHANGED <<state, list, cmds>>
  PROVE  IInv'
<1>1. WaitsForAnAnswer'
  BY DEF IInv, WaitsForAnAnswer, Outstanding
<1>2. ListMatchesState'
  BY DEF IInv, ListMatchesState
<1> QED
  BY <1>1, <1>2 DEF IInv

\* The first message is a message, and so are the others.
LEMMA QueueFacts ==
  ASSUME TypeOK, queue # <<>>
  PROVE  /\ Head(queue) \in Messages
         /\ Tail(queue) \in Seq(Messages)
         /\ Head(queue).handle \in Handles
BY DEF TypeOK, Messages

\* ProcRequestATL keeps the invariant.
LEMMA RequestStep ==
  ASSUME IInv, ProcRequestATL
  PROVE  IInv'
<1>1. /\ Head(queue) \in Messages /\ Tail(queue) \in Seq(Messages)
      /\ Head(queue).handle \in Handles
  BY QueueFacts DEF IInv, ProcRequestATL
<1>2. Head(queue).type \in AgpsTypes
  BY <1>1 DEF ProcRequestATL, Messages
<1> PICK h \in Handles : h = Head(queue).handle
  BY <1>1
<1> PICK t \in AgpsTypes : t = Head(queue).type
  BY <1>2
<1>3. getAgpsStateMachine(t) \in SMs
  BY DEF getAgpsStateMachine, AgpsTypes, SMs
<1> PICK sm \in SMs : sm = getAgpsStateMachine(t)
  BY <1>3
<1>4. dsReady' \in BOOLEAN
  BY DEF ProcRequestATL, CreateDs, IInv, TypeOK
<1>5. CASE /\ atl' = AtlOpenStatus({h}, FALSE)
           /\ Quiet(cmds, Tail(queue))
           /\ UNCHANGED <<state, list>>
  <2>1. atl' \in [Handles -> ModemStates]
    BY <1>5, NotifyTyped DEF IInv
  <2>2. TypeOK'
    BY <1>1, <1>4, <1>5, <2>1 DEF ProcRequestATL, Quiet, IInv, TypeOK
  <2> QED
    BY <1>5, <2>2, QuietKeepsInv DEF Quiet
<1>6. CASE Subscribe(sm, h, t = "SUPL_ES", cmds, Tail(queue))
  <2>1. cmds \in CommandLists
    BY DEF IInv, TypeOK, CommandLists, Commands
  <2>2. /\ Handled(sm, cmds)
        /\ Asks(sm, cmds, "PENDING", "REQUEST")
        /\ Asks(sm, cmds, "RELEASING", "RELEASE")
    BY <1>1, <1>3, <1>6, <2>1, SubscribeFacts
  <2>3. state'[sm] = "RELEASING" => Outstanding(sm, "RELEASE")'
    BY <1>3, <2>1, <2>2, AsksWaits DEF IInv, WaitsForAnAnswer, Outstanding, Commands
  <2>4. sm # "DS" /\ state'[sm] = "PENDING" => Outstanding(sm, "REQUEST")'
    BY <1>3, <2>1, <2>2, AsksWaits DEF IInv, WaitsForAnAnswer, Outstanding, Commands, FrameworkSMs
  <2>5. pick' \in Handles \cup {None} /\ up' \in SUBSET SMs
    BY DEF ProcRequestATL, IInv, TypeOK
  <2> QED
    BY <1>3, <1>4, <2>1, <2>2, <2>3, <2>4, <2>5, HandledKeepsInv
<1> QED
  BY <1>5, <1>6 DEF ProcRequestATL

\* ProcReleaseATL keeps the invariant.
LEMMA ReleaseStep ==
  ASSUME IInv, ProcReleaseATL
  PROVE  IInv'
<1> DEFINE h == Head(queue).handle
<1>1. Tail(queue) \in Seq(Messages) /\ h \in Handles
  BY QueueFacts DEF IInv, ProcReleaseATL
<1> HIDE DEF h
<1>2. /\ dsReady' \in BOOLEAN /\ pick' \in Handles \cup {None} /\ up' \in SUBSET SMs
  BY DEF ProcReleaseATL, IInv, TypeOK
<1>3. CASE \E sm \in SMs : HolderOf(h, sm) /\ Unsubscribe(sm, h, cmds, Tail(queue))
  <2> PICK sm \in SMs : HolderOf(h, sm) /\ Unsubscribe(sm, h, cmds, Tail(queue))
    BY <1>3
  <2>1. cmds \in CommandLists
    BY DEF IInv, TypeOK, CommandLists, Commands
  <2>2. /\ Handled(sm, cmds)
        /\ Asks(sm, cmds, "PENDING", "REQUEST")
        /\ Asks(sm, cmds, "RELEASING", "RELEASE")
    BY <1>1, <2>1, UnsubscribeFacts DEF HolderOf
  <2>3. state'[sm] = "RELEASING" => Outstanding(sm, "RELEASE")'
    BY <2>1, <2>2, AsksWaits DEF IInv, WaitsForAnAnswer, Outstanding, Commands
  <2>4. sm # "DS" /\ state'[sm] = "PENDING" => Outstanding(sm, "REQUEST")'
    BY <2>1, <2>2, AsksWaits DEF IInv, WaitsForAnAnswer, Outstanding, Commands, FrameworkSMs
  <2> QED
    BY <1>2, <2>1, <2>2, <2>3, <2>4, HandledKeepsInv
<1>4. CASE /\ atl' = AtlCloseFailed(h)
           /\ Quiet(cmds, Tail(queue))
           /\ UNCHANGED <<state, list>>
  <2>1. atl' \in [Handles -> ModemStates]
    BY <1>1, <1>4, NotifyTyped DEF IInv
  <2>2. TypeOK'
    BY <1>1, <1>2, <1>4, <2>1 DEF Quiet, IInv, TypeOK
  <2> QED
    BY <1>4, <2>2, QuietKeepsInv DEF Quiet
<1> QED
  BY <1>3, <1>4 DEF ProcReleaseATL, h

\* Taking the first command off one provider's commands.
LEMMA ServedFacts ==
  ASSUME TypeOK, NEW sm \in SMs, cmds[sm] # <<>>
  PROVE  /\ Served(sm) \in CommandLists
         /\ Served(sm)[sm] = Tail(cmds[sm])
         /\ \A o \in SMs \ {sm} : Served(sm)[o] = cmds[o]
         /\ cmds[sm] \in Seq(Commands)
BY DEF TypeOK, Served, CommandLists, Commands

\* The reports of a connection provider keep the invariant.
LEMMA ReportStep ==
  ASSUME IInv, NEW sm \in SMs, Provider(sm) \/ ReportLost(sm)
  PROVE  IInv'
<1> DEFINE c == Served(sm)
<1>1. cmds \in CommandLists /\ queue \in Seq(Messages)
  BY DEF IInv, TypeOK, CommandLists, Commands
<1>2. dsReady' \in BOOLEAN /\ pick' \in Handles \cup {None} /\ up' \in SUBSET SMs
  BY DEF Provider, ReportOpened, ReportOpenFailed, ReportClosed, ReportLost, IInv, TypeOK
<1>3. CASE ReportOpened(sm)
  <2>1. /\ c \in CommandLists /\ c[sm] = Tail(cmds[sm])
        /\ \A o \in SMs \ {sm} : c[o] = cmds[o]
        /\ cmds[sm] \in Seq(Commands)
    BY <1>3, ServedFacts DEF ReportOpened, IInv
  <2> HIDE DEF c
  <2>2. /\ Handled(sm, c) /\ cmds' = c /\ state'[sm] # "PENDING"
        /\ state'[sm] = "RELEASING" => state[sm] = "RELEASING"
    BY <1>1, <1>3, <2>1, GrantedFacts DEF ReportOpened, c
  <2>3. state'[sm] = "RELEASING" => Outstanding(sm, "RELEASE")'
    BY <1>3, <2>1, <2>2, TailHas, ZenonT(30)
    DEF ReportOpened, IInv, WaitsForAnAnswer, Outstanding, Commands
  <2> QED
    BY <1>2, <2>1, <2>2, <2>3, HandledKeepsInv
<1>4. CASE ReportOpenFailed(sm) /\ sm # "DS"
  <2>1. /\ c \in CommandLists /\ c[sm] = Tail(cmds[sm])
        /\ \A o \in SMs \ {sm} : c[o] = cmds[o]
    BY <1>4, ServedFacts DEF ReportOpenFailed, IInv
  <2> HIDE DEF c
  <2>2. /\ Handled(sm, c) /\ state'[sm] # "RELEASING"
        /\ state'[sm] = "PENDING" => cmds'[sm] = Append(c[sm], "REQUEST")
    BY <1>1, <1>4, <2>1, DeniedFacts DEF ReportOpenFailed, c
  <2>3. state'[sm] = "PENDING" => Outstanding(sm, "REQUEST")'
    <3>1. c[sm] \in Seq(Commands) /\ "REQUEST" \in Commands
      BY <2>1 DEF CommandLists, Commands
    <3> QED
      BY <2>2, <3>1, AppendHas DEF Outstanding
  <2> QED
    BY <1>2, <2>1, <2>2, <2>3, HandledKeepsInv
<1>5. CASE ReportOpenFailed(sm) /\ sm = "DS"
  <2>1. /\ c \in CommandLists /\ \A o \in SMs \ {sm} : c[o] = cmds[o]
    BY <1>5, ServedFacts DEF ReportOpenFailed, IInv
  <2> HIDE DEF c
  <2>2. Handled(sm, c) /\ state'[sm] # "RELEASING"
    BY <1>1, <1>5, <2>1, ReleasedFacts DEF ReportOpenFailed, c
  <2> QED
    BY <1>2, <1>5, <2>1, <2>2, HandledKeepsInv
<1>6. CASE ReportClosed(sm)
  <2>1. /\ c \in CommandLists /\ c[sm] = Tail(cmds[sm])
        /\ \A o \in SMs \ {sm} : c[o] = cmds[o]
        /\ cmds[sm] \in Seq(Commands)
    BY <1>6, ServedFacts DEF ReportClosed, IInv
  <2> HIDE DEF c
  <2>2. /\ Handled(sm, c) /\ state'[sm] # "RELEASING"
        /\ sm # "DS" => Asks(sm, c, "PENDING", "REQUEST")
    BY <1>1, <1>6, <2>1, ReleasedFacts DEF ReportClosed, c
  <2>3. sm # "DS" /\ state[sm] = "PENDING" =>
          \E i \in 1 .. Len(c[sm]) : c[sm][i] = "REQUEST"
    BY <1>6, <2>1, TailHas
    DEF ReportClosed, IInv, WaitsForAnAnswer, Outstanding, Commands, FrameworkSMs
  <2>4. sm # "DS" /\ state'[sm] = "PENDING" => Outstanding(sm, "REQUEST")'
    BY <2>1, <2>2, <2>3, AsksWaits DEF Commands
  <2> QED
    BY <1>2, <2>1, <2>2, <2>4, HandledKeepsInv
<1>7. CASE ReportLost(sm)
  <2>1. /\ Handled(sm, cmds) /\ state'[sm] # "RELEASING"
        /\ sm # "DS" => Asks(sm, cmds, "PENDING", "REQUEST")
    BY <1>1, <1>7, ReleasedFacts DEF ReportLost
  <2>2. sm # "DS" /\ state'[sm] = "PENDING" => Outstanding(sm, "REQUEST")'
    BY <1>1, <2>1, AsksWaits DEF IInv, WaitsForAnAnswer, Outstanding, Commands, FrameworkSMs
  <2> QED
    BY <1>1, <1>2, <2>1, <2>2, HandledKeepsInv
<1> QED
  BY <1>3, <1>4, <1>5, <1>6, <1>7 DEF Provider

\* The steps of the timer thread and of the modem keep the invariant.
LEMMA OutsideStep ==
  ASSUME IInv,
         \/ RetryRead \/ RetryPost
         \/ \E h \in Handles : ModemRelease(h) \/ \E t \in ReqTypes : ModemRequest(h, t)
  PROVE  IInv'
<1>1. CASE RetryRead
  BY <1>1, QuietKeepsInv DEF RetryRead, IInv, TypeOK
<1>2. CASE RetryPost
  <2>1. RequestATL(pick, "SUPL_ES") \in Messages
    BY <1>2 DEF RetryPost, RequestATL, Messages, AgpsTypes, IInv, TypeOK
  <2>2. TypeOK'
    BY <1>2, <2>1 DEF RetryPost, IInv, TypeOK
  <2> QED
    BY <1>2, <2>2, QuietKeepsInv DEF RetryPost
<1>3. ASSUME NEW h \in Handles, ModemRelease(h)
      PROVE  IInv'
  <2>1. ReleaseATL(h) \in Messages
    BY DEF ReleaseATL, Messages
  <2>2. TypeOK'
    BY <1>3, <2>1 DEF ModemRelease, IInv, TypeOK, ModemStates
  <2> QED
    BY <1>3, <2>2, QuietKeepsInv DEF ModemRelease
<1>4. ASSUME NEW h \in Handles, NEW t \in ReqTypes, ModemRequest(h, t)
      PROVE  IInv'
  <2>1. RequestATL(h, t) \in Messages
    BY ConstantsAssumption DEF RequestATL, Messages
  <2>2. TypeOK'
    BY <1>4, <2>1 DEF ModemRequest, IInv, TypeOK, ModemStates
  <2> QED
    BY <1>4, <2>2, QuietKeepsInv DEF ModemRequest
<1> QED
  BY <1>1, <1>2, <1>3, <1>4

\* IInv holds initially and every step keeps it.
THEOREM Invariance == Spec => []IInv
<1>1. Init => IInv
  <2> SUFFICES ASSUME Init PROVE IInv
    OBVIOUS
  <2>1. TypeOK
    <3>1. MaxRetries \in Nat
      BY ConstantsAssumption
    <3>2. queue \in Seq(Messages) /\ cmds \in [SMs -> Seq({"REQUEST", "RELEASE"})]
      BY DEF Init
    <3>3. state \in [SMs -> States] /\ list \in [SMs -> SubscriberList]
          /\ atl \in [Handles -> ModemStates]
      BY EmptyFacts DEF Init, States, ModemStates
    <3>4. dsReady \in BOOLEAN
      BY DEF Init
    <3> QED
      BY <3>1, <3>2, <3>3, <3>4 DEF Init, TypeOK
  <2>2. /\ \A sm \in SMs : WellFormed(list[sm])
        /\ WaitsForAnAnswer /\ ListMatchesState
    BY EmptyFacts DEF Init, WaitsForAnAnswer, ListMatchesState, FrameworkSMs
  <2> QED
    BY <2>1, <2>2 DEF IInv
<1>2. IInv /\ [Next]_vars => IInv'
  <2> SUFFICES ASSUME IInv, [Next]_vars PROVE IInv'
    OBVIOUS
  <2>1. CASE UNCHANGED vars
    BY <2>1 DEF vars, IInv, TypeOK, WaitsForAnAnswer, ListMatchesState, Outstanding
  <2>2. CASE MsgTask
    BY <2>2, RequestStep, ReleaseStep DEF MsgTask
  <2>3. CASE \E sm \in SMs : Provider(sm) \/ ReportLost(sm)
    BY <2>3, ReportStep
  <2>4. CASE \/ RetryRead \/ RetryPost
             \/ \E h \in Handles :
                  ModemRelease(h) \/ \E t \in ReqTypes : ModemRequest(h, t)
    BY <2>4, OutsideStep
  <2> QED
    BY <2>1, <2>2, <2>3, <2>4 DEF Next
<1> QED
  BY <1>1, <1>2, PTL DEF Spec

\* Every variable keeps its type, whatever the handles and the limits.
THEOREM TypeCorrect == Spec => []TypeOK
<1>1. IInv => TypeOK
  BY DEF IInv
<1> QED
  BY <1>1, Invariance, PTL

\* No machine closes, and no framework machine is pending, without a command
\* the provider still has to answer.
THEOREM AlwaysWaitsForAnAnswer == Spec => []WaitsForAnAnswer
<1>1. IInv => WaitsForAnAnswer
  BY DEF IInv
<1> QED
  BY <1>1, Invariance, PTL

\* The state of every machine agrees with its subscriber list.
THEOREM ListAlwaysMatchesState == Spec => []ListMatchesState
<1>1. IInv => ListMatchesState
  BY DEF IInv
<1> QED
  BY <1>1, Invariance, PTL

-----------------------------------------------------------------------------
(* What becomes of a handle, without the emergency PDN: the DS machine is  *)
(* not used, and each handle follows its own requests and releases.        *)

\* The message m asks for the handle h, or gives it back
Wants(m, h) == m.kind = "requestATL" /\ m.handle = h
Frees(m, h) == m.kind = "releaseATL" /\ m.handle = h

Req(q, h)    == \E i \in DOMAIN q : Wants(q[i], h)
Rel(q, h)    == \E i \in DOMAIN q : Frees(q[i], h)
Before(q, h) == \E i, j \in DOMAIN q : i < j /\ Wants(q[i], h) /\ Frees(q[j], h)

\* No more than one request of h, and one release
Once(q, h) ==
  \A i, j \in DOMAIN q :
    (Wants(q[i], h) /\ Wants(q[j], h)) \/ (Frees(q[i], h) /\ Frees(q[j], h)) => i = j

\* A request waits for a handle that has no machine, and its release behind it
Mail(h) ==
  /\ Once(queue, h)
  /\ Req(queue, h) => /\ atl[h] \in {"asked", "closing"}
                      /\ atl[h] = "closing" <=> Before(queue, h)
                      /\ \A sm \in SMs : h \notin list[sm].subs

\* A subscriber of one machine is known to the modem as what it is
Member(h) ==
  /\ \A a, b \in SMs : h \in list[a].subs /\ h \in list[b].subs => a = b
  /\ \A sm \in SMs : h \in list[sm].subs => atl[h] # "idle" /\ (Rel(queue, h) => atl[h] = "closing")
  /\ \A sm \in SMs : h \in list[sm].inactive => atl[h] = "closing"

\* What the modem waits for, or has
Promised(h) ==
  /\ atl[h] = "open" => \E sm \in SMs : state[sm] = "ACQUIRED" /\ h \in active(list[sm])
  /\ atl[h] = "asked" =>
       \/ Req(queue, h)
       \/ \E sm \in SMs : h \in active(list[sm]) /\ state[sm] \in {"PENDING", "RELEASING"}

DsUnused ==
  /\ state["DS"] = "RELEASED" /\ list["DS"].subs = {} /\ cmds["DS"] = <<>> /\ "DS" \notin up
  /\ timers = 0 /\ pick = None

UpWhenAcquired == \A sm \in SMs : state[sm] = "ACQUIRED" => sm \in up

\* The inductive invariant without the emergency PDN
HInv ==
  /\ IInv /\ DsUnused /\ UpWhenAcquired
  /\ \A h \in Handles : Mail(h) /\ Member(h) /\ Promised(h)

\* The messages about h are the same
SameMail(q, p, h) ==
  /\ Req(p, h) <=> Req(q, h)
  /\ Rel(p, h) <=> Rel(q, h)
  /\ Before(p, h) <=> Before(q, h)
  /\ Once(q, h) => Once(p, h)

\* What a message posted adds.
LEMMA Posted ==
  ASSUME NEW q \in Seq(Messages), NEW m \in Messages, NEW h \in Handles
  PROVE  LET p == Append(q, m)
         IN  /\ Req(p, h) <=> Req(q, h) \/ Wants(m, h)
             /\ Rel(p, h) <=> Rel(q, h) \/ Frees(m, h)
             /\ Before(p, h) <=> Before(q, h) \/ (Req(q, h) /\ Frees(m, h))
             /\ Once(q, h) /\ (Wants(m, h) => ~Req(q, h)) /\ (Frees(m, h) => ~Rel(q, h)) => Once(p, h)
<1> DEFINE n == Len(q)
           p == Append(q, m)
<1>1. /\ n \in Nat /\ DOMAIN q = 1 .. n /\ DOMAIN p = 1 .. n + 1
      /\ p[n + 1] = m /\ \A i \in 1 .. n : p[i] = q[i]
  OBVIOUS
<1>2. \A i \in 1 .. n + 1 : i \in 1 .. n \/ i = n + 1
  BY <1>1
<1> HIDE DEF n, p
<1>3. Req(p, h) <=> Req(q, h) \/ Wants(m, h)
  BY <1>1, <1>2 DEF Req
<1>4. Rel(p, h) <=> Rel(q, h) \/ Frees(m, h)
  BY <1>1, <1>2 DEF Rel
<1>5. ~(Wants(m, h) /\ Frees(m, h))
  BY DEF Wants, Frees
<1>6. Before(p, h) <=> Before(q, h) \/ (Req(q, h) /\ Frees(m, h))
  <2>1. ASSUME Before(p, h)
        PROVE  Before(q, h) \/ (Req(q, h) /\ Frees(m, h))
    <3>1. PICK i, j \in 1 .. n + 1 : i < j /\ Wants(p[i], h) /\ Frees(p[j], h)
      BY <1>1, <2>1 DEF Before
    <3>2. i \in 1 .. n
      BY <1>1, <3>1
    <3> QED
      BY <1>1, <1>2, <3>1, <3>2 DEF Before, Req
  <2>2. ASSUME Before(q, h)
        PROVE  Before(p, h)
    <3>1. PICK i, j \in 1 .. n : i < j /\ Wants(q[i], h) /\ Frees(q[j], h)
      BY <1>1, <2>2 DEF Before
    <3>2. i \in 1 .. n + 1 /\ j \in 1 .. n + 1
      BY <1>1
    <3> QED
      BY <1>1, <3>1, <3>2 DEF Before
  <2>3. ASSUME Req(q, h), Frees(m, h)
        PROVE  Before(p, h)
    <3>1. PICK i \in 1 .. n : Wants(q[i], h)
      BY <1>1, <2>3 DEF Req
    <3>2. i \in 1 .. n + 1 /\ n + 1 \in 1 .. n + 1 /\ i < n + 1
      BY <1>1
    <3> QED
      BY <1>1, <2>3, <3>1, <3>2 DEF Before
  <2> QED
    BY <2>1, <2>2, <2>3
<1>7. ASSUME Once(q, h), Wants(m, h) => ~Req(q, h), Frees(m, h) => ~Rel(q, h)
      PROVE  Once(p, h)
  <2> SUFFICES ASSUME NEW i \in 1 .. n + 1, NEW j \in 1 .. n + 1,
                      \/ Wants(p[i], h) /\ Wants(p[j], h)
                      \/ Frees(p[i], h) /\ Frees(p[j], h)
               PROVE  i = j
    BY <1>1 DEF Once
  <2>1. CASE i \in 1 .. n /\ j \in 1 .. n
    BY <1>1, <1>7, <2>1 DEF Once
  <2>2. CASE i \in 1 .. n /\ j = n + 1
    BY <1>1, <1>7, <2>2 DEF Req, Rel
  <2>3. CASE j \in 1 .. n /\ i = n + 1
    BY <1>1, <1>7, <2>3 DEF Req, Rel
  <2> QED
    BY <1>2, <2>1, <2>2, <2>3
<1> QED
  BY <1>3, <1>4, <1>6, <1>7 DEF p

\* What is left when the first message is taken.
LEMMA Taken ==
  ASSUME NEW q \in Seq(Messages), q # <<>>, NEW h \in Handles
  PROVE  LET t == Tail(q)
             m == Head(q)
         IN  /\ Req(q, h) <=> Req(t, h) \/ Wants(m, h)
             /\ Rel(q, h) <=> Rel(t, h) \/ Frees(m, h)
             /\ Before(q, h) <=> Before(t, h) \/ (Wants(m, h) /\ Rel(t, h))
             /\ Once(q, h) => /\ Once(t, h)
                              /\ Wants(m, h) => ~Req(t, h)
                              /\ Frees(m, h) => ~Rel(t, h)
<1> DEFINE n == Len(q)
           t == Tail(q)
           m == Head(q)
<1>1. /\ n \in Nat \ {0} /\ DOMAIN q = 1 .. n /\ DOMAIN t = 1 .. n - 1
      /\ q[1] = m /\ \A i \in 1 .. n - 1 : t[i] = q[i + 1]
  OBVIOUS
<1>2. /\ \A i \in 1 .. n - 1 : i + 1 \in 1 .. n
      /\ \A i \in 1 .. n : i = 1 \/ (i - 1 \in 1 .. n - 1 /\ (i - 1) + 1 = i)
      /\ 1 \in 1 .. n
  BY <1>1
<1> HIDE DEF n, t, m
<1>3. \A i \in 1 .. n : i = 1 \/ \E k \in 1 .. n - 1 : i = k + 1 /\ t[k] = q[i]
  <2> TAKE i \in 1 .. n
  <2>1. CASE i # 1
    <3>1. i - 1 \in 1 .. n - 1 /\ i = (i - 1) + 1
      BY <1>2, <2>1
    <3>2. t[i - 1] = q[(i - 1) + 1]
      BY <1>1, <3>1
    <3> QED
      BY <3>1, <3>2
  <2> QED
    BY <2>1
<1>4. Req(q, h) <=> Req(t, h) \/ Wants(m, h)
  BY <1>1, <1>2, <1>3 DEF Req
<1>5. Rel(q, h) <=> Rel(t, h) \/ Frees(m, h)
  BY <1>1, <1>2, <1>3 DEF Rel
<1>6. Before(q, h) <=> Before(t, h) \/ (Wants(m, h) /\ Rel(t, h))
  <2>1. ASSUME Before(q, h)
        PROVE  Before(t, h) \/ (Wants(m, h) /\ Rel(t, h))
    <3>1. PICK i, j \in 1 .. n : i < j /\ Wants(q[i], h) /\ Frees(q[j], h)
      BY <1>1, <2>1 DEF Before
    <3>2. j # 1
      BY <1>1, <3>1
    <3>3. PICK k \in 1 .. n - 1 : j = k + 1 /\ t[k] = q[j]
      BY <1>3, <3>2
    <3>4. CASE i = 1
      BY <1>1, <3>1, <3>3, <3>4 DEF Rel
    <3>5. CASE i # 1
      <4>1. PICK l \in 1 .. n - 1 : i = l + 1 /\ t[l] = q[i]
        BY <1>3, <3>5
      <4>2. l < k
        BY <1>1, <3>1, <3>3, <4>1
      <4> QED
        BY <1>1, <3>1, <3>3, <4>1, <4>2 DEF Before
    <3> QED
      BY <3>4, <3>5
  <2>2. ASSUME Before(t, h)
        PROVE  Before(q, h)
    <3>1. PICK i, j \in 1 .. n - 1 : i < j /\ Wants(t[i], h) /\ Frees(t[j], h)
      BY <1>1, <2>2 DEF Before
    <3>2. /\ i + 1 \in 1 .. n /\ j + 1 \in 1 .. n /\ i + 1 < j + 1
          /\ Wants(q[i + 1], h) /\ Frees(q[j + 1], h)
      BY <1>1, <1>2, <3>1
    <3> QED
      BY <1>1, <3>2 DEF Before
  <2>3. ASSUME Wants(m, h), Rel(t, h)
        PROVE  Before(q, h)
    <3>1. PICK j \in 1 .. n - 1 : Frees(t[j], h)
      BY <1>1, <2>3 DEF Rel
    <3>2. j + 1 \in 1 .. n /\ 1 < j + 1 /\ Frees(q[j + 1], h) /\ Wants(q[1], h)
      BY <1>1, <1>2, <2>3, <3>1
    <3> QED
      BY <1>1, <1>2, <3>2 DEF Before
  <2> QED
    BY <2>1, <2>2, <2>3
<1>7. ASSUME Once(q, h)
      PROVE  Once(t, h)
  <2> SUFFICES ASSUME NEW i \in 1 .. n - 1, NEW j \in 1 .. n - 1,
                      \/ Wants(t[i], h) /\ Wants(t[j], h)
                      \/ Frees(t[i], h) /\ Frees(t[j], h)
               PROVE  i = j
    BY <1>1 DEF Once
  <2>1. i + 1 \in 1 .. n /\ j + 1 \in 1 .. n /\ t[i] = q[i + 1] /\ t[j] = q[j + 1]
    BY <1>1, <1>2
  <2>2. i + 1 = j + 1
    BY <1>1, <1>7, <2>1 DEF Once
  <2> QED
    BY <1>1, <2>2
<1>8. ASSUME Once(q, h)
      PROVE  (Wants(m, h) => ~Req(t, h)) /\ (Frees(m, h) => ~Rel(t, h))
  <2>1. \A i \in 1 .. n - 1 : t[i] = q[i + 1] /\ i + 1 \in 1 .. n /\ i + 1 # 1
    BY <1>1, <1>2
  <2>2. \A k \in 1 .. n : k # 1 => ~(Wants(m, h) /\ Wants(q[k], h)) /\ ~(Frees(m, h) /\ Frees(q[k], h))
    BY <1>1, <1>2, <1>8 DEF Once
  <2> QED
    BY <1>1, <2>1, <2>2 DEF Req, Rel
<1> QED
  BY <1>4, <1>5, <1>6, <1>7, <1>8 DEF t, m

\* A queue that has only grown or lost a message about another handle.
LEMMA OtherTaken ==
  ASSUME NEW q \in Seq(Messages), q # <<>>, NEW h \in Handles, Head(q).handle # h
  PROVE  SameMail(q, Tail(q), h)
<1>1. ~Wants(Head(q), h) /\ ~Frees(Head(q), h)
  BY DEF Wants, Frees
<1> QED
  BY <1>1, Taken DEF SameMail

\* The same at the other end.
LEMMA OtherPosted ==
  ASSUME NEW q \in Seq(Messages), NEW m \in Messages, NEW h \in Handles, m.handle # h
  PROVE  SameMail(q, Append(q, m), h)
<1>1. ~Wants(m, h) /\ ~Frees(m, h)
  BY DEF Wants, Frees
<1> QED
  BY <1>1, Posted DEF SameMail

\* A request before a release is a request, and a release.
LEMMA BeforeIs ==
  ASSUME NEW q, NEW h, Before(q, h)
  PROVE  Req(q, h) /\ Rel(q, h)
BY DEF Before, Req, Rel

\* The messages tell the model's own words.
LEMMA QueuedIs ==
  ASSUME TypeOK, NEW h \in Handles
  PROVE  /\ Rel(queue, h) <=> Queued(ReleaseATL(h))
         /\ Req(queue, h) => RequestQueued(h)
<1>1. queue \in Seq(Messages) /\ DOMAIN queue = 1 .. Len(queue)
  BY DEF TypeOK
<1>2. \A i \in 1 .. Len(queue) : queue[i] \in Messages
  BY <1>1
<1>3. \A m \in Messages : Frees(m, h) <=> m = ReleaseATL(h)
  BY DEF Messages, Frees, ReleaseATL
<1>4. \A m \in Messages : Wants(m, h) => \E type \in AgpsTypes : m = RequestATL(h, type)
  BY DEF Messages, Wants, RequestATL
<1>5. Rel(queue, h) <=> Queued(ReleaseATL(h))
  BY <1>1, <1>2, <1>3 DEF Rel, Queued
<1>6. ASSUME Req(queue, h)
      PROVE  RequestQueued(h)
  <2>1. PICK i \in 1 .. Len(queue) : Wants(queue[i], h)
    BY <1>1, <1>6 DEF Req
  <2>2. PICK type \in AgpsTypes : queue[i] = RequestATL(h, type)
    BY <1>2, <1>4, <2>1
  <2> QED
    BY <2>2 DEF RequestQueued, Queued
<1> QED
  BY <1>5, <1>6

-----------------------------------------------------------------------------
(* What an event of machine sm does to a handle it is not about.           *)

Turns(sm, h) ==
  /\ h \in list'[sm].subs => h \in list[sm].subs
  /\ h \in list'[sm].inactive => h \in list[sm].inactive
  /\ \/ atl'[h] = atl[h]
     \/ atl'[h] = "idle" /\ h \in list[sm].subs /\ h \notin list'[sm].subs
     \/ /\ atl[h] = "asked" /\ atl'[h] = "open"
        /\ state'[sm] = "ACQUIRED" /\ h \in active(list'[sm])
  /\ h \in active(list[sm]) /\ atl'[h] = "asked" /\ state[sm] \in {"PENDING", "RELEASING"} =>
       state'[sm] \in {"PENDING", "RELEASING"} /\ h \in active(list'[sm])
  /\ h \in active(list[sm]) /\ atl'[h] = "open" /\ state[sm] = "ACQUIRED" =>
       state'[sm] = "ACQUIRED" /\ h \in active(list'[sm])

\* The other machines stay as they are
OthersStay(sm) == \A o \in SMs \ {sm} : state'[o] = state[o] /\ list'[o] = list[o]

\* What is true of a handle stays true when a machine turns.
LEMMA TurnKeeps ==
  ASSUME NEW h \in Handles, Mail(h), Member(h), Promised(h), NEW sm \in SMs,
         Turns(sm, h), OthersStay(sm), SameMail(queue, queue', h),
         \A o \in SMs : WellFormed(list[o]), \A o \in SMs : WellFormed(list'[o])
  PROVE  Mail(h)' /\ Member(h)' /\ Promised(h)'
<1>1. \A o \in SMs : h \in list'[o].subs => h \in list[o].subs
  BY DEF Turns, OthersStay
<1>2. \A o \in SMs : h \in list'[o].inactive => h \in list[o].inactive /\ h \in list'[o].subs
  BY DEF Turns, OthersStay, WellFormed
<1>3. \A o \in SMs : h \in active(list'[o]) => h \in list'[o].subs
  BY DEF active
<1>4. \/ atl'[h] = atl[h]
      \/ atl'[h] = "idle" /\ \A o \in SMs : h \notin list'[o].subs
      \/ /\ atl[h] = "asked" /\ atl'[h] = "open"
         /\ state'[sm] = "ACQUIRED" /\ h \in active(list'[sm])
  BY <1>1 DEF Turns, Member
<1>5. Mail(h)'
  <2>1. Once(queue, h)'
    BY DEF Mail, SameMail
  <2>2. ASSUME Req(queue', h)
        PROVE  /\ atl'[h] = atl[h] /\ atl[h] \in {"asked", "closing"}
               /\ atl[h] = "closing" <=> Before(queue', h)
               /\ \A o \in SMs : h \notin list'[o].subs
    <3>1. /\ atl[h] \in {"asked", "closing"}
          /\ atl[h] = "closing" <=> Before(queue, h)
          /\ \A o \in SMs : h \notin list[o].subs
      BY <2>2 DEF Mail, SameMail
    <3>2. \A o \in SMs : h \notin list'[o].subs
      BY <1>1, <3>1
    <3>3. atl'[h] = atl[h]
      BY <1>3, <3>1, <3>2 DEF Turns
    <3> QED
      BY <3>1, <3>2, <3>3 DEF SameMail
  <2> QED
    BY <2>1, <2>2 DEF Mail
<1>6. Member(h)'
  <2>1. \A a, b \in SMs : h \in list'[a].subs /\ h \in list'[b].subs => a = b
    BY <1>1 DEF Member
  <2>2. ASSUME NEW o \in SMs, h \in list'[o].subs
        PROVE  atl'[h] # "idle" /\ (Rel(queue', h) => atl'[h] = "closing")
    <3>1. atl[h] # "idle" /\ (Rel(queue', h) => atl[h] = "closing")
      BY <1>1, <2>2 DEF Member, SameMail
    <3> QED
      BY <1>4, <2>2, <3>1
  <2>3. ASSUME NEW o \in SMs, h \in list'[o].inactive
        PROVE  atl'[h] = "closing"
    <3>1. atl[h] = "closing"
      BY <1>2, <2>3 DEF Member
    <3> QED
      BY <1>2, <1>4, <2>3, <3>1
  <2> QED
    BY <2>1, <2>2, <2>3 DEF Member
<1>7. Promised(h)'
  <2>1. ASSUME atl'[h] = "open"
        PROVE  \E o \in SMs : state'[o] = "ACQUIRED" /\ h \in active(list'[o])
    <3>1. CASE atl[h] = "open"
      <4>1. PICK o \in SMs : state[o] = "ACQUIRED" /\ h \in active(list[o])
        BY <3>1 DEF Promised
      <4>2. CASE o = sm
        BY <2>1, <4>1, <4>2 DEF Turns
      <4>3. CASE o # sm
        BY <4>1, <4>3 DEF OthersStay
      <4> QED
        BY <4>2, <4>3
    <3>2. CASE atl[h] # "open"
      BY <1>4, <2>1, <3>2
    <3> QED
      BY <3>1, <3>2
  <2>2. ASSUME atl'[h] = "asked"
        PROVE  \/ Req(queue', h)
               \/ \E o \in SMs : h \in active(list'[o]) /\ state'[o] \in {"PENDING", "RELEASING"}
    <3>1. atl[h] = "asked"
      BY <1>4, <2>2
    <3>2. CASE Req(queue, h)
      BY <3>2 DEF SameMail
    <3>3. CASE \E o \in SMs : h \in active(list[o]) /\ state[o] \in {"PENDING", "RELEASING"}
      <4>1. PICK o \in SMs : h \in active(list[o]) /\ state[o] \in {"PENDING", "RELEASING"}
        BY <3>3
      <4>2. CASE o = sm
        BY <2>2, <4>1, <4>2 DEF Turns
      <4>3. CASE o # sm
        BY <4>1, <4>3 DEF OthersStay
      <4> QED
        BY <4>2, <4>3
    <3> QED
      BY <3>1, <3>2, <3>3 DEF Promised
  <2> QED
    BY <2>1, <2>2 DEF Promised
<1> QED
  BY <1>5, <1>6, <1>7

-----------------------------------------------------------------------------
(* The events of a framework machine.                                      *)

\* The two halves of the invariant on a machine and a handle.
LEMMA HandleTyped ==
  ASSUME HInv, NEW sm \in SMs, NEW h \in Handles
  PROVE  /\ list[sm] \in SubscriberList /\ WellFormed(list[sm])
         /\ Mail(h) /\ Member(h) /\ Promised(h)
         /\ state \in [SMs -> States] /\ list \in [SMs -> SubscriberList]
         /\ atl \in [Handles -> ModemStates]
BY DEF HInv, IInv, TypeOK

\* An open handle is in no machine but an acquired one, an asked one is active.
LEMMA MemberIs ==
  ASSUME NEW h \in Handles, Mail(h), Member(h), Promised(h), NEW sm \in SMs, h \in list[sm].subs,
         \A o \in SMs : WellFormed(list[o])
  PROVE  /\ atl[h] = "open" => state[sm] = "ACQUIRED" /\ h \in active(list[sm])
         /\ atl[h] = "asked" => state[sm] \in {"PENDING", "RELEASING"} /\ h \in active(list[sm])
         /\ atl[h] # "idle" /\ ~Req(queue, h)
<1>1. \A o \in SMs : h \in active(list[o]) => o = sm
  BY DEF Member, active
<1>2. ~Req(queue, h)
  BY DEF Mail
<1> QED
  BY <1>1, <1>2 DEF Promised, Member

\* A framework machine always gives the command.
LEMMA FrameworkAsks ==
  ASSUME NEW sm \in SMs, sm # "DS", NEW l, NEW c, NEW q, NEW ok \in BOOLEAN,
         RequestDataConn(sm, l, c, q, ok)
  PROVE  ok /\ queue' = q /\ timers' = timers
BY DEF RequestDataConn, FrameworkRequest

\* A machine and its list, once they are set.
LEMMA SetIs ==
  ASSUME TypeOK, NEW sm \in SMs, NEW st, NEW l, SetSM(sm, st, l)
  PROVE  state'[sm] = st /\ list'[sm] = l /\ OthersStay(sm)
BY DEF TypeOK, SetSM, OthersStay

\* An event that is ignored.
LEMMA IgnoreTurns ==
  ASSUME HInv, NEW sm \in SMs, NEW c, NEW q, Ignore(c, q)
  PROVE  /\ \A h \in Handles : Turns(sm, h)
         /\ OthersStay(sm) /\ queue' = q /\ timers' = timers
BY DEF Ignore, Quiet, Turns, OthersStay

\* What the modem makes of a notification.
LEMMA NotifyIs ==
  ASSUME NEW hs, NEW h \in Handles
  PROVE  /\ AtlOpenStatus(hs, TRUE)[h] = IF h \in hs /\ atl[h] = "asked" THEN "open" ELSE atl[h]
         /\ AtlOpenStatus(hs, FALSE)[h] = IF h \in hs /\ atl[h] = "asked" THEN "idle" ELSE atl[h]
         /\ AtlCloseStatus(hs)[h] = IF h \in hs THEN "idle" ELSE atl[h]
BY DEF AtlOpenStatus, AtlCloseStatus

\* GRANTED.
LEMMA GrantedTurns ==
  ASSUME HInv, NEW sm \in SMs, NEW c, NEW q, Granted(sm, c, q)
  PROVE  /\ \A h \in Handles : Turns(sm, h)
         /\ OthersStay(sm) /\ queue' = q /\ timers' = timers
<1>1. CASE state[sm] # "PENDING" /\ Ignore(c, q)
  BY <1>1, IgnoreTurns
<1>2. CASE /\ state[sm] = "PENDING"
           /\ atl' = AtlOpenStatus(active(list[sm]), TRUE)
           /\ SetSM(sm, "ACQUIRED", list[sm])
           /\ Quiet(c, q)
  <2>1. state'[sm] = "ACQUIRED" /\ list'[sm] = list[sm] /\ OthersStay(sm)
    BY <1>2, SetIs DEF HInv, IInv
  <2>2. \A h \in Handles : atl'[h] = IF h \in active(list[sm]) /\ atl[h] = "asked" THEN "open" ELSE atl[h]
    BY <1>2, NotifyIs
  <2>3. \A h \in Handles : Turns(sm, h)
    BY <1>2, <2>1, <2>2 DEF Turns
  <2> QED
    BY <1>2, <2>1, <2>3 DEF Quiet
<1> QED
  BY <1>1, <1>2 DEF Granted

\* The end of a close.
LEMMA CloseCompleteTurns ==
  ASSUME HInv, NEW sm \in SMs, sm # "DS", NEW c, NEW q, CloseComplete(sm, c, q)
  PROVE  /\ \A h \in Handles : Turns(sm, h)
         /\ OthersStay(sm) /\ queue' = q /\ timers' = timers
         /\ state'[sm] # "ACQUIRED"
<1> DEFINE l == deleteSubscribers(list[sm], list[sm].inactive)
<1>1. list[sm] \in SubscriberList /\ WellFormed(list[sm])
  BY DEF HInv, IInv, TypeOK
<1>2. l.subs = list[sm].subs \ list[sm].inactive /\ l.inactive = {} /\ active(l) = active(list[sm])
  BY <1>1 DEF deleteSubscribers, active
<1> HIDE DEF l
<1>3. state[sm] = "RELEASING" /\ atl' = AtlCloseStatus(list[sm].inactive)
  BY DEF CloseComplete
<1>4. /\ list'[sm] = l /\ OthersStay(sm) /\ queue' = q /\ timers' = timers
      /\ state'[sm] = IF active(l) # {} THEN "PENDING" ELSE "RELEASED"
  <2>1. CASE /\ active(l) # {} /\ SetSM(sm, "PENDING", l)
             /\ \E ok \in BOOLEAN : RequestDataConn(sm, l, c, q, ok)
    <3>1. state'[sm] = "PENDING" /\ list'[sm] = l /\ OthersStay(sm)
      BY <2>1, SetIs DEF HInv, IInv
    <3>2. queue' = q /\ timers' = timers
      BY <2>1, FrameworkAsks
    <3> QED
      BY <2>1, <3>1, <3>2
  <2>2. CASE active(l) = {} /\ SetSM(sm, "RELEASED", l) /\ Quiet(c, q)
    <3>1. state'[sm] = "RELEASED" /\ list'[sm] = l /\ OthersStay(sm)
      BY <2>2, SetIs DEF HInv, IInv
    <3> QED
      BY <2>2, <3>1 DEF Quiet
  <2> QED
    BY <2>1, <2>2 DEF CloseComplete, l
<1>5. \A h \in Handles : atl'[h] = IF h \in list[sm].inactive THEN "idle" ELSE atl[h]
  BY <1>3, NotifyIs
<1>6. list[sm].inactive \subseteq list[sm].subs
  BY <1>1 DEF WellFormed
<1>7. \A h \in Handles : Turns(sm, h)
  BY <1>2, <1>3, <1>4, <1>5, <1>6 DEF Turns
<1> QED
  BY <1>4, <1>7

\* DENIED.
LEMMA DeniedTurns ==
  ASSUME HInv, NEW sm \in SMs, sm # "DS", NEW c, NEW q, Denied(sm, c, q)
  PROVE  /\ \A h \in Handles : Turns(sm, h)
         /\ OthersStay(sm) /\ queue' = q /\ timers' = timers
         /\ state'[sm] = "ACQUIRED" => state[sm] = "ACQUIRED"
<1>1. CASE Ignore(c, q)
  BY <1>1, IgnoreTurns DEF Ignore
<1>2. CASE CloseComplete(sm, c, q)
  BY <1>2, CloseCompleteTurns
<1>3. CASE /\ state[sm] = "PENDING" /\ SetSM(sm, "RELEASED", EmptyList)
           /\ UNCHANGED timers /\ atl' = AtlOpenStatus(list[sm].subs, FALSE) /\ queue' = q
  <2>1. state'[sm] = "RELEASED" /\ list'[sm] = EmptyList /\ OthersStay(sm)
    BY <1>3, SetIs DEF HInv, IInv
  <2>2. \A h \in Handles : atl'[h] = IF h \in list[sm].subs /\ atl[h] = "asked" THEN "idle" ELSE atl[h]
    BY <1>3, NotifyIs
  <2>3. EmptyList.subs = {} /\ EmptyList.inactive = {}
    BY DEF EmptyList
  <2>4. active(list[sm]) \subseteq list[sm].subs
    BY DEF active
  <2>5. \A h \in Handles : Turns(sm, h)
    BY <1>3, <2>1, <2>2, <2>3, <2>4 DEF Turns
  <2> QED
    BY <1>3, <2>1, <2>5
<1> QED
  BY <1>1, <1>2, <1>3 DEF Denied

\* RELEASED.
LEMMA ReleasedTurns ==
  ASSUME HInv, NEW sm \in SMs, sm # "DS", NEW c, NEW q, Released(sm, c, q)
  PROVE  /\ \A h \in Handles : Turns(sm, h)
         /\ OthersStay(sm) /\ queue' = q /\ timers' = timers
         /\ state'[sm] # "ACQUIRED"
<1>1. CASE state[sm] \in {"RELEASED", "PENDING"} /\ Ignore(c, q)
  BY <1>1, IgnoreTurns DEF Ignore
<1>2. CASE CloseComplete(sm, c, q)
  BY <1>2, CloseCompleteTurns
<1>3. CASE /\ state[sm] = "ACQUIRED" /\ atl' = AtlCloseStatus(list[sm].subs)
           /\ SetSM(sm, "RELEASED", EmptyList) /\ Quiet(c, q)
  <2>1. state'[sm] = "RELEASED" /\ list'[sm] = EmptyList /\ OthersStay(sm)
    BY <1>3, SetIs DEF HInv, IInv
  <2>2. \A h \in Handles : atl'[h] = IF h \in list[sm].subs THEN "idle" ELSE atl[h]
    BY <1>3, NotifyIs
  <2>3. EmptyList.subs = {} /\ EmptyList.inactive = {}
    BY DEF EmptyList
  <2>4. active(list[sm]) \subseteq list[sm].subs
    BY DEF active
  <2>5. \A h \in Handles : Turns(sm, h)
    BY <1>3, <2>1, <2>2, <2>3, <2>4 DEF Turns
  <2> QED
    BY <1>3, <2>1, <2>5 DEF Quiet
<1> QED
  BY <1>1, <1>2, <1>3 DEF Released

\* SUBSCRIBE: the others are left alone, and h is active in a machine that has
\* a connection or waits for one.
LEMMA SubscribeTurns ==
  ASSUME HInv, NEW sm \in SMs, sm # "DS", NEW g \in Handles, NEW w \in BOOLEAN,
         NEW c, NEW q, Subscribe(sm, g, w, c, q), g \notin list[sm].subs
  PROVE  /\ OthersStay(sm) /\ queue' = q /\ timers' = timers
         /\ state'[sm] = "ACQUIRED" => state[sm] = "ACQUIRED"
         /\ \A h \in Handles \ {g} : Turns(sm, h)
         /\ list'[sm].subs = list[sm].subs \cup {g} /\ list'[sm].inactive = list[sm].inactive
         /\ g \in active(list'[sm])
         /\ \/ atl'[g] = atl[g] /\ state'[sm] \in {"PENDING", "RELEASING"}
            \/ /\ atl'[g] = IF atl[g] = "asked" THEN "open" ELSE atl[g]
               /\ state'[sm] = "ACQUIRED"
<1> DEFINE l == addSubscriber(list[sm], g, w)
<1>1. list[sm] \in SubscriberList /\ WellFormed(list[sm]) /\ state[sm] \in States
  BY HandleTyped
<1>2. l.subs = list[sm].subs \cup {g} /\ l.inactive = list[sm].inactive
  BY DEF addSubscriber
<1>3. /\ g \in active(l)
      /\ \A h \in Handles \ {g} : h \in active(l) <=> h \in active(list[sm])
  BY <1>1, <1>2 DEF active, WellFormed
<1> HIDE DEF l
<1>4. ASSUME list'[sm] = l, state'[sm] \in States, atl' = atl,
             state[sm] = "PENDING" => state'[sm] = "PENDING",
             state[sm] = "RELEASING" => state'[sm] = "RELEASING",
             state[sm] # "ACQUIRED", NEW h \in Handles \ {g}
      PROVE  Turns(sm, h)
  BY <1>2, <1>3, <1>4 DEF Turns
<1>5. CASE /\ state[sm] = "RELEASED"
           /\ \E ok \in BOOLEAN :
                /\ RequestDataConn(sm, l, c, q, ok)
                /\ SetSM(sm, IF ok THEN "PENDING" ELSE "RELEASED", l)
           /\ UNCHANGED atl
  <2>1. PICK ok \in BOOLEAN : /\ RequestDataConn(sm, l, c, q, ok)
                              /\ SetSM(sm, IF ok THEN "PENDING" ELSE "RELEASED", l)
    BY <1>5
  <2>2. ok /\ queue' = q /\ timers' = timers
    BY <2>1, FrameworkAsks
  <2>3. SetSM(sm, "PENDING", l)
    BY <2>1, <2>2
  <2>4. state'[sm] = "PENDING" /\ list'[sm] = l /\ OthersStay(sm)
    BY <2>3, SetIs DEF HInv, IInv
  <2>5. \A h \in Handles \ {g} : Turns(sm, h)
    BY <1>4, <1>5, <2>4 DEF States
  <2> QED
    BY <1>2, <1>3, <1>5, <2>2, <2>4, <2>5
<1>6. CASE /\ state[sm] \in {"PENDING", "RELEASING"}
           /\ SetSM(sm, state[sm], l) /\ Quiet(c, q) /\ UNCHANGED atl
  <2>1. state'[sm] = state[sm] /\ list'[sm] = l /\ OthersStay(sm)
    BY <1>6, SetIs DEF HInv, IInv
  <2>2. \A h \in Handles \ {g} : Turns(sm, h)
    BY <1>1, <1>4, <1>6, <2>1
  <2> QED
    BY <1>2, <1>3, <1>6, <2>1, <2>2 DEF Quiet
<1>7. CASE /\ state[sm] = "ACQUIRED" /\ atl' = AtlOpenStatus({g}, TRUE)
           /\ SetSM(sm, "ACQUIRED", l) /\ Quiet(c, q)
  <2>1. state'[sm] = "ACQUIRED" /\ list'[sm] = l /\ OthersStay(sm)
    BY <1>7, SetIs DEF HInv, IInv
  <2>2. atl'[g] = IF atl[g] = "asked" THEN "open" ELSE atl[g]
    BY <1>7, NotifyIs
  <2>3. \A h \in Handles \ {g} : atl'[h] = atl[h]
    BY <1>7, NotifyIs
  <2>4. \A h \in Handles \ {g} : Turns(sm, h)
    BY <1>2, <1>3, <1>7, <2>1, <2>3 DEF Turns
  <2> QED
    BY <1>2, <1>3, <1>7, <2>1, <2>2, <2>4 DEF Quiet
<1> QED
  BY <1>5, <1>6, <1>7 DEF Subscribe, l

\* UNSUBSCRIBE: the others are left alone, and g is told that it is closed, or
\* waits for the close.
LEMMA UnsubscribeTurns ==
  ASSUME HInv, NEW sm \in SMs, sm # "DS", NEW g \in Handles,
         NEW c, NEW q, Unsubscribe(sm, g, c, q), g \in list[sm].subs
  PROVE  /\ OthersStay(sm) /\ queue' = q /\ timers' = timers
         /\ state'[sm] = "ACQUIRED" => state[sm] = "ACQUIRED"
         /\ \A h \in Handles \ {g} : Turns(sm, h)
         /\ \/ g \notin list'[sm].subs /\ atl'[g] = "idle"
            \/ atl'[g] = atl[g]
<1> DEFINE waits == g \in list[sm].waits
           l == IF waits THEN [list[sm] EXCEPT !.inactive = @ \cup {g}]
                         ELSE deleteSubscribers(list[sm], {g})
           told == IF waits THEN {} ELSE {g}
<1>1. /\ list[sm] \in SubscriberList /\ WellFormed(list[sm]) /\ state[sm] \in States
      /\ \A o \in SMs : WellFormed(list[o])
  BY HandleTyped
<1>2. /\ \A h \in Handles \ {g} : /\ h \in l.subs <=> h \in list[sm].subs
                                  /\ h \in l.inactive <=> h \in list[sm].inactive
                                  /\ h \in active(l) <=> h \in active(list[sm])
      /\ ~waits => g \notin l.subs
      /\ active(l) \subseteq l.subs
  <2>1. CASE waits
    <3>1. l.subs = list[sm].subs /\ l.inactive = list[sm].inactive \cup {g}
      BY <1>1, <2>1 DEF SubscriberList
    <3> QED
      BY <2>1, <3>1 DEF active
  <2>2. CASE ~waits
    <3>1. l.subs = list[sm].subs \ {g} /\ l.inactive = list[sm].inactive \ {g}
      BY <2>2 DEF deleteSubscribers
    <3> QED
      BY <2>2, <3>1 DEF active
  <2> QED
    BY <2>1, <2>2
<1>3. told \subseteq {g} /\ (waits => told = {}) /\ (~waits => told = {g})
  OBVIOUS
<1> HIDE DEF l, told, waits
<1>4. state[sm] # "RELEASED"
  BY DEF HInv, IInv, ListMatchesState, FrameworkSMs
<1>5. atl' = AtlCloseStatus(told)
  BY <1>4 DEF Unsubscribe, told, waits
<1>6. /\ list'[sm] = l /\ OthersStay(sm) /\ queue' = q /\ timers' = timers
      /\ \/ active(l) # {} /\ state'[sm] = state[sm]
         \/ active(l) = {} /\ state'[sm] \in {"RELEASED", "RELEASING"}
         \/ state[sm] = "RELEASING" /\ l.subs # {} /\ state'[sm] = "RELEASING"
  <2>1. CASE /\ active(l) = {} /\ SetSM(sm, IF l.subs = {} THEN "RELEASED" ELSE "RELEASING", l)
             /\ queue' = q /\ UNCHANGED timers
    <3>1. state'[sm] = (IF l.subs = {} THEN "RELEASED" ELSE "RELEASING") /\ list'[sm] = l /\ OthersStay(sm)
      BY <2>1, SetIs DEF HInv, IInv
    <3> QED
      BY <2>1, <3>1
  <2>2. CASE active(l) # {} /\ SetSM(sm, state[sm], l) /\ Quiet(c, q)
    <3>1. state'[sm] = state[sm] /\ list'[sm] = l /\ OthersStay(sm)
      BY <2>2, SetIs DEF HInv, IInv
    <3> QED
      BY <2>2, <3>1 DEF Quiet
  <2>3. CASE /\ state[sm] = "RELEASING"
             /\ SetSM(sm, IF l.subs = {} THEN "RELEASED" ELSE "RELEASING", l) /\ Quiet(c, q)
    <3>1. state'[sm] = (IF l.subs = {} THEN "RELEASED" ELSE "RELEASING") /\ list'[sm] = l /\ OthersStay(sm)
      BY <2>3, SetIs DEF HInv, IInv
    <3>2. l.subs = {} => active(l) = {}
      BY <1>2
    <3> QED
      BY <2>3, <3>1, <3>2 DEF Quiet
  <2> QED
    BY <1>4, <2>1, <2>2, <2>3 DEF Unsubscribe, l, waits
<1>7. /\ \A h \in Handles \ {g} : atl'[h] = atl[h]
      /\ waits => atl'[g] = atl[g]
      /\ ~waits => atl'[g] = "idle"
  <2>1. \A h \in Handles : atl'[h] = IF h \in told THEN "idle" ELSE atl[h]
    BY <1>5, NotifyIs
  <2> QED
    BY <1>3, <2>1
<1>8. ASSUME NEW h \in Handles \ {g}
      PROVE  Turns(sm, h)
  <2>1. /\ h \in list'[sm].subs => h \in list[sm].subs
        /\ h \in list'[sm].inactive => h \in list[sm].inactive
        /\ atl'[h] = atl[h]
    BY <1>2, <1>6, <1>7
  <2>2. h \in active(list[sm]) => h \in active(list'[sm]) /\ active(l) # {} /\ l.subs # {}
    BY <1>2, <1>6
  <2>3. h \in active(list[sm]) => state'[sm] = state[sm]
    BY <1>6, <2>2
  <2> QED
    BY <2>1, <2>2, <2>3 DEF Turns
<1> QED
  BY <1>2, <1>4, <1>6, <1>7, <1>8

-----------------------------------------------------------------------------
(* Steps, without the emergency PDN.                                       *)

\* The DS machine stays unused when a framework machine handles an event.
LEMMA DsKept ==
  ASSUME HInv, NEW sm \in SMs, sm # "DS", OthersStay(sm), timers' = timers, pick' = pick,
         cmds'["DS"] = cmds["DS"], up' \subseteq up \cup {sm}
  PROVE  DsUnused'
BY DEF HInv, DsUnused, OthersStay, SMs

\* An acquired machine stays up when another handles an event.
LEMMA UpKept ==
  ASSUME HInv, NEW sm \in SMs, OthersStay(sm), up \ {sm} \subseteq up',
         state'[sm] = "ACQUIRED" => sm \in up'
  PROVE  UpWhenAcquired'
BY DEF HInv, UpWhenAcquired, OthersStay

\* What is true of a handle stays true when nothing happens to it.
LEMMA StillKeeps ==
  ASSUME NEW h \in Handles, Mail(h), Member(h), Promised(h),
         state' = state, list' = list, atl'[h] = atl[h], SameMail(queue, queue', h)
  PROVE  Mail(h)' /\ Member(h)' /\ Promised(h)'
<1>1. Mail(h)'
  BY DEF Mail, SameMail
<1>2. Member(h)'
  BY DEF Member, SameMail
<1>3. Promised(h)'
  BY DEF Promised, SameMail
<1> QED
  BY <1>1, <1>2, <1>3

\* A request makes its handle an active subscriber.
LEMMA RequestPromises ==
  ASSUME HInv, UsePdn = FALSE, ProcRequestATL, IInv'
  PROVE  HInv'
<1> DEFINE m == Head(queue)
           q == Tail(queue)
<1>1. queue # <<>> /\ queue \in Seq(Messages) /\ m \in Messages /\ q \in Seq(Messages) /\ m.handle \in Handles
  BY QueueFacts DEF ProcRequestATL, HInv, IInv, TypeOK
<1>2. m.kind = "requestATL" /\ m.type \in AgpsTypes
  BY <1>1 DEF ProcRequestATL, Messages
<1>3. PICK g \in Handles, t \in AgpsTypes : g = m.handle /\ t = m.type
  BY <1>1, <1>2
<1>4. PICK sm \in SMs : sm = getAgpsStateMachine(t) /\ sm # "DS"
  BY DEF getAgpsStateMachine, AgpsTypes, SMs
<1>5. Subscribe(sm, g, t = "SUPL_ES", cmds, q) /\ pick' = pick /\ up' = up
  BY <1>3, <1>4 DEF ProcRequestATL
<1>6. PICK w \in BOOLEAN : Subscribe(sm, g, w, cmds, q)
  BY <1>5
<1>7. Wants(m, g) /\ ~Frees(m, g)
  BY <1>2, <1>3 DEF Wants, Frees
<1>8. /\ Req(queue, g)
      /\ Rel(queue, g) <=> Rel(q, g)
      /\ Before(queue, g) <=> Before(q, g) \/ Rel(q, g)
      /\ Once(queue, g) => Once(q, g) /\ ~Req(q, g)
  BY <1>1, <1>7, Taken
<1>9. Mail(g) /\ Member(g) /\ Promised(g)
  BY DEF HInv
<1>10. /\ atl[g] \in {"asked", "closing"} /\ Once(q, g) /\ ~Req(q, g)
       /\ \A o \in SMs : g \notin list[o].subs
  BY <1>8, <1>9 DEF Mail
<1>11. atl[g] = "closing" <=> Rel(q, g)
  BY <1>8, <1>9, <1>10, BeforeIs DEF Mail
<1>12. /\ OthersStay(sm) /\ queue' = q /\ timers' = timers
       /\ state'[sm] = "ACQUIRED" => state[sm] = "ACQUIRED"
       /\ \A h \in Handles \ {g} : Turns(sm, h)
       /\ list'[sm].subs = list[sm].subs \cup {g} /\ list'[sm].inactive = list[sm].inactive
       /\ g \in active(list'[sm])
       /\ \/ atl'[g] = atl[g] /\ state'[sm] \in {"PENDING", "RELEASING"}
          \/ /\ atl'[g] = IF atl[g] = "asked" THEN "open" ELSE atl[g]
             /\ state'[sm] = "ACQUIRED"
  <2> HIDE DEF q
  <2>1. sm # "DS" /\ g \notin list[sm].subs /\ Subscribe(sm, g, w, cmds, q)
    BY <1>4, <1>6, <1>10
  <2>2. OthersStay(sm) /\ queue' = q /\ timers' = timers
    BY <2>1, SubscribeTurns
  <2>3. state'[sm] = "ACQUIRED" => state[sm] = "ACQUIRED"
    BY <2>1, SubscribeTurns
  <2>4. \A h \in Handles \ {g} : Turns(sm, h)
    BY <2>1, SubscribeTurns
  <2>5. /\ list'[sm].subs = list[sm].subs \cup {g} /\ list'[sm].inactive = list[sm].inactive
        /\ g \in active(list'[sm])
    BY <2>1, SubscribeTurns
  <2>6. \/ atl'[g] = atl[g] /\ state'[sm] \in {"PENDING", "RELEASING"}
        \/ /\ atl'[g] = IF atl[g] = "asked" THEN "open" ELSE atl[g]
           /\ state'[sm] = "ACQUIRED"
    BY <2>1, SubscribeTurns
  <2> QED
    BY <2>2, <2>3, <2>4, <2>5, <2>6
<1>13. cmds \in CommandLists
  BY DEF HInv, IInv, TypeOK, CommandLists, Commands
<1>14. cmds'["DS"] = cmds["DS"]
  <2>1. Handled(sm, cmds)
    BY <1>1, <1>6, <1>13, SubscribeFacts DEF HInv
  <2> QED
    BY <1>4, <2>1 DEF Handled, SMs
<1>15. DsUnused'
  BY <1>4, <1>5, <1>12, <1>14, DsKept
<1>16. UpWhenAcquired'
  BY <1>5, <1>12, UpKept DEF HInv, UpWhenAcquired
<1>17. /\ \A o \in SMs : WellFormed(list[o])
       /\ \A o \in SMs : WellFormed(list'[o])
  BY DEF HInv, IInv
<1>18. ASSUME NEW h \in Handles, h # g
       PROVE  Mail(h)' /\ Member(h)' /\ Promised(h)'
  <2>1. SameMail(queue, queue', h)
    BY <1>1, <1>3, <1>12, <1>18, OtherTaken
  <2>2. Mail(h) /\ Member(h) /\ Promised(h) /\ Turns(sm, h)
    BY <1>12, <1>18 DEF HInv
  <2> QED
    BY <1>12, <1>17, <2>1, <2>2, TurnKeeps
<1> HIDE DEF m, q
<1>19. Mail(g)'
  BY <1>10, <1>12 DEF Mail
<1>20. Member(g)'
  <2>1. \A o \in SMs \ {sm} : g \notin list'[o].subs /\ g \notin list'[o].inactive
    BY <1>10, <1>12, <1>17 DEF OthersStay, WellFormed
  <2>2. g \notin list'[sm].inactive
    BY <1>10, <1>12, <1>17 DEF WellFormed
  <2>3. atl'[g] # "idle" /\ (Rel(q, g) => atl'[g] = "closing")
    BY <1>10, <1>11, <1>12
  <2> QED
    BY <1>12, <2>1, <2>2, <2>3 DEF Member
<1>21. Promised(g)'
  <2>1. CASE state'[sm] = "ACQUIRED"
    <3>1. atl'[g] # "asked"
      BY <1>10, <1>12, <2>1
    <3> QED
      BY <1>12, <2>1, <3>1 DEF Promised
  <2>2. CASE state'[sm] \in {"PENDING", "RELEASING"}
    <3>1. atl'[g] # "open"
      BY <1>10, <1>12, <2>2
    <3> QED
      BY <1>12, <2>2, <3>1 DEF Promised
  <2> QED
    BY <1>12, <2>1, <2>2
<1> QED
  BY <1>15, <1>16, <1>18, <1>19, <1>20, <1>21 DEF HInv

\* A release takes a handle from its machine.
LEMMA ReleasePromises ==
  ASSUME HInv, ProcReleaseATL, IInv'
  PROVE  HInv'
<1> DEFINE m == Head(queue)
           q == Tail(queue)
<1>1. queue # <<>> /\ queue \in Seq(Messages) /\ m \in Messages /\ q \in Seq(Messages) /\ m.handle \in Handles
  BY QueueFacts DEF ProcReleaseATL, HInv, IInv, TypeOK
<1>2. PICK g \in Handles : g = m.handle
  BY <1>1
<1>3. Frees(m, g) /\ ~Wants(m, g)
  BY <1>2 DEF ProcReleaseATL, Wants, Frees
<1>4. /\ Rel(queue, g)
      /\ Req(queue, g) <=> Req(q, g)
      /\ Before(queue, g) <=> Before(q, g)
      /\ Once(queue, g) => Once(q, g) /\ ~Rel(q, g)
  BY <1>1, <1>3, Taken
<1>5. Mail(g) /\ Member(g) /\ Promised(g)
  BY DEF HInv
<1>6. Once(q, g) /\ ~Rel(q, g) /\ ~Before(q, g)
  BY <1>4, <1>5, BeforeIs DEF Mail
<1>7. /\ \A o \in SMs : WellFormed(list[o])
      /\ \A o \in SMs : WellFormed(list'[o])
  BY DEF HInv, IInv
<1>8. pick' = pick /\ up' = up
  BY DEF ProcReleaseATL
<1>9. CASE \E sm \in SMs : HolderOf(g, sm) /\ Unsubscribe(sm, g, cmds, q)
  <2>1. PICK sm \in SMs : g \in list[sm].subs /\ Unsubscribe(sm, g, cmds, q)
    BY <1>9 DEF HolderOf
  <2>2. sm # "DS"
    BY <2>1 DEF HInv, DsUnused
  <2>3. /\ OthersStay(sm) /\ queue' = q /\ timers' = timers
        /\ state'[sm] = "ACQUIRED" => state[sm] = "ACQUIRED"
        /\ \A h \in Handles \ {g} : Turns(sm, h)
        /\ \/ g \notin list'[sm].subs /\ atl'[g] = "idle"
           \/ atl'[g] = atl[g]
    BY <2>1, <2>2, UnsubscribeTurns
  <2>4. cmds'["DS"] = cmds["DS"]
    <3>1. cmds \in CommandLists
      BY DEF HInv, IInv, TypeOK, CommandLists, Commands
    <3>2. Handled(sm, cmds)
      BY <1>1, <2>1, <3>1, UnsubscribeFacts DEF HInv
    <3> QED
      BY <2>2, <3>2 DEF Handled, SMs
  <2>5. DsUnused'
    BY <1>8, <2>2, <2>3, <2>4, DsKept
  <2>6. UpWhenAcquired'
    BY <1>8, <2>3, UpKept DEF HInv, UpWhenAcquired
  <2>7. ASSUME NEW h \in Handles, h # g
        PROVE  Mail(h)' /\ Member(h)' /\ Promised(h)'
    <3>1. SameMail(queue, queue', h)
      BY <1>1, <1>2, <2>3, <2>7, OtherTaken
    <3>2. Mail(h) /\ Member(h) /\ Promised(h) /\ Turns(sm, h)
      BY <2>3, <2>7 DEF HInv
    <3> QED
      BY <1>7, <2>3, <3>1, <3>2, TurnKeeps
  <2> HIDE DEF m, q
  <2>8. ~Req(q, g) /\ atl[g] = "closing"
    BY <1>4, <1>5, <2>1 DEF Mail, Member
  <2>9. Mail(g)'
    BY <1>6, <2>3, <2>8 DEF Mail
  <2>10. \A o \in SMs \ {sm} : g \notin list'[o].subs /\ g \notin list'[o].inactive
    BY <1>5, <1>7, <2>1, <2>3 DEF OthersStay, Member, WellFormed
  <2>11. g \in list'[sm].inactive => g \in list'[sm].subs
    BY <1>7 DEF WellFormed
  <2>12. Member(g)'
    BY <2>3, <2>8, <2>10, <2>11 DEF Member
  <2>13. Promised(g)'
    BY <2>3, <2>8 DEF Promised
  <2> QED
    BY <2>5, <2>6, <2>7, <2>9, <2>12, <2>13 DEF HInv
<1>10. CASE /\ \A sm \in SMs : g \notin list[sm].subs
            /\ atl' = AtlCloseFailed(g) /\ Quiet(cmds, q) /\ UNCHANGED <<state, list>>
  <2>1. queue' = q /\ cmds' = cmds /\ timers' = timers
    BY <1>10 DEF Quiet
  <2>2. /\ \A h \in Handles \ {g} : atl'[h] = atl[h]
        /\ atl'[g] = IF atl[g] = "closing" THEN "idle" ELSE atl[g]
    <3>1. atl \in [Handles -> ModemStates]
      BY DEF HInv, IInv, TypeOK
    <3> QED
      BY <1>10, <3>1 DEF AtlCloseFailed
  <2>3. DsUnused'
    BY <1>8, <1>10, <2>1 DEF HInv, DsUnused
  <2>4. UpWhenAcquired'
    BY <1>8, <1>10 DEF HInv, UpWhenAcquired
  <2>5. ASSUME NEW h \in Handles, h # g
        PROVE  Mail(h)' /\ Member(h)' /\ Promised(h)'
    <3>1. SameMail(queue, queue', h)
      BY <1>1, <1>2, <2>1, <2>5, OtherTaken
    <3>2. Mail(h) /\ Member(h) /\ Promised(h) /\ atl'[h] = atl[h]
      BY <2>2, <2>5 DEF HInv
    <3> QED
      BY <1>10, <3>1, <3>2, StillKeeps
  <2> HIDE DEF m, q
  <2>6. Req(q, g) => atl[g] = "asked" /\ atl'[g] = "asked"
    BY <1>4, <1>5, <1>6, <2>2 DEF Mail
  <2>7. Mail(g)'
    BY <1>6, <1>10, <2>1, <2>6 DEF Mail
  <2>8. \A o \in SMs : g \notin list'[o].subs /\ g \notin list'[o].inactive
    BY <1>7, <1>10 DEF WellFormed
  <2>9. Member(g)'
    BY <2>8 DEF Member
  <2>10. Promised(g)'
    BY <1>4, <1>5, <1>10, <2>1, <2>2 DEF Promised
  <2> QED
    BY <2>3, <2>4, <2>5, <2>7, <2>9, <2>10 DEF HInv
<1> QED
  BY <1>2, <1>9, <1>10 DEF ProcReleaseATL

\* A report moves the handles of its machine.
LEMMA ReportPromises ==
  ASSUME HInv, NEW sm \in SMs, Provider(sm) \/ ReportLost(sm), IInv'
  PROVE  HInv'
<1>1. sm # "DS"
  BY DEF HInv, DsUnused, Provider, ReportOpened, ReportOpenFailed, ReportClosed, ReportLost
<1>2. \A o \in SMs \ {sm} : Served(sm)[o] = cmds[o]
  BY DEF Served, HInv, IInv, TypeOK
<1>3. cmds \in CommandLists /\ queue \in Seq(Messages)
  BY DEF HInv, IInv, TypeOK, CommandLists, Commands
<1>4. pick' = pick
  BY DEF Provider, ReportOpened, ReportOpenFailed, ReportClosed, ReportLost
<1>5. /\ cmds'["DS"] = cmds["DS"] /\ OthersStay(sm) /\ queue' = queue /\ timers' = timers
      /\ up' \subseteq up \cup {sm} /\ up \ {sm} \subseteq up'
      /\ state'[sm] = "ACQUIRED" => sm \in up'
      /\ \A h \in Handles : Turns(sm, h)
  <2>1. CASE ReportOpened(sm)
    <3>1. Granted(sm, Served(sm), queue) /\ up' = up \cup {sm}
      BY <2>1 DEF ReportOpened
    <3>2. Served(sm) \in CommandLists
      BY <2>1, ServedFacts DEF ReportOpened, HInv, IInv
    <3>3. Handled(sm, Served(sm))
      BY <1>3, <3>1, <3>2, GrantedFacts DEF HInv
    <3>4. cmds'["DS"] = cmds["DS"]
      BY <1>1, <1>2, <3>3 DEF Handled, SMs
    <3> QED
      BY <3>1, <3>4, GrantedTurns
  <2>2. CASE ReportOpenFailed(sm)
    <3>1. Denied(sm, Served(sm), queue) /\ up' = up
      BY <1>1, <2>2 DEF ReportOpenFailed
    <3>2. Served(sm) \in CommandLists
      BY <2>2, ServedFacts DEF ReportOpenFailed, HInv, IInv
    <3>3. Handled(sm, Served(sm))
      BY <1>3, <3>1, <3>2, DeniedFacts DEF HInv
    <3>4. cmds'["DS"] = cmds["DS"] /\ OthersStay(sm)
      BY <1>1, <1>2, <3>3 DEF Handled, OthersStay, SMs
    <3> QED
      BY <1>1, <3>1, <3>4, DeniedTurns DEF HInv, UpWhenAcquired
  <2>3. CASE ReportClosed(sm)
    <3>1. Released(sm, Served(sm), queue) /\ up' = up \ {sm}
      BY <2>3 DEF ReportClosed
    <3>2. Served(sm) \in CommandLists
      BY <2>3, ServedFacts DEF ReportClosed, HInv, IInv
    <3>3. Handled(sm, Served(sm))
      BY <1>3, <3>1, <3>2, ReleasedFacts DEF HInv
    <3>4. cmds'["DS"] = cmds["DS"] /\ OthersStay(sm)
      BY <1>1, <1>2, <3>3 DEF Handled, OthersStay, SMs
    <3> QED
      BY <1>1, <3>1, <3>4, ReleasedTurns
  <2>4. CASE ReportLost(sm)
    <3>1. Released(sm, cmds, queue) /\ up' = up \ {sm}
      BY <2>4 DEF ReportLost
    <3>2. Handled(sm, cmds)
      BY <1>3, <3>1, ReleasedFacts DEF HInv
    <3>3. cmds'["DS"] = cmds["DS"] /\ OthersStay(sm)
      BY <1>1, <3>2 DEF Handled, OthersStay, SMs
    <3> QED
      BY <1>1, <3>1, <3>3, ReleasedTurns
  <2> QED
    BY <2>1, <2>2, <2>3, <2>4 DEF Provider
<1>6. DsUnused'
  BY <1>1, <1>4, <1>5, DsKept
<1>7. UpWhenAcquired'
  BY <1>5, UpKept
<1>8. ASSUME NEW h \in Handles
      PROVE  Mail(h)' /\ Member(h)' /\ Promised(h)'
  <2>1. SameMail(queue, queue', h)
    BY <1>5 DEF SameMail
  <2>2. Mail(h) /\ Member(h) /\ Promised(h) /\ Turns(sm, h)
    BY <1>5 DEF HInv
  <2>3. /\ \A o \in SMs : WellFormed(list[o])
        /\ \A o \in SMs : WellFormed(list'[o])
    BY DEF HInv, IInv
  <2> QED
    BY <1>5, <2>1, <2>2, <2>3, TurnKeeps
<1> QED
  BY <1>6, <1>7, <1>8 DEF HInv

\* The message that was posted.
LEMMA LastPosted ==
  ASSUME NEW q \in Seq(Messages), NEW m \in Messages, NEW n \in Messages, Append(q, m) = Append(q, n)
  PROVE  m = n
<1>1. Append(q, m)[Len(q) + 1] = m /\ Append(q, n)[Len(q) + 1] = n
  OBVIOUS
<1> QED
  BY <1>1

\* The modem asks for a handle, or gives one back.
LEMMA ModemPromises ==
  ASSUME HInv, NEW g \in Handles, IInv',
         ModemRelease(g) \/ \E type \in ReqTypes : ModemRequest(g, type)
  PROVE  HInv'
<1>1. PICK m \in Messages : m.handle = g /\ queue' = Append(queue, m)
  <2>1. CASE ModemRelease(g)
    <3>1. ReleaseATL(g) \in Messages /\ ReleaseATL(g).handle = g
      BY DEF ReleaseATL, Messages
    <3> QED
      BY <2>1, <3>1 DEF ModemRelease
  <2>2. CASE \E type \in ReqTypes : ModemRequest(g, type)
    <3>1. PICK type \in ReqTypes : ModemRequest(g, type)
      BY <2>2
    <3>2. RequestATL(g, type) \in Messages /\ RequestATL(g, type).handle = g
      BY ConstantsAssumption DEF RequestATL, Messages
    <3> QED
      BY <3>1, <3>2 DEF ModemRequest
  <2> QED
    BY <2>1, <2>2
<1>2. /\ state' = state /\ list' = list /\ timers' = timers /\ pick' = pick
      /\ cmds' = cmds /\ up' = up
  BY DEF ModemRelease, ModemRequest
<1>3. queue \in Seq(Messages) /\ atl \in [Handles -> ModemStates]
  BY DEF HInv, IInv, TypeOK
<1>4. \A h \in Handles \ {g} : atl'[h] = atl[h]
  BY <1>3 DEF ModemRelease, ModemRequest
<1>5. DsUnused' /\ UpWhenAcquired'
  BY <1>2 DEF HInv, DsUnused, UpWhenAcquired
<1>6. ASSUME NEW h \in Handles, h # g
      PROVE  Mail(h)' /\ Member(h)' /\ Promised(h)'
  <2>1. SameMail(queue, queue', h)
    BY <1>1, <1>3, <1>6, OtherPosted
  <2>2. Mail(h) /\ Member(h) /\ Promised(h) /\ atl'[h] = atl[h]
    BY <1>4, <1>6 DEF HInv
  <2> QED
    BY <1>2, <2>1, <2>2, StillKeeps
<1>7. /\ Mail(g) /\ Member(g) /\ Promised(g)
      /\ \A o \in SMs : WellFormed(list[o])
  BY DEF HInv, IInv
<1>8. /\ Req(queue', g) <=> Req(queue, g) \/ Wants(m, g)
      /\ Rel(queue', g) <=> Rel(queue, g) \/ Frees(m, g)
      /\ Before(queue', g) <=> Before(queue, g) \/ (Req(queue, g) /\ Frees(m, g))
      /\ Once(queue, g) /\ (Wants(m, g) => ~Req(queue, g)) /\ (Frees(m, g) => ~Rel(queue, g)) => Once(queue', g)
  BY <1>1, <1>3, Posted
<1>9. CASE \E type \in ReqTypes : ModemRequest(g, type)
  <2>1. atl[g] = "idle" /\ atl'[g] = "asked" /\ Wants(m, g) /\ ~Frees(m, g)
    <3>1. PICK type \in ReqTypes : ModemRequest(g, type)
      BY <1>9
    <3>2. queue' = Append(queue, RequestATL(g, type)) /\ RequestATL(g, type) \in Messages
      BY <3>1, ConstantsAssumption DEF ModemRequest, RequestATL, Messages
    <3>3. m = RequestATL(g, type)
      BY <1>1, <1>3, <3>2, LastPosted
    <3> QED
      BY <1>3, <3>1, <3>3 DEF ModemRequest, RequestATL, Wants, Frees
  <2>2. ~Req(queue, g) /\ ~Before(queue, g)
    BY <1>7, <2>1, BeforeIs DEF Mail
  <2>3. \A o \in SMs : g \notin list'[o].subs /\ g \notin list'[o].inactive
    BY <1>2, <1>7, <2>1 DEF Member, WellFormed
  <2>4. Mail(g)'
    BY <1>7, <1>8, <2>1, <2>2, <2>3 DEF Mail
  <2>5. Member(g)'
    BY <2>3 DEF Member
  <2>6. Promised(g)'
    BY <1>8, <2>1 DEF Promised
  <2> QED
    BY <1>5, <1>6, <2>4, <2>5, <2>6 DEF HInv
<1>10. CASE ModemRelease(g)
  <2>1. /\ atl[g] \in {"asked", "open"} /\ atl'[g] = "closing" /\ Frees(m, g) /\ ~Wants(m, g)
        /\ ~Rel(queue, g)
    <3>1. queue' = Append(queue, ReleaseATL(g)) /\ ReleaseATL(g) \in Messages
      BY <1>10 DEF ModemRelease, ReleaseATL, Messages
    <3>2. m = ReleaseATL(g)
      BY <1>1, <1>3, <3>1, LastPosted
    <3>3. ~Rel(queue, g)
      BY <1>10, QueuedIs DEF ModemRelease, HInv, IInv
    <3> QED
      BY <1>3, <1>10, <3>2, <3>3 DEF ModemRelease, ReleaseATL, Wants, Frees
  <2>2. Mail(g)'
    BY <1>2, <1>7, <1>8, <2>1 DEF Mail
  <2>3. Member(g)'
    BY <1>2, <1>7, <2>1 DEF Member
  <2>4. Promised(g)'
    BY <2>1 DEF Promised
  <2> QED
    BY <1>5, <1>6, <2>2, <2>3, <2>4 DEF HInv
<1> QED
  BY <1>9, <1>10

\* The first state.
LEMMA HInit ==
  ASSUME Init, IInv, UsePdn = FALSE
  PROVE  HInv
<1>1. queue = <<>> /\ DOMAIN queue = {}
  BY DEF Init
<1>2. \A sm \in SMs : list[sm].subs = {} /\ list[sm].inactive = {} /\ state[sm] = "RELEASED"
  BY DEF Init, EmptyList
<1>3. DsUnused
  BY <1>2 DEF Init, DsUnused, SMs
<1>4. UpWhenAcquired
  BY <1>2 DEF UpWhenAcquired
<1>5. ASSUME NEW h \in Handles
      PROVE  Mail(h) /\ Member(h) /\ Promised(h)
  <2>1. atl[h] = "idle"
    BY DEF Init
  <2> QED
    BY <1>1, <1>2, <2>1 DEF Mail, Member, Promised, Once, Req
<1> QED
  BY <1>3, <1>4, <1>5 DEF HInv

\* A step that changes nothing.
LEMMA HStutter ==
  ASSUME HInv, UNCHANGED vars, IInv'
  PROVE  HInv'
<1>1. DsUnused' /\ UpWhenAcquired'
  BY DEF vars, HInv, DsUnused, UpWhenAcquired
<1>2. ASSUME NEW h \in Handles
      PROVE  Mail(h)' /\ Member(h)' /\ Promised(h)'
  <2>1. SameMail(queue, queue', h)
    BY DEF vars, SameMail
  <2>2. Mail(h) /\ Member(h) /\ Promised(h) /\ state' = state /\ list' = list /\ atl'[h] = atl[h]
    BY DEF vars, HInv
  <2> QED
    BY <2>1, <2>2, StillKeeps
<1> QED
  BY <1>1, <1>2 DEF HInv

\* Every step keeps the invariant.
LEMMA HNext ==
  ASSUME HInv, [Next]_vars, IInv', UsePdn = FALSE
  PROVE  HInv'
<1>1. CASE MsgTask
  BY <1>1, RequestPromises, ReleasePromises DEF MsgTask
<1>2. CASE \E sm \in SMs : Provider(sm) \/ ReportLost(sm)
  BY <1>2, ReportPromises
<1>3. CASE RetryRead \/ RetryPost
  <2>1. timers = 0 /\ pick = None
    BY DEF HInv, DsUnused
  <2> QED
    BY <1>3, <2>1 DEF RetryRead, RetryPost
<1>4. CASE \E h \in Handles : ModemRelease(h) \/ \E type \in ReqTypes : ModemRequest(h, type)
  BY <1>4, ModemPromises
<1>5. CASE UNCHANGED vars
  BY <1>5, HStutter
<1> QED
  BY <1>1, <1>2, <1>3, <1>4, <1>5 DEF Next

\* Without the emergency PDN, what is true of each handle, its messages, its
\* machine and the modem's view of it, is true in every state
\* (AgpsManager::requestATL, releaseATL and the reports).
THEOREM HandlesInvariance == UsePdn = FALSE => (Spec => []HInv)
<1> SUFFICES ASSUME UsePdn = FALSE
             PROVE  Spec => []HInv
  OBVIOUS
<1>1. Init /\ IInv => HInv
  BY HInit
<1>2. HInv /\ [Next]_vars /\ IInv' => HInv'
  BY HNext
<1> QED
  BY <1>1, <1>2, Invariance, PTL DEF Spec

\* Without the emergency PDN, a handle the modem has been granted and not
\* released is an active subscriber of a machine whose connection is up.
THEOREM GrantIsAlwaysServed == UsePdn = FALSE => (Spec => []GrantIsServed)
<1> SUFFICES ASSUME UsePdn = FALSE
             PROVE  Spec => []GrantIsServed
  OBVIOUS
<1>1. HInv => GrantIsServed
  <2> SUFFICES ASSUME HInv, NEW h \in Handles, atl[h] = "open"
               PROVE  \E sm \in up : state[sm] = "ACQUIRED" /\ h \in active(list[sm])
    BY DEF GrantIsServed
  <2>1. PICK sm \in SMs : state[sm] = "ACQUIRED" /\ h \in active(list[sm])
    BY DEF HInv, Promised
  <2>2. sm \in up
    BY <2>1 DEF HInv, UpWhenAcquired
  <2> QED
    BY <2>1, <2>2
<1> QED
  BY <1>1, HandlesInvariance, PTL

\* Without the emergency PDN, a request the modem has no answer to is in the
\* queue, or its handle is an active subscriber of a machine that waits for an
\* answer.
THEOREM AskedIsAlwaysTracked == UsePdn = FALSE => (Spec => []AskedIsTracked)
<1> SUFFICES ASSUME UsePdn = FALSE
             PROVE  Spec => []AskedIsTracked
  OBVIOUS
<1>1. HInv => AskedIsTracked
  <2> SUFFICES ASSUME HInv, NEW h \in Handles, atl[h] = "asked"
               PROVE  \/ RequestQueued(h)
                      \/ \E sm \in SMs : h \in active(list[sm]) /\ state[sm] \in {"PENDING", "RELEASING"}
    BY DEF AskedIsTracked
  <2>1. TypeOK /\ Promised(h)
    BY DEF HInv, IInv
  <2> QED
    BY <2>1, QueuedIs DEF Promised
<1> QED
  BY <1>1, HandlesInvariance, PTL

-----------------------------------------------------------------------------
(* Whoever leaves the DS machine is told so, or handed to the SUPL machine.*)

\* A list that can be traversed
Orderly(l) == IsFiniteSet(l.subs) /\ \A h \in Handles : <<h, h>> \notin l.before

DsLeaversToldOf ==
  \A h \in list["DS"].subs \ list'["DS"].subs :
    atl'[h] = "idle" \/ Queued(RequestATL(h, "SUPL"))'

\* What a step does to the subscribers of the DS machine
DsKeepsFaith == Orderly(list["DS"])' /\ DsLeaversToldOf

\* The traversal of a list reaches every subscriber.
LEMMA TraversalReachesAll ==
  ASSUME NEW l \in SubscriberList, Orderly(l), NEW s \in ListOrders(l), NEW h \in l.subs
  PROVE  \E i \in DOMAIN s : s[i] = h
<1> DEFINE n == Cardinality(l.subs)
<1>1. n \in Nat /\ IsFiniteSet(l.subs)
  BY FS_CardinalityType DEF Orderly
<1>2. s \in [1 .. n -> l.subs] /\ \A i, j \in 1 .. n : i < j => <<s[i], s[j]>> \in l.before
  BY DEF ListOrders
<1>3. s \in Injection(1 .. n, l.subs)
  <2>1. ASSUME NEW i \in 1 .. n, NEW j \in 1 .. n, i < j
        PROVE  s[i] # s[j]
    <3>1. <<s[i], s[j]>> \in l.before
      BY <1>2, <2>1
    <3>2. s[i] \in Handles
      BY <1>2 DEF SubscriberList
    <3> QED
      BY <3>1, <3>2 DEF Orderly
  <2>2. ASSUME NEW i \in 1 .. n, NEW j \in 1 .. n, s[i] = s[j]
        PROVE  i = j
    BY <1>1, <2>1, <2>2
  <2> QED
    BY <1>2, <2>2 DEF Injection, IsInjective
<1>4. s \in Surjection(1 .. n, l.subs)
  <2>1. Cardinality(1 .. n) = n
    BY <1>1, FS_Interval
  <2> QED
    BY <1>1, <1>3, <2>1, FS_Injection
<1> QED
  BY <1>2, <1>4 DEF Surjection

\* Deleting subscribers, and adding one, gives a list that can be traversed.
LEMMA OrderlyKept ==
  ASSUME NEW l \in SubscriberList, Orderly(l)
  PROVE  /\ \A gone : Orderly(deleteSubscribers(l, gone))
         /\ \A h \in Handles, w \in BOOLEAN : Orderly(addSubscriber(l, h, w))
         /\ \A is : Orderly([l EXCEPT !.inactive = is])
         /\ Orderly(EmptyList)
<1>1. ASSUME NEW gone
      PROVE  Orderly(deleteSubscribers(l, gone))
  <2>1. deleteSubscribers(l, gone).subs \in SUBSET l.subs
    BY DEF deleteSubscribers
  <2>2. IsFiniteSet(deleteSubscribers(l, gone).subs)
    BY <2>1, FS_Subset DEF Orderly
  <2> QED
    BY <2>2 DEF Orderly, deleteSubscribers
<1>2. ASSUME NEW h \in Handles, NEW w \in BOOLEAN
      PROVE  Orderly(addSubscriber(l, h, w))
  <2>1. IsFiniteSet(l.subs \cup {h})
    BY FS_AddElement DEF Orderly
  <2> QED
    BY <2>1 DEF Orderly, addSubscriber
<1>3. ASSUME NEW is
      PROVE  Orderly([l EXCEPT !.inactive = is])
  BY DEF Orderly, SubscriberList
<1>4. Orderly(EmptyList)
  BY FS_EmptySet DEF Orderly, EmptyList
<1> QED
  BY <1>1, <1>2, <1>3, <1>4

\* Nothing happens to the DS machine when another one handles an event.
LEMMA OtherKeepsFaith ==
  ASSUME Orderly(list["DS"]), list'["DS"] = list["DS"]
  PROVE  DsKeepsFaith
BY DEF DsKeepsFaith, DsLeaversToldOf, Orderly

\* A machine that sets its list is the only one to do so.
LEMMA SetsList ==
  ASSUME TypeOK, NEW sm \in SMs, NEW st, NEW l, SetSM(sm, st, l)
  PROVE  list'["DS"] = IF sm = "DS" THEN l ELSE list["DS"]
<1>1. "DS" \in SMs
  BY DEF SMs
<1> QED
  BY <1>1, SetIs DEF OthersStay

\* SUBSCRIBE only adds.
LEMMA SubscribeFaith ==
  ASSUME TypeOK, Orderly(list["DS"]), NEW sm \in SMs, NEW h \in Handles,
         NEW w \in BOOLEAN, NEW c, NEW q, Subscribe(sm, h, w, c, q)
  PROVE  DsKeepsFaith
<1> DEFINE l == addSubscriber(list[sm], h, w)
<1>1. list["DS"] \in SubscriberList
  BY DEF TypeOK, SMs
<1>2. PICK st : SetSM(sm, st, l)
  BY DEF Subscribe
<1>3. list'["DS"] = IF sm = "DS" THEN l ELSE list["DS"]
  BY <1>2, SetsList
<1>4. CASE sm = "DS"
  <2>1. Orderly(list'["DS"])
    BY <1>1, <1>3, <1>4, OrderlyKept
  <2>2. list["DS"].subs \subseteq list'["DS"].subs
    BY <1>3, <1>4 DEF addSubscriber
  <2> QED
    BY <2>1, <2>2 DEF DsKeepsFaith, DsLeaversToldOf, Orderly
<1> QED
  BY <1>3, <1>4, OtherKeepsFaith

\* UNSUBSCRIBE tells the subscriber it deletes.
LEMMA UnsubscribeFaith ==
  ASSUME TypeOK, Orderly(list["DS"]), NEW sm \in SMs, NEW h \in Handles,
         NEW c, NEW q, Unsubscribe(sm, h, c, q)
  PROVE  DsKeepsFaith
<1>1. list["DS"] \in SubscriberList
  BY DEF TypeOK, SMs
<1> DEFINE waits == h \in list[sm].waits
           l     == IF waits THEN [list[sm] EXCEPT !.inactive = @ \cup {h}]
                             ELSE deleteSubscribers(list[sm], {h})
           told  == IF waits THEN {} ELSE {h}
<1>2. \/ UNCHANGED list
      \/ atl' = AtlCloseStatus(told) /\ \E st : SetSM(sm, st, l)
  BY DEF Unsubscribe
<1>3. CASE UNCHANGED list
  BY <1>3, OtherKeepsFaith
<1>4. ASSUME atl' = AtlCloseStatus(told), NEW st, SetSM(sm, st, l)
      PROVE  DsKeepsFaith
  <2>1. list'["DS"] = IF sm = "DS" THEN l ELSE list["DS"]
    BY <1>4, SetsList
  <2>2. CASE sm = "DS"
    <3>1. Orderly(list'["DS"])
      BY <1>1, <2>1, <2>2, OrderlyKept
    <3>2. CASE waits
      <4>1. list'["DS"].subs = list["DS"].subs
        BY <1>1, <2>1, <2>2, <3>2 DEF SubscriberList
      <4> QED
        BY <3>1, <4>1 DEF DsKeepsFaith, DsLeaversToldOf, Orderly
    <3>3. CASE ~waits
      <4>1. list["DS"].subs \ list'["DS"].subs \subseteq {h}
        BY <2>1, <2>2, <3>3 DEF deleteSubscribers
      <4>2. atl'[h] = "idle"
        BY <1>4, <3>3, NotifyIs
      <4> QED
        BY <3>1, <4>1, <4>2 DEF DsKeepsFaith, DsLeaversToldOf, Orderly
    <3> QED
      BY <3>2, <3>3
  <2> QED
    BY <2>1, <2>2, OtherKeepsFaith
<1> QED
  BY <1>2, <1>3, <1>4

\* A subscriber that is told is told.
LEMMA ToldAll ==
  ASSUME TypeOK, Orderly(list["DS"]), NEW sm \in SMs, NEW gone, NEW l, NEW st,
         SetSM(sm, st, l), atl' = AtlCloseStatus(gone),
         sm = "DS" => Orderly(l) /\ list["DS"].subs \ l.subs \subseteq gone
  PROVE  DsKeepsFaith
<1>1. list'["DS"] = IF sm = "DS" THEN l ELSE list["DS"]
  BY SetsList
<1>2. list["DS"].subs \subseteq Handles
  BY DEF TypeOK, SMs, SubscriberList
<1>3. CASE sm = "DS"
  <2>1. Orderly(list'["DS"]) /\ list["DS"].subs \ list'["DS"].subs \subseteq gone
    BY <1>1, <1>3
  <2>2. \A h \in list["DS"].subs \ list'["DS"].subs : atl'[h] = "idle"
    BY <1>2, <2>1, NotifyIs
  <2> QED
    BY <2>1, <2>2 DEF DsKeepsFaith, DsLeaversToldOf, Orderly
<1> QED
  BY <1>1, <1>3, OtherKeepsFaith

\* The end of a close tells all it deletes.
LEMMA CloseCompleteFaith ==
  ASSUME TypeOK, Orderly(list["DS"]), NEW sm \in SMs, NEW c, NEW q,
         CloseComplete(sm, c, q)
  PROVE  DsKeepsFaith
<1> DEFINE gone == list[sm].inactive
           l    == deleteSubscribers(list[sm], gone)
<1>1. list["DS"] \in SubscriberList
  BY DEF TypeOK, SMs
<1>2. atl' = AtlCloseStatus(gone) /\ \E st : SetSM(sm, st, l)
  BY DEF CloseComplete
<1>3. sm = "DS" => Orderly(l)
  BY <1>1, OrderlyKept
<1>4. sm = "DS" => list["DS"].subs \ l.subs \subseteq gone
  BY DEF deleteSubscribers
<1> QED
  BY <1>2, <1>3, <1>4, ToldAll

\* DENIED hands each subscriber of the DS machine to the SUPL machine.
LEMMA DeniedFaith ==
  ASSUME TypeOK, Orderly(list["DS"]), NEW sm \in SMs, NEW c, NEW q \in Seq(Messages),
         Denied(sm, c, q)
  PROVE  DsKeepsFaith
<1>1. CASE Ignore(c, q)
  BY <1>1, OtherKeepsFaith DEF Ignore
<1>2. CASE CloseComplete(sm, c, q)
  BY <1>2, CloseCompleteFaith
<1>3. CASE /\ SetSM(sm, "RELEASED", EmptyList)
           /\ sm = "DS" => \E s \in ListOrders(list[sm]) :
                queue' = q \o [i \in DOMAIN s |-> RequestATL(s[i], "SUPL")]
  <2>1. list'["DS"] = IF sm = "DS" THEN EmptyList ELSE list["DS"]
    BY <1>3, SetsList
  <2>2. list["DS"] \in SubscriberList
    BY DEF TypeOK, SMs
  <2>3. CASE sm = "DS"
    <3>1. Orderly(list'["DS"])
      BY <2>1, <2>2, <2>3, OrderlyKept
    <3>2. PICK s \in ListOrders(list["DS"]) :
            queue' = q \o [i \in DOMAIN s |-> RequestATL(s[i], "SUPL")]
      BY <1>3, <2>3
    <3>3. ASSUME NEW h \in list["DS"].subs
          PROVE  Queued(RequestATL(h, "SUPL"))'
      <4> DEFINE n == Cardinality(list["DS"].subs)
                 r == [i \in DOMAIN s |-> RequestATL(s[i], "SUPL")]
      <4>1. PICK i \in DOMAIN s : s[i] = h
        BY <2>2, TraversalReachesAll
      <4>2. DOMAIN s = 1 .. n /\ n \in Nat
        BY FS_CardinalityType DEF ListOrders, Orderly
      <4>3. r \in Seq({RequestATL(s[j], "SUPL") : j \in DOMAIN s}) /\ Len(r) = n
        BY <4>2
      <4>4. Len(q \o r) = Len(q) + n /\ (q \o r)[Len(q) + i] = r[i]
        BY <4>1, <4>2, <4>3
      <4>5. Len(q) + i \in 1 .. Len(queue') /\ queue'[Len(q) + i] = RequestATL(h, "SUPL")
        BY <3>2, <4>1, <4>2, <4>4
      <4> QED
        BY <4>5 DEF Queued
    <3> QED
      BY <3>1, <3>3 DEF DsKeepsFaith, DsLeaversToldOf, Orderly
  <2> QED
    BY <2>1, <2>3, OtherKeepsFaith
<1> QED
  BY <1>1, <1>2, <1>3 DEF Denied

\* RELEASED tells all, if it does not end a close or deny a request.
LEMMA ReleasedFaith ==
  ASSUME TypeOK, Orderly(list["DS"]), NEW sm \in SMs, NEW c, NEW q \in Seq(Messages),
         Released(sm, c, q)
  PROVE  DsKeepsFaith
<1>1. CASE Ignore(c, q)
  BY <1>1, OtherKeepsFaith DEF Ignore
<1>2. CASE Denied(sm, c, q)
  BY <1>2, DeniedFaith
<1>3. CASE atl' = AtlCloseStatus(list[sm].subs) /\ SetSM(sm, "RELEASED", EmptyList)
  <2>1. list["DS"] \in SubscriberList
    BY DEF TypeOK, SMs
  <2>2. Orderly(EmptyList)
    BY <2>1, OrderlyKept
  <2> QED
    BY <1>3, <2>2, ToldAll
<1>4. CASE CloseComplete(sm, c, q)
  BY <1>4, CloseCompleteFaith
<1> QED
  BY <1>1, <1>2, <1>3, <1>4 DEF Released

\* GRANTED keeps the list.
LEMMA GrantedFaith ==
  ASSUME TypeOK, Orderly(list["DS"]), NEW sm \in SMs, NEW c, NEW q, Granted(sm, c, q)
  PROVE  DsKeepsFaith
<1>1. CASE SetSM(sm, "ACQUIRED", list[sm])
  BY <1>1, SetsList, OtherKeepsFaith
<1>2. CASE Ignore(c, q)
  BY <1>2, OtherKeepsFaith DEF Ignore
<1> QED
  BY <1>1, <1>2 DEF Granted

\* Every step keeps faith with the subscribers of the DS machine.
LEMMA FaithNext ==
  ASSUME IInv, Orderly(list["DS"]), [Next]_vars
  PROVE  DsKeepsFaith
<1>1. TypeOK
  BY DEF IInv
<1>2. CASE ProcRequestATL
  <2>1. Head(queue) \in Messages /\ Head(queue).kind = "requestATL"
    BY <1>1, <1>2 DEF ProcRequestATL, TypeOK
  <2>2. Head(queue).handle \in Handles /\ Head(queue).type \in AgpsTypes
    BY <2>1 DEF Messages
  <2>3. getAgpsStateMachine(Head(queue).type) \in SMs
    BY <2>2 DEF getAgpsStateMachine, AgpsTypes, SMs
  <2>4. CASE UNCHANGED list
    BY <2>4, OtherKeepsFaith
  <2>5. CASE Subscribe(getAgpsStateMachine(Head(queue).type), Head(queue).handle,
                       Head(queue).type = "SUPL_ES", cmds, Tail(queue))
    BY <1>1, <2>2, <2>3, <2>5, SubscribeFaith
  <2> QED
    BY <1>2, <2>4, <2>5 DEF ProcRequestATL
<1>3. CASE ProcReleaseATL
  <2>1. Head(queue) \in Messages
    BY <1>1, <1>3 DEF ProcReleaseATL, TypeOK
  <2>2. Head(queue).handle \in Handles
    BY <2>1 DEF Messages
  <2>3. CASE UNCHANGED list
    BY <2>3, OtherKeepsFaith
  <2>4. ASSUME NEW sm \in SMs, Unsubscribe(sm, Head(queue).handle, cmds, Tail(queue))
        PROVE  DsKeepsFaith
    BY <1>1, <2>2, <2>4, UnsubscribeFaith
  <2> QED
    BY <1>3, <2>3, <2>4 DEF ProcReleaseATL
<1>4. ASSUME NEW sm \in SMs, Provider(sm) \/ ReportLost(sm)
      PROVE  DsKeepsFaith
  <2>1. queue \in Seq(Messages)
    BY <1>1 DEF TypeOK
  <2>2. CASE ReportOpened(sm)
    BY <1>1, <2>2, GrantedFaith DEF ReportOpened
  <2>3. CASE ReportOpenFailed(sm)
    BY <1>1, <2>1, <2>3, DeniedFaith, ReleasedFaith DEF ReportOpenFailed
  <2>4. CASE ReportClosed(sm) \/ ReportLost(sm)
    BY <1>1, <2>1, <2>4, ReleasedFaith DEF ReportClosed, ReportLost
  <2> QED
    BY <1>4, <2>2, <2>3, <2>4 DEF Provider
<1>5. CASE \/ RetryRead \/ RetryPost \/ UNCHANGED vars
           \/ \E h \in Handles : ModemRelease(h) \/ \E type \in ReqTypes : ModemRequest(h, type)
  <2>1. UNCHANGED list
    BY <1>5 DEF RetryRead, RetryPost, ModemRelease, ModemRequest, vars
  <2> QED
    BY <2>1, OtherKeepsFaith
<1> QED
  BY <1>2, <1>3, <1>4, <1>5 DEF Next, MsgTask

\* A subscriber that leaves the DS machine is told so or handed to the SUPL
\* machine (AgpsStateMachine::notifyAllSubscribers, dropAllSubscribers).
THEOREM AlwaysLeavesWithANotice == Spec => LeavesWithANotice
<1>1. Init => Orderly(list["DS"])
  <2> SUFFICES ASSUME Init
               PROVE  Orderly(list["DS"])
    OBVIOUS
  <2>1. list["DS"] = EmptyList
    BY DEF Init, SMs
  <2>2. EmptyList.subs = {} /\ EmptyList.before = {}
    BY DEF EmptyList
  <2> QED
    BY <2>1, <2>2, FS_EmptySet DEF Orderly
<1>2. IInv /\ Orderly(list["DS"]) /\ [Next]_vars => Orderly(list["DS"])'
  BY FaithNext DEF DsKeepsFaith
<1>3. IInv /\ Orderly(list["DS"]) /\ [Next]_vars =>
        [\A h \in list["DS"].subs \ list'["DS"].subs :
           atl'[h] = "idle" \/ Queued(RequestATL(h, "SUPL"))']_vars
  BY FaithNext DEF DsKeepsFaith, DsLeaversToldOf
<1> QED
  BY <1>1, <1>2, <1>3, Invariance, PTL DEF Spec, LeavesWithANotice

=============================================================================
