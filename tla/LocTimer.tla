------------------------------ MODULE LocTimer ------------------------------
(***************************************************************************)
(* The timer service of gps/utils/LocTimer.cpp.  A LocTimer that is        *)
(* started gets a delegate; delegates wait in a heap whose top is due      *)
(* first, and one timerfd is armed for the top.  Three kinds of threads    *)
(* meet here:                                                              *)
(*   - clients start and stop timers, under the lock of the timer;         *)
(*   - the poll thread waits for the timerfd; when it has expired it       *)
(*     disarms it, takes it out of the poll set and sends a message;       *)
(*   - MsgTask handles the messages and alone touches the heap; when a     *)
(*     delegate expires it stops its timer and calls the client back.      *)
(*                                                                         *)
(* One container is modelled; timers and alarms have one each, which share *)
(* the two threads.  LocTimer objects are not destroyed.                   *)
(***************************************************************************)
EXTENDS Integers, Sequences

CONSTANTS
  Timers,        \* LocTimer objects
  None,          \* no timer
  Delays,        \* values of timeOutInMs
  MaxDelegates,  \* bound: delegates ever created
  MaxNow         \* bound: the last moment of the clock

ASSUME ConstantsAssumption ==
  /\ None \notin Timers
  /\ MaxDelegates \in Nat /\ MaxNow \in Nat
  /\ Delays \subseteq Nat

Delegates == 1 .. MaxDelegates
NoDelegate == 0
Disarmed == -1

VARIABLES
  now,      \* CLOCK_BOOTTIME
  mTimer,   \* the delegate of each timer that runs, or NoDelegate
  due,      \* mFutureTime of each delegate created so far
  heap,     \* the delegates in the container
  top,      \* the one at the top of its tree, or NoDelegate
  queue,    \* the messages for MsgTask
  deleted,  \* the delegates that have been deleted
  fd,       \* the moment the timerfd is armed for, or Disarmed
  polled,   \* is the timerfd in the epoll set?
  poller,   \* what the poll thread has done since epoll_wait returned
  mt        \* what MsgTask is in the middle of

vars == <<now, mTimer, due, heap, top, queue, deleted, fd, polled, poller, mt>>
heapVars == <<heap, top, deleted>>
fdVars == <<fd, polled, poller>>

Push(d)   == <<"push", d>>     \* MsgTimerPush
Remove(d) == <<"remove", d>>   \* MsgTimerRemove
Expire    == <<"expire", NoDelegate>>   \* MsgTimerExpire

Created == DOMAIN due
Running(t) == mTimer[t] # NoDelegate

Idle == [pc |-> "idle"]

-----------------------------------------------------------------------------
(* Clients.                                                                *)

\* The delegate is created, and its message sent, under the lock of the timer
Start(t, delay) ==
  /\ ~Running(t)
  /\ Len(due) < MaxDelegates /\ now + delay <= MaxNow
  /\ due' = Append(due, now + delay)
  /\ mTimer' = [mTimer EXCEPT ![t] = Len(due')]
  /\ queue' = Append(queue, Push(Len(due')))
  /\ UNCHANGED <<now, heapVars, fdVars, mt>>

\* LocTimer::stop with destroyLocked: the delegate forgets its client and a
\* message is sent to remove and delete it
stop(t) ==
  /\ Running(t)
  /\ mTimer' = [mTimer EXCEPT ![t] = NoDelegate]
  /\ queue' = Append(queue, Remove(mTimer[t]))

Stop(t) == stop(t) /\ UNCHANGED <<now, due, heapVars, fdVars, mt>>

Tick ==
  /\ now < MaxNow /\ now' = now + 1
  /\ UNCHANGED <<mTimer, due, queue, heapVars, fdVars, mt>>

-----------------------------------------------------------------------------
(* The poll thread: run and expire.                                        *)

WakeUp ==
  /\ poller = "waiting"
  /\ polled /\ fd # Disarmed /\ fd <= now
  /\ poller' = "woken"
  /\ UNCHANGED <<fd, polled, queue>>

Disarm ==
  /\ poller = "woken" /\ poller' = "disarmed"
  /\ fd' = Disarmed
  /\ UNCHANGED <<polled, queue>>

RemovePoll ==
  /\ poller = "disarmed" /\ poller' = "removed"
  /\ polled' = FALSE
  /\ UNCHANGED <<fd, queue>>

SendExpire_forgotten ==
  /\ poller = "removed" /\ poller' = "waiting"
  /\ UNCHANGED <<fd, polled, queue>>

SendExpire ==
  /\ poller = "removed" /\ poller' = "waiting"
  /\ queue' = Append(queue, Expire)
  /\ UNCHANGED <<fd, polled>>

PollerStep ==
  /\ WakeUp \/ Disarm \/ RemovePoll \/ SendExpire
  /\ UNCHANGED <<now, mTimer, due, heapVars, mt>>

-----------------------------------------------------------------------------
(* The heap: which of several delegates due at the same time gets to the   *)
(* top depends on the tree, but a new one never displaces its equal.       *)

Soonest(ds, d) == d \in ds /\ \A e \in ds : due[d] <= due[e]

TopOf(ds, d) == IF ds = {} THEN d = NoDelegate ELSE Soonest(ds, d)

\* A new delegate that stays below the top even if it is due before it
pushed_belowTop(d) ==
  /\ heap' = heap \cup {d}
  /\ top' = IF heap = {} THEN d ELSE top

pushed(d) ==
  /\ heap' = heap \cup {d}
  /\ top' = IF heap = {} \/ due[d] < due[top] THEN d ELSE top

removed(d) ==
  /\ heap' = heap \ {d}
  /\ IF d = top THEN TopOf(heap', top') ELSE UNCHANGED top

\* updateSoonestTime(NULL), or with a prior top that the top has displaced:
\* the timerfd is first added to the poll set and armed in a step of its own.
\* With an empty heap nothing is done: the case that removes the poll needs
\* a prior top and an empty heap, and no caller has both.
updateSoonestTime(outRanks) ==
  \/ /\ outRanks /\ heap' # {}
     /\ polled' = TRUE
     /\ mt' = [pc |-> "settime"]
  \/ /\ ~outRanks \/ heap' = {}
     /\ mt' = Idle
     /\ UNCHANGED polled

-----------------------------------------------------------------------------
(* MsgTask: one message after the other.                                   *)

Receive(m) ==
  /\ mt = Idle
  /\ queue # <<>> /\ m = Head(queue)
  /\ queue' = Tail(queue)

HandlePush(d) ==
  /\ Receive(Push(d))
  /\ pushed(d)
  /\ updateSoonestTime(top' # top)
  /\ UNCHANGED <<now, mTimer, due, deleted, fd, poller>>

\* The delegate may have left the heap already: then nothing was the top
HandleRemove_leavesTop(d) ==
  /\ Receive(Remove(d))
  /\ IF d = top THEN UNCHANGED <<heap, top>> ELSE removed(d)
  /\ updateSoonestTime(FALSE)
  /\ deleted' = deleted \cup {d}
  /\ UNCHANGED <<now, mTimer, due, fd, poller>>

HandleRemove(d) ==
  /\ Receive(Remove(d))
  /\ removed(d)
  /\ updateSoonestTime(d = top)
  /\ deleted' = deleted \cup {d}
  /\ UNCHANGED <<now, mTimer, due, fd, poller>>

SetTime ==
  /\ mt.pc = "settime" /\ mt' = Idle
  /\ fd' = due[top]
  /\ UNCHANGED <<now, mTimer, due, queue, heapVars, polled, poller>>

pop_forgetsClient(t0) ==
  /\ removed(top)
  /\ mt' = [pc |-> "loop", now |-> t0]

\* Pop the top and read its mClient, without the lock of the timer; t0 is
\* when the handler began.  A delegate whose timer was stopped has no client.
pop(t0) ==
  /\ removed(top)
  /\ \/ \E t \in Timers : mTimer[t] = top /\ mt' = [pc |-> "stop", client |-> t, now |-> t0]
     \/ (\A t \in Timers : mTimer[t] # top) /\ mt' = [pc |-> "loop", now |-> t0]

\* The first pop of the handler does not look at the time
HandleExpire ==
  /\ Receive(Expire)
  /\ \/ heap # {} /\ pop(now)
     \/ heap = {} /\ mt' = Idle /\ UNCHANGED <<heap, top>>
  /\ UNCHANGED <<now, mTimer, due, deleted, fdVars>>

\* client->stop() stops the delegate the timer has now; the client is called
\* back if there was one
StopAndCallBack ==
  /\ mt.pc = "stop" /\ mt' = [pc |-> "loop", now |-> mt.now]
  /\ \/ stop(mt.client)
     \/ ~Running(mt.client) /\ UNCHANGED <<mTimer, queue>>
  /\ UNCHANGED <<now, due, heapVars, fdVars>>

\* popIfOutRanks
PopNext ==
  /\ mt.pc = "loop"
  /\ heap # {} /\ due[top] <= mt.now
  /\ pop(mt.now)
  /\ UNCHANGED <<now, mTimer, due, queue, deleted, fdVars>>

EndExpire_idle ==
  /\ mt.pc = "loop"
  /\ (heap # {} => due[top] > mt.now)
  /\ mt' = Idle
  /\ UNCHANGED <<now, mTimer, due, queue, heapVars, fdVars>>

EndExpire ==
  /\ mt.pc = "loop"
  /\ (heap # {} => due[top] > mt.now)
  /\ UNCHANGED heapVars
  /\ updateSoonestTime(TRUE)
  /\ UNCHANGED <<now, mTimer, due, queue, fd, poller>>

MsgTaskStep ==
  \/ \E d \in Delegates : HandlePush(d) \/ HandleRemove(d)
  \/ HandleExpire \/ SetTime \/ StopAndCallBack \/ PopNext \/ EndExpire

-----------------------------------------------------------------------------
Init ==
  /\ now = 0
  /\ mTimer = [t \in Timers |-> NoDelegate]
  /\ due = <<>>
  /\ heap = {} /\ top = NoDelegate
  /\ queue = <<>>
  /\ deleted = {}
  /\ fd = Disarmed /\ polled = FALSE /\ poller = "waiting"
  /\ mt = Idle

Next ==
  \/ \E t \in Timers, delay \in Delays : Start(t, delay)
  \/ \E t \in Timers : Stop(t)
  \/ Tick \/ PollerStep \/ MsgTaskStep

Spec == Init /\ [][Next]_vars

\* Time passes and both threads run; no client has to do anything
FairSpec == Spec /\ WF_vars(Tick) /\ WF_vars(PollerStep) /\ WF_vars(MsgTaskStep)

-----------------------------------------------------------------------------
(* Properties.                                                             *)

Queued(m) == \E i \in DOMAIN queue : queue[i] = m

TypeOK ==
  /\ now \in 0 .. MaxNow
  /\ mTimer \in [Timers -> Delegates \cup {NoDelegate}]
  /\ due \in Seq(0 .. MaxNow) /\ Len(due) <= MaxDelegates
  /\ heap \subseteq Created /\ TopOf(heap, top)
  /\ queue \in Seq(({"push", "remove"} \X Delegates) \cup {Expire})
  /\ deleted \subseteq Created
  /\ fd \in 0 .. MaxNow \cup {Disarmed}
  /\ polled \in BOOLEAN
  /\ poller \in {"waiting", "woken", "disarmed", "removed"}
  /\ \/ mt = Idle \/ mt = [pc |-> "settime"]
     \/ mt \in [pc : {"loop"}, now : 0 .. MaxNow]
     \/ mt \in [pc : {"stop"}, client : Timers, now : 0 .. MaxNow]

\* "All timers are deleted here, and only here": once its message is handled
\* a delegate is neither in the heap nor that of a timer, and no message names
\* it; it is deleted once only, and never before it is pushed.
DeletedIsUnreachable ==
  /\ \A d \in deleted :
       /\ d \notin heap
       /\ \A t \in Timers : mTimer[t] # d
       /\ ~Queued(Push(d)) /\ ~Queued(Remove(d))
  /\ \A i, j \in DOMAIN queue :
       queue[i] # Expire /\ queue[i][2] = queue[j][2] /\ i < j =>
         queue[i][1] = "push" /\ queue[j][1] = "remove"

\* A timer that runs is not lost: its delegate is on its way into the heap or
\* in it, or MsgTask is about to stop the timer and call back.
RunningIsTracked ==
  \A t \in Timers : Running(t) =>
    \/ mTimer[t] \in heap
    \/ Queued(Push(mTimer[t]))
    \/ mt.pc = "stop" /\ mt.client = t

\* No wake-up is lost: as long as delegates wait, the timerfd is polled and
\* armed for the soonest, or the poll thread or MsgTask is at work and a
\* handler will arm it again.  The poll thread disarms and removes the poll
\* without any lock against MsgTask, which does the opposite.
WakeUpIsComing ==
  heap # {} =>
    \/ polled /\ fd = due[top]
    \/ poller # "waiting" \/ Queued(Expire) \/ mt # Idle

\* Every delegate is deleted in the end: its timer fires, if nobody stops it.
DelegateEnds == \A d \in Delegates : d \in Created ~> d \in deleted
=============================================================================
