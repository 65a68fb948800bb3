--------------------------- MODULE LocTimerProofs ---------------------------
(***************************************************************************)
(* Proofs about LocTimer for any timers, delays and bounds: no step of     *)
(* the clients, the poll thread and MsgTask loses the wake-up of the       *)
(* delegates that wait, although two threads change the timerfd and the    *)
(* poll set without a lock.                                                *)
(***************************************************************************)
EXTENDS LocTimer, TLAPS, SequenceTheorems

Messages == ({"push", "remove"} \X Delegates) \cup {Expire}

\* Messages and timers name delegates that have been created
NamesCreated ==
  /\ \A i \in DOMAIN queue : queue[i] # Expire => queue[i][2] \in Created
  /\ \A t \in Timers : Running(t) => mTimer[t] \in Created

\* An expiry message that the poll thread will send or has sent
ExpireIsComing == poller # "waiting" \/ Queued(Expire)

\* Between the two calls of updateSoonestTime the poll is in place, unless
\* the poll thread has just removed it: then its message will repair that
ArmedWhenSet == mt.pc = "settime" => heap # {} /\ (polled \/ ExpireIsComing)

IInv == TypeOK /\ NamesCreated /\ WakeUpIsComing /\ ArmedWhenSet

-----------------------------------------------------------------------------
(* Queue and clock.                                                        *)

\* Sending a message keeps the queue one of messages, and all that was in it.
LEMMA SendFacts ==
  ASSUME queue \in Seq(Messages), NEW m \in Messages, queue' = Append(queue, m)
  PROVE  /\ queue' \in Seq(Messages)
         /\ Queued(m)'
         /\ Queued(Expire) => Queued(Expire)'
         /\ \A i \in DOMAIN queue' : queue'[i] = m \/ \E j \in DOMAIN queue : queue'[i] = queue[j]
<1>1. /\ queue' \in Seq(Messages) /\ Len(queue') = Len(queue) + 1 /\ Len(queue) \in Nat
      /\ \A i \in 1 .. Len(queue) : queue'[i] = queue[i]
      /\ queue'[Len(queue) + 1] = m
  OBVIOUS
<1>2. DOMAIN queue = 1 .. Len(queue) /\ DOMAIN queue' = 1 .. Len(queue')
  BY <1>1
<1> QED
  BY <1>1, <1>2 DEF Queued

\* Receiving one leaves the others: an expiry message is lost to no other one.
LEMMA ReceiveFacts ==
  ASSUME queue \in Seq(Messages), NEW m, Receive(m)
  PROVE  /\ m \in Messages /\ queue' \in Seq(Messages)
         /\ \E i \in DOMAIN queue : queue[i] = m
         /\ m # Expire /\ Queued(Expire) => Queued(Expire)'
         /\ \A i \in DOMAIN queue' : \E j \in DOMAIN queue : queue'[i] = queue[j]
<1>1. /\ queue' \in Seq(Messages) /\ Len(queue') = Len(queue) - 1
      /\ Len(queue) \in Nat /\ Len(queue) > 0
      /\ \A i \in 1 .. Len(queue) - 1 : queue'[i] = queue[i + 1]
      /\ m = queue[1] /\ m \in Messages
  BY DEF Receive
<1>2. DOMAIN queue = 1 .. Len(queue) /\ DOMAIN queue' = 1 .. Len(queue) - 1
  BY <1>1
<1>3. ASSUME m # Expire, NEW i \in DOMAIN queue, queue[i] = Expire
      PROVE  Queued(Expire)'
  <2>1. i # 1 /\ i - 1 \in DOMAIN queue' /\ queue'[i - 1] = queue[i]
    BY <1>1, <1>2, <1>3
  <2> QED
    BY <1>3, <2>1 DEF Queued
<1> QED
  BY <1>1, <1>2, <1>3 DEF Queued

\* The delegates have their numbers, which a new one continues.
LEMMA CreatedFacts ==
  ASSUME TypeOK
  PROVE  /\ Created = 1 .. Len(due) /\ Len(due) \in 0 .. MaxDelegates
         /\ Created \subseteq Delegates /\ NoDelegate \notin Created
         /\ \A d \in Created : due[d] \in 0 .. MaxNow
BY ConstantsAssumption DEF TypeOK, Created, Delegates, NoDelegate

-----------------------------------------------------------------------------
(* The heap.                                                               *)

\* A delegate that is pushed gives a heap with a top that is due first.
LEMMA PushedFacts ==
  ASSUME TypeOK, NEW d \in Created, pushed(d), UNCHANGED due
  PROVE  /\ heap' # {} /\ heap' \subseteq Created' /\ TopOf(heap, top)'
         /\ top' = top => heap # {}
<1>1. heap' = heap \cup {d} /\ top' = (IF heap = {} \/ due[d] < due[top] THEN d ELSE top)
  BY DEF pushed
<1>2. Created' = Created /\ heap \subseteq Created /\ TopOf(heap, top) /\ NoDelegate \notin Created
  BY CreatedFacts DEF TypeOK, Created
<1>3. \A e \in Created : due[e] \in Int
  BY CreatedFacts, ConstantsAssumption
<1>4. CASE heap = {}
  BY <1>1, <1>2, <1>3, <1>4 DEF TopOf, Soonest
<1>5. CASE heap # {}
  <2>1. top \in heap /\ \A e \in heap : due[top] <= due[e]
    BY <1>2, <1>5 DEF TopOf, Soonest
  <2>2. CASE due[d] < due[top]
    <3>1. \A e \in heap' : due[d] <= due[e]
      BY <1>1, <1>2, <1>3, <2>1, <2>2
    <3> QED
      BY <1>1, <1>2, <1>5, <2>2, <3>1 DEF TopOf, Soonest
  <2>3. CASE ~(due[d] < due[top])
    <3>1. \A e \in heap' : due[top] <= due[e]
      BY <1>1, <1>2, <1>3, <2>1, <2>3
    <3> QED
      BY <1>1, <1>2, <1>5, <2>1, <2>3, <3>1 DEF TopOf, Soonest
  <2> QED
    BY <2>2, <2>3
<1> QED
  BY <1>4, <1>5

\* One that is removed, likewise; if it is not the top, the top stays.
LEMMA RemovedFacts ==
  ASSUME TypeOK, NEW d, removed(d), UNCHANGED due
  PROVE  /\ heap' \subseteq Created' /\ TopOf(heap, top)'
         /\ d # top => top' = top /\ (heap' # {} => heap # {})
<1>1. heap' = heap \ {d} /\ Created' = Created /\ heap \subseteq Created /\ TopOf(heap, top)
  BY DEF removed, TypeOK, Created
<1>2. CASE d = top
  BY <1>1, <1>2 DEF removed, TopOf, Soonest
<1>3. CASE d # top
  BY <1>1, <1>3 DEF removed, TopOf, Soonest
<1> QED
  BY <1>1, <1>2, <1>3

-----------------------------------------------------------------------------
(* The steps.                                                              *)

\* The invariant holds when nothing has been started.
LEMMA InitInvariant == Init => IInv
<1> SUFFICES ASSUME Init PROVE IInv
  OBVIOUS
<1>1. /\ due = <<>> /\ queue = <<>> /\ now = 0 /\ heap = {} /\ deleted = {} /\ mt = Idle
      /\ top = NoDelegate /\ fd = Disarmed /\ poller = "waiting"
      /\ mTimer = [t \in Timers |-> NoDelegate]
  BY DEF Init
<1>2. due \in Seq(0 .. MaxNow) /\ queue \in Seq(Messages) /\ Len(due) = 0
  BY <1>1
<1>3. now \in 0 .. MaxNow /\ Len(due) <= MaxDelegates
  BY <1>1, <1>2, ConstantsAssumption
<1>4. polled \in BOOLEAN
  BY DEF Init
<1>5. mTimer \in [Timers -> Delegates \cup {NoDelegate}] /\ TopOf(heap, top)
  BY <1>1 DEF TopOf
<1>6. TypeOK
  BY <1>1, <1>2, <1>3, <1>4, <1>5, Zenon DEF TypeOK, Messages
<1>7. NamesCreated /\ WakeUpIsComing /\ ArmedWhenSet
  BY <1>1 DEF NamesCreated, Running, WakeUpIsComing, ArmedWhenSet, Idle
<1> QED
  BY <1>6, <1>7 DEF IInv

\* A new delegate changes nothing for those that wait.
LEMMA StartStep ==
  ASSUME IInv, NEW t \in Timers, NEW delay \in Delays, Start(t, delay)
  PROVE  IInv'
<1> DEFINE n == Len(due')
<1>1. TypeOK /\ NamesCreated /\ WakeUpIsComing /\ ArmedWhenSet
  BY DEF IInv
<1>2. /\ due' = Append(due, now + delay) /\ now + delay \in 0 .. MaxNow
      /\ due \in Seq(0 .. MaxNow) /\ Len(due) < MaxDelegates /\ now' = now
  BY <1>1, ConstantsAssumption DEF Start, TypeOK
<1>3. /\ due' \in Seq(0 .. MaxNow) /\ n = Len(due) + 1
      /\ \A d \in 1 .. Len(due) : due'[d] = due[d]
  BY <1>2
<1>4. /\ Created = 1 .. Len(due) /\ Created' = 1 .. n /\ n \in Delegates
      /\ Created \subseteq Created' /\ NoDelegate \notin Created
  BY <1>1, <1>2, <1>3, CreatedFacts, ConstantsAssumption DEF Created, Delegates
<1>5. mTimer' = [mTimer EXCEPT ![t] = n] /\ queue' = Append(queue, Push(n))
  BY DEF Start
<1>6. UNCHANGED <<now, heap, top, deleted, fd, polled, poller, mt>>
  BY DEF Start, heapVars, fdVars
<1>7. queue \in Seq(Messages) /\ Push(n) \in Messages /\ Push(n) # Expire
  BY <1>1, <1>4 DEF TypeOK, Messages, Push, Expire
<1>8. /\ queue' \in Seq(Messages) /\ (Queued(Expire) => Queued(Expire)')
      /\ \A i \in DOMAIN queue' : queue'[i] = Push(n) \/ \E j \in DOMAIN queue : queue'[i] = queue[j]
  BY <1>5, <1>7, SendFacts
<1>9. heap \subseteq Created /\ TopOf(heap, top)
  BY <1>1 DEF TypeOK
<1>10. TopOf(heap, top)' /\ (heap # {} => due'[top] = due[top])
  BY <1>3, <1>4, <1>6, <1>9 DEF TopOf, Soonest
<1>11. mTimer' \in [Timers -> Delegates \cup {NoDelegate}]
  BY <1>1, <1>4, <1>5 DEF TypeOK
<1>12. TypeOK'
  <2>1. heap' \subseteq Created' /\ deleted' \subseteq Created' /\ Len(due') <= MaxDelegates
    BY <1>1, <1>2, <1>3, <1>4, <1>6, ConstantsAssumption DEF TypeOK
  <2>2. polled' \in BOOLEAN
    BY <1>1, <1>6, Zenon DEF TypeOK
  <2> QED
    BY <1>1, <1>3, <1>6, <1>8, <1>10, <1>11, <2>1, <2>2 DEF TypeOK, Messages, Idle
<1>13. NamesCreated'
  <2>1. n \in Created' /\ Push(n)[2] = n
    BY <1>2, <1>3, <1>4 DEF Push
  <2>2. \A i \in DOMAIN queue' : queue'[i] # Expire => queue'[i][2] \in Created'
    BY <1>1, <1>4, <1>8, <2>1 DEF NamesCreated
  <2>3. \A u \in Timers : Running(u)' => mTimer'[u] \in Created'
    BY <1>1, <1>4, <1>5 DEF NamesCreated, Running, TypeOK, Delegates
  <2> QED
    BY <2>2, <2>3 DEF NamesCreated
<1>14. WakeUpIsComing' /\ ArmedWhenSet'
  BY <1>1, <1>6, <1>8, <1>10, Zenon DEF WakeUpIsComing, ArmedWhenSet, ExpireIsComing
<1> QED
  BY <1>12, <1>13, <1>14 DEF IInv

\* Stopping a timer sends a message about its delegate, which exists.
LEMMA StopFacts ==
  ASSUME TypeOK, NamesCreated, NEW t \in Timers, stop(t), UNCHANGED due
  PROVE  /\ mTimer' \in [Timers -> Delegates \cup {NoDelegate}]
         /\ queue' \in Seq(Messages) /\ (Queued(Expire) => Queued(Expire)')
         /\ NamesCreated'
<1> DEFINE d == mTimer[t]
<1>1. /\ d \in Created /\ Created' = Created /\ NoDelegate \notin Created /\ d \in Delegates
      /\ mTimer' = [mTimer EXCEPT ![t] = NoDelegate] /\ queue' = Append(queue, Remove(d))
  BY CreatedFacts DEF stop, NamesCreated, Created
<1>2. queue \in Seq(Messages) /\ Remove(d) \in Messages /\ Remove(d)[2] = d
  BY <1>1 DEF TypeOK, Messages, Remove
<1>3. /\ queue' \in Seq(Messages) /\ (Queued(Expire) => Queued(Expire)')
      /\ \A i \in DOMAIN queue' : queue'[i] = Remove(d) \/ \E j \in DOMAIN queue : queue'[i] = queue[j]
  BY <1>1, <1>2, SendFacts
<1>4. mTimer' \in [Timers -> Delegates \cup {NoDelegate}]
  BY <1>1 DEF TypeOK
<1>5. NamesCreated'
  BY <1>1, <1>2, <1>3 DEF NamesCreated, Running, TypeOK
<1> QED
  BY <1>3, <1>4, <1>5

\* A client that stops its timer changes nothing for the delegates that wait.
LEMMA StopStep ==
  ASSUME IInv, NEW t \in Timers, Stop(t)
  PROVE  IInv'
<1>1. TypeOK /\ NamesCreated /\ WakeUpIsComing /\ ArmedWhenSet
  BY DEF IInv
<1>2. /\ stop(t) /\ UNCHANGED <<now, due, heap, top, deleted, fd, polled, poller, mt>>
  BY DEF Stop, heapVars, fdVars
<1>3. /\ mTimer' \in [Timers -> Delegates \cup {NoDelegate}]
      /\ queue' \in Seq(Messages) /\ (Queued(Expire) => Queued(Expire)')
      /\ NamesCreated'
  BY <1>1, <1>2, StopFacts
<1>4. Created' = Created /\ (TopOf(heap, top)' <=> TopOf(heap, top))
  BY <1>2 DEF Created, TopOf, Soonest
<1>5. TypeOK'
  BY <1>1, <1>2, <1>3, <1>4, Zenon DEF TypeOK, Messages
<1>6. WakeUpIsComing' /\ ArmedWhenSet'
  BY <1>1, <1>2, <1>3, Zenon DEF WakeUpIsComing, ArmedWhenSet, ExpireIsComing
<1> QED
  BY <1>3, <1>5, <1>6 DEF IInv

\* The clock does not matter: only what the timerfd is armed for.
LEMMA TickStep ==
  ASSUME IInv, Tick
  PROVE  IInv'
<1>1. TypeOK /\ NamesCreated /\ WakeUpIsComing /\ ArmedWhenSet
  BY DEF IInv
<1>2. now' \in 0 .. MaxNow
  BY <1>1, ConstantsAssumption DEF Tick, TypeOK
<1>3. UNCHANGED <<mTimer, due, queue, heap, top, deleted, fd, polled, poller, mt>>
  BY DEF Tick, heapVars, fdVars
<1>4. Created' = Created /\ (TopOf(heap, top)' <=> TopOf(heap, top))
      /\ (Queued(Expire)' <=> Queued(Expire))
  BY <1>3 DEF Created, TopOf, Soonest, Queued
<1>5. TypeOK'
  BY <1>1, <1>2, <1>3, <1>4, Zenon DEF TypeOK
<1>6. NamesCreated'
  BY <1>1, <1>3, <1>4, Zenon DEF NamesCreated, Running
<1>7. WakeUpIsComing' /\ ArmedWhenSet'
  BY <1>1, <1>3, <1>4, Zenon DEF WakeUpIsComing, ArmedWhenSet, ExpireIsComing
<1> QED
  BY <1>5, <1>6, <1>7 DEF IInv

\* From waking up to its message the poll thread may disarm the timerfd and
\* remove the poll: whatever MsgTask does meanwhile, the message repairs it.
LEMMA PollerStepKeeps ==
  ASSUME IInv, PollerStep
  PROVE  IInv'
<1>1. TypeOK /\ NamesCreated /\ WakeUpIsComing /\ ArmedWhenSet
  BY DEF IInv
<1>2. UNCHANGED <<now, mTimer, due, heap, top, deleted, mt>>
  BY DEF PollerStep, heapVars
<1>3. Created' = Created /\ (TopOf(heap, top)' <=> TopOf(heap, top))
  BY <1>2 DEF Created, TopOf, Soonest
<1>4. /\ fd' \in 0 .. MaxNow \cup {Disarmed}
      /\ poller' \in {"waiting", "woken", "disarmed", "removed"}
  BY <1>1 DEF PollerStep, WakeUp, Disarm, RemovePoll, SendExpire, TypeOK
<1>5. polled' \in BOOLEAN
  BY <1>1, Zenon DEF PollerStep, WakeUp, Disarm, RemovePoll, SendExpire, TypeOK
<1>6. \/ queue' = queue /\ poller' # "waiting"
      \/ queue' = Append(queue, Expire) /\ poller' = "waiting"
  BY DEF PollerStep, WakeUp, Disarm, RemovePoll, SendExpire
<1>7. queue \in Seq(Messages) /\ Expire \in Messages
  BY <1>1 DEF TypeOK, Messages
<1>8. CASE queue' = queue /\ poller' # "waiting"
  <2>1. TypeOK'
    BY <1>1, <1>2, <1>3, <1>4, <1>5, <1>8, Zenon DEF TypeOK
  <2>2. NamesCreated'
    BY <1>1, <1>2, <1>3, <1>8, Zenon DEF NamesCreated, Running
  <2>3. WakeUpIsComing' /\ ArmedWhenSet'
    BY <1>1, <1>2, <1>8, Zenon DEF WakeUpIsComing, ArmedWhenSet, ExpireIsComing
  <2> QED
    BY <2>1, <2>2, <2>3 DEF IInv
<1>9. CASE queue' = Append(queue, Expire) /\ poller' = "waiting"
  <2>1. /\ queue' \in Seq(Messages) /\ Queued(Expire)'
        /\ \A i \in DOMAIN queue' : queue'[i] = Expire \/ \E j \in DOMAIN queue : queue'[i] = queue[j]
    BY <1>7, <1>9, SendFacts
  <2>2. TypeOK'
    BY <1>1, <1>2, <1>3, <1>4, <1>5, <2>1, Zenon DEF TypeOK, Messages
  <2>3. NamesCreated'
    BY <1>1, <1>2, <1>3, <2>1, Zenon DEF NamesCreated, Running
  <2>4. WakeUpIsComing' /\ ArmedWhenSet'
    BY <1>1, <1>2, <2>1, Zenon DEF WakeUpIsComing, ArmedWhenSet, ExpireIsComing
  <2> QED
    BY <2>2, <2>3, <2>4 DEF IInv
<1> QED
  BY <1>6, <1>8, <1>9

-----------------------------------------------------------------------------
(* MsgTask.                                                                *)

\* A message that is handled names a delegate that exists, and the others
\* name theirs.
LEMMA NamedFacts ==
  ASSUME IInv, NEW d, NEW m, m[2] = d, m # Expire, Receive(m), UNCHANGED <<mTimer, due>>
  PROVE  /\ d \in Created /\ mt = Idle
         /\ queue' \in Seq(Messages) /\ (Queued(Expire) => Queued(Expire)')
         /\ NamesCreated'
<1>1. queue \in Seq(Messages) /\ NamesCreated /\ Created' = Created
  BY DEF IInv, TypeOK, Messages, Created
<1>2. /\ queue' \in Seq(Messages) /\ (Queued(Expire) => Queued(Expire)')
      /\ \E i \in DOMAIN queue : queue[i] = m
      /\ \A i \in DOMAIN queue' : \E j \in DOMAIN queue : queue'[i] = queue[j]
  BY <1>1, ReceiveFacts
<1>3. d \in Created
  BY <1>1, <1>2 DEF NamesCreated
<1>4. NamesCreated'
  BY <1>1, <1>2 DEF NamesCreated, Running
<1> QED
  BY <1>2, <1>3, <1>4 DEF Receive

\* A delegate that is pushed either becomes the top, and the timerfd is armed
\* next, or the top and what wakes it up stay.
LEMMA HandlePushStep ==
  ASSUME IInv, NEW d \in Delegates, HandlePush(d)
  PROVE  IInv'
<1>1. TypeOK /\ NamesCreated /\ WakeUpIsComing /\ ArmedWhenSet
  BY DEF IInv
<1>2. UNCHANGED <<now, mTimer, due, deleted, fd, poller>>
  BY DEF HandlePush
<1>3. Receive(Push(d)) /\ pushed(d) /\ Push(d)[2] = d /\ Push(d) # Expire
  BY DEF HandlePush, Push, Expire
<1>4. /\ d \in Created /\ mt = Idle /\ Created' = Created
      /\ queue' \in Seq(Messages) /\ (Queued(Expire) => Queued(Expire)')
      /\ NamesCreated'
  BY <1>2, <1>3, NamedFacts DEF Created
<1>5. /\ heap' # {} /\ heap' \subseteq Created' /\ TopOf(heap, top)'
      /\ top' = top => heap # {}
  BY <1>1, <1>2, <1>3, <1>4, PushedFacts
<1>6. \/ polled' = TRUE /\ mt' = [pc |-> "settime"]
      \/ top' = top /\ mt' = Idle /\ polled' = polled
  BY <1>5 DEF HandlePush, updateSoonestTime
<1>7. TypeOK'
  <2>1. polled' \in BOOLEAN
    BY <1>1, <1>6, Zenon DEF TypeOK
  <2>2. mt' = Idle \/ mt' = [pc |-> "settime"]
    BY <1>6
  <2> QED
    BY <1>1, <1>2, <1>4, <1>5, <2>1, <2>2, Zenon DEF TypeOK, Messages
<1>8. CASE polled' = TRUE /\ mt' = [pc |-> "settime"]
  <2>1. mt' # Idle
    BY <1>8 DEF Idle
  <2> QED
    BY <1>4, <1>5, <1>7, <1>8, <2>1, Zenon DEF IInv, WakeUpIsComing, ArmedWhenSet
<1>9. CASE top' = top /\ mt' = Idle /\ polled' = polled
  <2>1. mt'.pc # "settime"
    BY <1>9 DEF Idle
  <2>2. WakeUpIsComing'
    BY <1>1, <1>2, <1>4, <1>5, <1>9, Zenon DEF WakeUpIsComing
  <2> QED
    BY <1>4, <1>7, <2>1, <2>2, Zenon DEF IInv, ArmedWhenSet
<1> QED
  BY <1>6, <1>8, <1>9

\* The same for one that is removed; an empty heap needs no wake-up.
LEMMA HandleRemoveStep ==
  ASSUME IInv, NEW d \in Delegates, HandleRemove(d)
  PROVE  IInv'
<1>1. TypeOK /\ NamesCreated /\ WakeUpIsComing /\ ArmedWhenSet
  BY DEF IInv
<1>2. UNCHANGED <<now, mTimer, due, fd, poller>> /\ deleted' = deleted \cup {d}
  BY DEF HandleRemove
<1>3. Receive(Remove(d)) /\ removed(d) /\ Remove(d)[2] = d /\ Remove(d) # Expire
  BY DEF HandleRemove, Remove, Expire
<1>4. /\ d \in Created /\ mt = Idle /\ Created' = Created
      /\ queue' \in Seq(Messages) /\ (Queued(Expire) => Queued(Expire)')
      /\ NamesCreated'
  BY <1>2, <1>3, NamedFacts DEF Created
<1>5. /\ heap' \subseteq Created' /\ TopOf(heap, top)'
      /\ d # top => top' = top /\ (heap' # {} => heap # {})
  BY <1>1, <1>2, <1>3, RemovedFacts
<1>6. \/ heap' # {} /\ polled' = TRUE /\ mt' = [pc |-> "settime"]
      \/ (d # top \/ heap' = {}) /\ mt' = Idle /\ polled' = polled
  BY DEF HandleRemove, updateSoonestTime
<1>7. TypeOK'
  <2>1. polled' \in BOOLEAN
    BY <1>1, <1>6, Zenon DEF TypeOK
  <2>2. mt' = Idle \/ mt' = [pc |-> "settime"]
    BY <1>6
  <2>3. deleted' \subseteq Created'
    BY <1>1, <1>2, <1>4 DEF TypeOK
  <2> QED
    BY <1>1, <1>2, <1>4, <1>5, <2>1, <2>2, <2>3, Zenon DEF TypeOK, Messages
<1>8. CASE heap' # {} /\ polled' = TRUE /\ mt' = [pc |-> "settime"]
  <2>1. mt' # Idle
    BY <1>8 DEF Idle
  <2> QED
    BY <1>4, <1>7, <1>8, <2>1, Zenon DEF IInv, WakeUpIsComing, ArmedWhenSet
<1>9. CASE (d # top \/ heap' = {}) /\ mt' = Idle /\ polled' = polled
  <2>1. mt'.pc # "settime"
    BY <1>9 DEF Idle
  <2>2. WakeUpIsComing'
    BY <1>1, <1>2, <1>4, <1>5, <1>9, Zenon DEF WakeUpIsComing
  <2> QED
    BY <1>4, <1>7, <2>1, <2>2, Zenon DEF IInv, ArmedWhenSet
<1> QED
  BY <1>6, <1>8, <1>9

\* The timerfd is armed for the top; if the poll thread has removed the poll
\* since it was added, its message is still to come.
LEMMA SetTimeStep ==
  ASSUME IInv, SetTime
  PROVE  IInv'
<1>1. TypeOK /\ NamesCreated /\ ArmedWhenSet
  BY DEF IInv
<1>2. /\ mt.pc = "settime" /\ mt' = Idle /\ fd' = due[top]
      /\ UNCHANGED <<now, mTimer, due, queue, heap, top, deleted, polled, poller>>
  BY DEF SetTime, heapVars
<1>3. heap # {} /\ (polled \/ poller # "waiting" \/ Queued(Expire))
  BY <1>1, <1>2, Zenon DEF ArmedWhenSet, ExpireIsComing
<1>4. top \in Created
  BY <1>1, <1>3 DEF TypeOK, TopOf, Soonest
<1>5. fd' \in 0 .. MaxNow
  BY <1>1, <1>2, <1>4, CreatedFacts
<1>6. Created' = Created /\ (TopOf(heap, top)' <=> TopOf(heap, top))
      /\ (Queued(Expire)' <=> Queued(Expire)) /\ mt'.pc # "settime"
  BY <1>2 DEF Created, TopOf, Soonest, Queued, Idle
<1>7. TypeOK'
  <2>1. fd' \in 0 .. MaxNow \cup {Disarmed}
    BY <1>5
  <2> QED
    BY <1>1, <1>2, <1>6, <2>1, Zenon DEF TypeOK
<1>8. NamesCreated'
  BY <1>1, <1>2, <1>6, Zenon DEF NamesCreated, Running
<1>9. WakeUpIsComing' /\ ArmedWhenSet'
  BY <1>2, <1>3, <1>6, Zenon DEF WakeUpIsComing, ArmedWhenSet
<1> QED
  BY <1>7, <1>8, <1>9 DEF IInv

\* A delegate that is popped leaves a heap with a top, and MsgTask busy.
LEMMA PopFacts ==
  ASSUME TypeOK, NEW t0 \in 0 .. MaxNow, pop(t0), UNCHANGED due
  PROVE  /\ heap' \subseteq Created' /\ TopOf(heap, top)'
         /\ mt' # Idle /\ mt'.pc # "settime"
         /\ \/ mt' \in [pc : {"loop"}, now : 0 .. MaxNow]
            \/ mt' \in [pc : {"stop"}, client : Timers, now : 0 .. MaxNow]
<1>1. heap' \subseteq Created' /\ TopOf(heap, top)'
  BY RemovedFacts DEF pop
<1>2. \/ mt' = [pc |-> "loop", now |-> t0]
      \/ \E t \in Timers : mt' = [pc |-> "stop", client |-> t, now |-> t0]
  BY DEF pop
<1> QED
  BY <1>1, <1>2 DEF Idle

\* What is true in the middle of an expiry.
LEMMA BusyKeeps ==
  ASSUME TypeOK', NamesCreated', mt' # Idle, mt'.pc # "settime"
  PROVE  IInv'
BY Zenon DEF IInv, WakeUpIsComing, ArmedWhenSet

\* The message of the poll thread is taken out of the queue, and with it the
\* promise of a wake-up: unless the heap is empty MsgTask is busy from then on.
LEMMA HandleExpireStep ==
  ASSUME IInv, HandleExpire
  PROVE  IInv'
<1>1. TypeOK /\ NamesCreated
  BY DEF IInv
<1>2. Receive(Expire) /\ UNCHANGED <<now, mTimer, due, deleted, fd, polled, poller>>
  BY DEF HandleExpire, fdVars
<1>3. Created' = Created /\ now \in 0 .. MaxNow
  BY <1>1, <1>2 DEF Created, TypeOK
<1>4. /\ queue' \in Seq(Messages)
      /\ \A i \in DOMAIN queue' : \E j \in DOMAIN queue : queue'[i] = queue[j]
  BY <1>1, <1>2, ReceiveFacts DEF TypeOK, Messages
<1>5. NamesCreated'
  BY <1>1, <1>2, <1>3, <1>4 DEF NamesCreated, Running
<1>6. CASE pop(now)
  <2>1. /\ heap' \subseteq Created' /\ TopOf(heap, top)'
        /\ mt' # Idle /\ mt'.pc # "settime"
        /\ \/ mt' \in [pc : {"loop"}, now : 0 .. MaxNow]
           \/ mt' \in [pc : {"stop"}, client : Timers, now : 0 .. MaxNow]
    BY <1>1, <1>2, <1>3, <1>6, PopFacts
  <2>2. TypeOK'
    BY <1>1, <1>2, <1>3, <1>4, <2>1, Zenon DEF TypeOK, Messages
  <2> QED
    BY <1>5, <2>1, <2>2, BusyKeeps
<1>7. CASE heap = {} /\ mt' = Idle /\ UNCHANGED <<heap, top>>
  <2>1. TopOf(heap, top)' /\ mt'.pc # "settime"
    BY <1>1, <1>7 DEF TypeOK, TopOf, Idle
  <2>2. TypeOK'
    BY <1>1, <1>2, <1>3, <1>4, <1>7, <2>1, Zenon DEF TypeOK, Messages
  <2> QED
    BY <1>5, <1>7, <2>1, <2>2, Zenon DEF IInv, WakeUpIsComing, ArmedWhenSet
<1> QED
  BY <1>6, <1>7 DEF HandleExpire

\* In the middle of an expiry MsgTask knows the time and, to stop it, a timer.
LEMMA BusyFacts ==
  ASSUME TypeOK
  PROVE  /\ mt.pc = "stop" => mt.client \in Timers /\ mt.now \in 0 .. MaxNow
         /\ mt.pc = "loop" => mt.now \in 0 .. MaxNow
BY DEF TypeOK, Idle

\* Stopping the timer leaves MsgTask busy.
LEMMA StopAndCallBackStep ==
  ASSUME IInv, StopAndCallBack
  PROVE  IInv'
<1>1. TypeOK /\ NamesCreated
  BY DEF IInv
<1>2. /\ mt.pc = "stop" /\ mt' = [pc |-> "loop", now |-> mt.now]
      /\ UNCHANGED <<now, due, heap, top, deleted, fd, polled, poller>>
  BY DEF StopAndCallBack, heapVars, fdVars
<1>3. mt.client \in Timers /\ mt' \in [pc : {"loop"}, now : 0 .. MaxNow]
  BY <1>1, <1>2, BusyFacts
<1>4. mt' # Idle /\ mt'.pc # "settime"
  BY <1>2 DEF Idle
<1>5. Created' = Created /\ (TopOf(heap, top)' <=> TopOf(heap, top))
  BY <1>2 DEF Created, TopOf, Soonest
<1>6. /\ mTimer' \in [Timers -> Delegates \cup {NoDelegate}] /\ queue' \in Seq(Messages)
      /\ NamesCreated'
  <2>1. CASE stop(mt.client)
    BY <1>1, <1>2, <1>3, <2>1, StopFacts
  <2>2. CASE UNCHANGED <<mTimer, queue>>
    <3>1. NamesCreated'
      BY <1>1, <1>5, <2>2, Zenon DEF NamesCreated, Running
    <3> QED
      BY <1>1, <2>2, <3>1, Zenon DEF TypeOK, Messages
  <2> QED
    BY <2>1, <2>2 DEF StopAndCallBack
<1>7. TypeOK'
  BY <1>1, <1>2, <1>3, <1>5, <1>6, Zenon DEF TypeOK, Messages
<1> QED
  BY <1>4, <1>6, <1>7, BusyKeeps

\* So does the next pop.
LEMMA PopNextStep ==
  ASSUME IInv, PopNext
  PROVE  IInv'
<1>1. TypeOK /\ NamesCreated
  BY DEF IInv
<1>2. /\ mt.pc = "loop" /\ pop(mt.now)
      /\ UNCHANGED <<now, mTimer, due, queue, deleted, fd, polled, poller>>
  BY DEF PopNext, fdVars
<1>3. /\ heap' \subseteq Created' /\ TopOf(heap, top)'
      /\ mt' # Idle /\ mt'.pc # "settime"
      /\ \/ mt' \in [pc : {"loop"}, now : 0 .. MaxNow]
         \/ mt' \in [pc : {"stop"}, client : Timers, now : 0 .. MaxNow]
  BY <1>1, <1>2, BusyFacts, PopFacts
<1>4. Created' = Created
  BY <1>2 DEF Created
<1>5. TypeOK'
  BY <1>1, <1>2, <1>3, <1>4, Zenon DEF TypeOK
<1>6. NamesCreated'
  BY <1>1, <1>2, <1>4, Zenon DEF NamesCreated, Running
<1> QED
  BY <1>3, <1>5, <1>6, BusyKeeps

\* At the end the poll is added and the timerfd armed next, or the heap is
\* empty.
LEMMA EndExpireStep ==
  ASSUME IInv, EndExpire
  PROVE  IInv'
<1>1. TypeOK /\ NamesCreated
  BY DEF IInv
<1>2. UNCHANGED <<now, mTimer, due, queue, heap, top, deleted, fd, poller>>
  BY DEF EndExpire, heapVars
<1>3. \/ heap' # {} /\ polled' = TRUE /\ mt' = [pc |-> "settime"]
      \/ heap' = {} /\ mt' = Idle /\ polled' = polled
  BY DEF EndExpire, updateSoonestTime
<1>4. Created' = Created /\ (TopOf(heap, top)' <=> TopOf(heap, top))
  BY <1>2 DEF Created, TopOf, Soonest
<1>5. polled' \in BOOLEAN
  BY <1>1, <1>3, Zenon DEF TypeOK
<1>6. mt' = Idle \/ mt' = [pc |-> "settime"]
  BY <1>3
<1>7. TypeOK'
  BY <1>1, <1>2, <1>4, <1>5, <1>6, Zenon DEF TypeOK
<1>8. NamesCreated'
  BY <1>1, <1>2, <1>4, Zenon DEF NamesCreated, Running
<1>9. Idle # [pc |-> "settime"] /\ Idle.pc # "settime"
  BY DEF Idle
<1>10. WakeUpIsComing' /\ ArmedWhenSet'
  BY <1>3, <1>9, Zenon DEF WakeUpIsComing, ArmedWhenSet
<1> QED
  BY <1>7, <1>8, <1>10 DEF IInv

-----------------------------------------------------------------------------
(* The theorems.                                                           *)

\* Every step keeps the invariant.
LEMMA StepInvariant == IInv /\ [Next]_vars => IInv'
<1> SUFFICES ASSUME IInv, [Next]_vars PROVE IInv'
  OBVIOUS
<1>1. ASSUME NEW t \in Timers, NEW delay \in Delays, Start(t, delay) PROVE IInv'
  BY <1>1, StartStep
<1>2. ASSUME NEW t \in Timers, Stop(t) PROVE IInv'
  BY <1>2, StopStep
<1>3. CASE Tick
  BY <1>3, TickStep
<1>4. CASE PollerStep
  BY <1>4, PollerStepKeeps
<1>5. CASE MsgTaskStep
  <2>1. ASSUME NEW d \in Delegates, HandlePush(d) PROVE IInv'
    BY <2>1, HandlePushStep
  <2>2. ASSUME NEW d \in Delegates, HandleRemove(d) PROVE IInv'
    BY <2>2, HandleRemoveStep
  <2>3. CASE HandleExpire
    BY <2>3, HandleExpireStep
  <2>4. CASE SetTime
    BY <2>4, SetTimeStep
  <2>5. CASE StopAndCallBack
    BY <2>5, StopAndCallBackStep
  <2>6. CASE PopNext
    BY <2>6, PopNextStep
  <2>7. CASE EndExpire
    BY <2>7, EndExpireStep
  <2> QED
    BY <1>5, <2>1, <2>2, <2>3, <2>4, <2>5, <2>6, <2>7, Zenon DEF MsgTaskStep
<1>6. CASE UNCHANGED vars
  <2>1. UNCHANGED <<now, mTimer, due, heap, top, queue, deleted, fd, polled, poller, mt>>
    BY <1>6 DEF vars
  <2>2. Created' = Created /\ (TopOf(heap, top)' <=> TopOf(heap, top))
        /\ (Queued(Expire)' <=> Queued(Expire))
    BY <2>1 DEF Created, TopOf, Soonest, Queued
  <2>3. TypeOK'
    BY <2>1, <2>2, Zenon DEF IInv, TypeOK
  <2>4. NamesCreated'
    BY <2>1, <2>2, Zenon DEF IInv, NamesCreated, Running
  <2>5. WakeUpIsComing' /\ ArmedWhenSet'
    BY <2>1, <2>2, Zenon DEF IInv, WakeUpIsComing, ArmedWhenSet, ExpireIsComing
  <2> QED
    BY <2>3, <2>4, <2>5 DEF IInv
<1> QED
  BY <1>1, <1>2, <1>3, <1>4, <1>5, <1>6, Zenon DEF Next

\* In every state the invariant holds.
THEOREM Invariance == Spec => []IInv
BY InitInvariant, StepInvariant, PTL DEF Spec

\* Heap, queue and timers name delegates that exist, and the top of the heap
\* is due first.
THEOREM TypeCorrect == Spec => []TypeOK
<1>1. IInv => TypeOK
  BY DEF IInv
<1> QED
  BY <1>1, Invariance, PTL

\* However the poll thread and MsgTask interleave, as long as delegates wait
\* the timerfd is armed for the soonest or one of the two will arm it again.
THEOREM AlwaysWakeUpIsComing == Spec => []WakeUpIsComing
<1>1. IInv => WakeUpIsComing
  BY DEF IInv
<1> QED
  BY <1>1, Invariance, PTL

-----------------------------------------------------------------------------
(* The life of a delegate: pushed, removed and deleted once, in this order. *)

\* Of two messages that name a delegate the first is to push it
Ordered ==
  \A i, j \in DOMAIN queue :
    queue[i] # Expire /\ queue[i][2] = queue[j][2] /\ i < j =>
      queue[i][1] = "push" /\ queue[j][1] = "remove"

Unreachable ==
  \A d \in deleted :
    /\ d \notin heap
    /\ \A t \in Timers : mTimer[t] # d
    /\ ~Queued(Push(d)) /\ ~Queued(Remove(d))

\* A delegate belongs to one timer, and is removed only when it has lost it
OneOwner ==
  \A t \in Timers : Running(t) =>
    /\ ~Queued(Remove(mTimer[t]))
    /\ \A u \in Timers : mTimer[u] = mTimer[t] => u = t

\* What is in the heap will not be pushed again
PushedOnce == \A d \in heap : ~Queued(Push(d))

Life == Ordered /\ Unreachable /\ OneOwner /\ PushedOnce

\* A message that is sent comes after those that name its delegate.
LEMMA SendOrder ==
  ASSUME queue \in Seq(Messages), Ordered, NEW m \in Messages, queue' = Append(queue, m),
         m # Expire => \A x \in Messages : Queued(x) /\ x[2] = m[2] => x[1] = "push" /\ m[1] = "remove"
  PROVE  Ordered' /\ \A x : Queued(x)' <=> Queued(x) \/ x = m
<1>1. /\ queue' \in Seq(Messages) /\ Len(queue') = Len(queue) + 1 /\ Len(queue) \in Nat
      /\ \A i \in 1 .. Len(queue) : queue'[i] = queue[i]
      /\ queue'[Len(queue) + 1] = m
      /\ \A i \in 1 .. Len(queue) : queue[i] \in Messages
  OBVIOUS
<1>2. DOMAIN queue = 1 .. Len(queue) /\ DOMAIN queue' = 1 .. Len(queue')
  BY <1>1
<1>3. \A x : Queued(x)' <=> Queued(x) \/ x = m
  BY <1>1, <1>2 DEF Queued
<1>4. \A x \in Messages \ {Expire} : x[2] # Expire[2]
  BY DEF Messages, Expire, Delegates, NoDelegate
<1>5. ASSUME NEW i \in DOMAIN queue', NEW j \in DOMAIN queue',
             queue'[i] # Expire, queue'[i][2] = queue'[j][2], i < j
      PROVE  queue'[i][1] = "push" /\ queue'[j][1] = "remove"
  <2>1. i \in DOMAIN queue /\ queue'[i] = queue[i] /\ queue[i] \in Messages \ {Expire}
    BY <1>1, <1>2, <1>5
  <2>2. CASE j \in DOMAIN queue
    BY <1>1, <1>2, <1>5, <2>1, <2>2 DEF Ordered
  <2>3. CASE j = Len(queue) + 1
    <3>1. queue'[j] = m /\ m # Expire /\ Queued(queue[i]) /\ queue[i][2] = m[2]
      BY <1>1, <1>4, <1>5, <2>1, <2>3 DEF Queued
    <3> QED
      BY <2>1, <3>1
  <2> QED
    BY <1>1, <1>2, <2>2, <2>3
<1> QED
  BY <1>3, <1>5 DEF Ordered

\* After a message has been received only one to remove can name its delegate.
LEMMA ReceiveOrder ==
  ASSUME queue \in Seq(Messages), Ordered, NEW m, Receive(m)
  PROVE  /\ Ordered' /\ Queued(m)
         /\ \A x : Queued(x)' => Queued(x)
         /\ \A x : x # m /\ Queued(x) => Queued(x)'
         /\ m # Expire => \A x : Queued(x)' /\ x[2] = m[2] => m[1] = "push" /\ x[1] = "remove"
<1>1. /\ queue' \in Seq(Messages) /\ Len(queue') = Len(queue) - 1
      /\ Len(queue) \in Nat /\ Len(queue) > 0
      /\ \A i \in 1 .. Len(queue) - 1 : queue'[i] = queue[i + 1]
      /\ m = queue[1] /\ m \in Messages
  BY DEF Receive
<1>2. DOMAIN queue = 1 .. Len(queue) /\ DOMAIN queue' = 1 .. Len(queue) - 1
  BY <1>1
<1>3. \A i \in DOMAIN queue' : i \in Int /\ i + 1 \in DOMAIN queue /\ queue'[i] = queue[i + 1] /\ 1 < i + 1
  BY <1>1, <1>2
<1>4. \A i \in DOMAIN queue : i = 1 \/ (i - 1 \in DOMAIN queue' /\ queue'[i - 1] = queue[i])
  BY <1>1, <1>2
<1>5. 1 \in DOMAIN queue
  BY <1>1, <1>2
<1>6. Ordered'
  <2> SUFFICES ASSUME NEW i \in DOMAIN queue', NEW j \in DOMAIN queue',
                      queue'[i] # Expire, queue'[i][2] = queue'[j][2], i < j
               PROVE  queue'[i][1] = "push" /\ queue'[j][1] = "remove"
    BY DEF Ordered
  <2>1. i + 1 < j + 1
    BY <1>3
  <2> QED
    BY <1>3, <2>1 DEF Ordered
<1>7. Queued(m) /\ (\A x : Queued(x)' => Queued(x)) /\ \A x : x # m /\ Queued(x) => Queued(x)'
  BY <1>1, <1>3, <1>4, <1>5 DEF Queued
<1>8. ASSUME m # Expire, NEW x, Queued(x)', x[2] = m[2]
      PROVE  m[1] = "push" /\ x[1] = "remove"
  <2>1. PICK i \in DOMAIN queue' : queue'[i] = x
    BY <1>8 DEF Queued
  <2>2. i + 1 \in DOMAIN queue /\ queue[i + 1] = x /\ 1 < i + 1
    BY <1>3, <2>1
  <2> QED
    BY <1>1, <1>5, <1>8, <2>2 DEF Ordered
<1> QED
  BY <1>6, <1>7, <1>8

\* Two messages that name a delegate are different, and name that one.
LEMMA MessageNames ==
  ASSUME NEW d
  PROVE  /\ Push(d)[1] = "push" /\ Push(d)[2] = d /\ Remove(d)[1] = "remove" /\ Remove(d)[2] = d
         /\ Push(d) # Remove(d)
         /\ \A e : Push(d) # Remove(e) /\ (Push(d) = Push(e) => d = e) /\ (Remove(d) = Remove(e) => d = e)
         /\ d \in Delegates => Push(d) \in Messages /\ Remove(d) \in Messages
         /\ Push(d) # Expire /\ Remove(d) # Expire
BY DEF Push, Remove, Expire, Messages

\* A delegate that is new is not named yet.
LEMMA StartLife ==
  ASSUME TypeOK, NamesCreated, Life, RunningIsTracked,
         NEW t \in Timers, NEW delay \in Delays, Start(t, delay)
  PROVE  Life' /\ RunningIsTracked'
<1> DEFINE n == Len(due')
<1>1. /\ Len(due) \in Nat /\ Len(due) < MaxDelegates /\ n = Len(due) + 1
      /\ n \in Delegates /\ n \notin Created /\ n # NoDelegate
  <2>1. due \in Seq(0 .. MaxNow) /\ due' = Append(due, now + delay) /\ Len(due) < MaxDelegates
    BY DEF Start, TypeOK
  <2>2. Len(due) \in Nat /\ n = Len(due) + 1
    BY <2>1
  <2> QED
    BY <2>1, <2>2, CreatedFacts, ConstantsAssumption DEF Delegates, NoDelegate
<1>2. /\ mTimer' = [mTimer EXCEPT ![t] = n] /\ queue' = Append(queue, Push(n))
      /\ heap' = heap /\ deleted' = deleted /\ mt' = mt
  BY DEF Start, heapVars
<1> HIDE DEF n
<1>3. /\ queue \in Seq(Messages) /\ heap \subseteq Created /\ deleted \subseteq Created
      /\ mTimer \in [Timers -> Delegates \cup {NoDelegate}]
  BY DEF TypeOK, Messages
<1>4. \A x \in Messages : Queued(x) => x[2] # n
  <2> SUFFICES ASSUME NEW x \in Messages, Queued(x) PROVE x[2] # n
    OBVIOUS
  <2>1. CASE x = Expire
    BY <1>1, <2>1 DEF Expire
  <2>2. CASE x # Expire
    BY <1>1, <2>2 DEF Queued, NamesCreated
  <2> QED
    BY <2>1, <2>2
<1>5. Ordered' /\ \A x : Queued(x)' <=> Queued(x) \/ x = Push(n)
  BY <1>1, <1>2, <1>3, <1>4, SendOrder, MessageNames DEF Life
<1>6. ~Queued(Remove(n)) /\ \A u \in Timers : mTimer[u] # n
  BY <1>1, <1>3, <1>4, MessageNames DEF NamesCreated, Running
<1>7. mTimer'[t] = n /\ \A u \in Timers \ {t} : mTimer'[u] = mTimer[u]
  BY <1>2, <1>3
<1>8. \A d, e : Push(d) # Remove(e) /\ (Push(d) = Push(e) => d = e)
  BY MessageNames
<1>9. Unreachable'
  BY <1>1, <1>2, <1>3, <1>5, <1>7, <1>8 DEF Life, Unreachable
<1>10. OneOwner'
  BY <1>1, <1>5, <1>6, <1>7, <1>8 DEF Life, OneOwner, Running
<1>11. PushedOnce'
  BY <1>1, <1>2, <1>3, <1>5, <1>8 DEF Life, PushedOnce
<1>12. RunningIsTracked'
  BY <1>2, <1>5, <1>7 DEF RunningIsTracked, Running
<1> QED
  BY <1>5, <1>9, <1>10, <1>11, <1>12 DEF Life

\* A timer that stops leaves its delegate, which is to be removed, to nobody.
LEMMA StopLife ==
  ASSUME TypeOK, NamesCreated, Life, NEW t \in Timers, stop(t), heap' = heap, deleted' = deleted
  PROVE  /\ Life'
         /\ mTimer'[t] = NoDelegate /\ \A u \in Timers \ {t} : mTimer'[u] = mTimer[u]
         /\ \A x : Queued(x) => Queued(x)'
<1> DEFINE d == mTimer[t]
<1>1. /\ Running(t) /\ mTimer' = [mTimer EXCEPT ![t] = NoDelegate] /\ queue' = Append(queue, Remove(d))
      /\ d \in Created /\ d \in Delegates /\ d # NoDelegate
  BY CreatedFacts DEF stop, NamesCreated, Running
<1>2. /\ queue \in Seq(Messages) /\ mTimer \in [Timers -> Delegates \cup {NoDelegate}]
      /\ heap \subseteq Created /\ deleted \subseteq Created
  BY DEF TypeOK, Messages
<1>3. mTimer'[t] = NoDelegate /\ \A u \in Timers \ {t} : mTimer'[u] = mTimer[u]
  BY <1>1, <1>2
<1>4. ~Queued(Remove(d)) /\ (\A u \in Timers \ {t} : mTimer[u] # d) /\ d \notin deleted
  BY <1>1 DEF Life, OneOwner, Unreachable
<1> HIDE DEF d
<1>5. \A x \in Messages : Queued(x) /\ x[2] = d => x[1] = "push"
  BY <1>1, <1>4 DEF Messages, Expire, Remove, NoDelegate
<1>6. Ordered' /\ \A x : Queued(x)' <=> Queued(x) \/ x = Remove(d)
  BY <1>1, <1>2, <1>5, SendOrder, MessageNames DEF Life
<1>7. \A e : Push(e) # Remove(d) /\ (Remove(e) = Remove(d) => e = d)
  BY MessageNames
<1>8. \A e \in deleted : e # NoDelegate
  BY <1>2, CreatedFacts
<1>9. Unreachable'
  BY <1>3, <1>4, <1>6, <1>7, <1>8 DEF Life, Unreachable
<1>10. OneOwner'
  BY <1>3, <1>4, <1>6, <1>7 DEF Life, OneOwner, Running
<1>11. PushedOnce'
  BY <1>6, <1>7 DEF Life, PushedOnce
<1> QED
  BY <1>3, <1>6, <1>9, <1>10, <1>11 DEF Life

\* A delegate is pushed before anything else happens to it.
LEMMA HandlePushLife ==
  ASSUME TypeOK, Life, RunningIsTracked, NEW d \in Delegates, HandlePush(d)
  PROVE  Life' /\ RunningIsTracked'
<1>1. /\ Receive(Push(d)) /\ heap' = heap \cup {d}
      /\ mTimer' = mTimer /\ deleted' = deleted /\ mt = Idle
  BY DEF HandlePush, pushed, Receive
<1>2. queue \in Seq(Messages)
  BY DEF TypeOK, Messages
<1>3. /\ Ordered' /\ Queued(Push(d))
      /\ \A x : Queued(x)' => Queued(x)
      /\ \A x : x # Push(d) /\ Queued(x) => Queued(x)'
      /\ \A x : Queued(x)' /\ x[2] = d => x[1] = "remove"
  BY <1>1, <1>2, ReceiveOrder, MessageNames DEF Life
<1>4. ~Queued(Push(d))' /\ d \notin deleted
  BY <1>3, MessageNames DEF Life, Unreachable
<1>5. Unreachable'
  BY <1>1, <1>3, <1>4 DEF Life, Unreachable
<1>6. OneOwner'
  BY <1>1, <1>3 DEF Life, OneOwner, Running
<1>7. PushedOnce'
  BY <1>1, <1>3, <1>4 DEF Life, PushedOnce
<1>8. RunningIsTracked'
  <2>1. mt.pc # "stop"
    BY <1>1 DEF Idle
  <2>2. \A e : Push(e) = Push(d) => e = d
    BY MessageNames
  <2> QED
    BY <1>1, <1>3, <2>1, <2>2 DEF RunningIsTracked, Running
<1> QED
  BY <1>3, <1>5, <1>6, <1>7, <1>8 DEF Life

\* A delegate that is deleted has no timer, is in the heap no more, and its
\* message was the last that named it.
LEMMA HandleRemoveLife ==
  ASSUME TypeOK, Life, RunningIsTracked, NEW d \in Delegates, HandleRemove(d)
  PROVE  Life' /\ RunningIsTracked'
<1>1. /\ Receive(Remove(d)) /\ heap' = heap \ {d}
      /\ mTimer' = mTimer /\ deleted' = deleted \cup {d} /\ mt = Idle
  BY DEF HandleRemove, removed, Receive
<1>2. queue \in Seq(Messages) /\ NoDelegate \notin Delegates
  BY DEF TypeOK, Messages, NoDelegate, Delegates
<1>3. /\ Ordered' /\ Queued(Remove(d))
      /\ \A x : Queued(x)' => Queued(x)
      /\ \A x : x # Remove(d) /\ Queued(x) => Queued(x)'
      /\ \A x : Queued(x)' => x[2] # d
  <2>1. /\ Ordered' /\ Queued(Remove(d))
        /\ \A x : Queued(x)' => Queued(x)
        /\ \A x : x # Remove(d) /\ Queued(x) => Queued(x)'
        /\ \A x : Queued(x)' /\ x[2] = d => Remove(d)[1] = "push"
    BY <1>1, <1>2, ReceiveOrder, MessageNames DEF Life
  <2> QED
    BY <2>1, MessageNames
<1>4. \A t \in Timers : mTimer[t] # d
  BY <1>2, <1>3 DEF Life, OneOwner, Running
<1>5. ~Queued(Push(d))' /\ ~Queued(Remove(d))'
  BY <1>3, MessageNames
<1>6. Unreachable'
  BY <1>1, <1>3, <1>4, <1>5 DEF Life, Unreachable
<1>7. OneOwner'
  BY <1>1, <1>3 DEF Life, OneOwner, Running
<1>8. PushedOnce'
  BY <1>1, <1>3 DEF Life, PushedOnce
<1>9. RunningIsTracked'
  <2>1. mt.pc # "stop"
    BY <1>1 DEF Idle
  <2>2. \A e : Push(e) # Remove(d)
    BY MessageNames
  <2> QED
    BY <1>1, <1>3, <1>4, <2>1, <2>2 DEF RunningIsTracked, Running
<1> QED
  BY <1>3, <1>6, <1>7, <1>8, <1>9 DEF Life

\* A delegate that is popped is found by its timer, if it has one: MsgTask will
\* stop that timer.
LEMMA PopLife ==
  ASSUME TypeOK, Life, RunningIsTracked, mt.pc # "stop", NEW t0, pop(t0),
         mTimer' = mTimer, deleted' = deleted, Ordered',
         \A x : Queued(x)' => Queued(x), \A d : Queued(Push(d)) => Queued(Push(d))'
  PROVE  Life' /\ RunningIsTracked'
<1>1. heap' = heap \ {top}
  BY DEF pop, removed
<1>2. Unreachable' /\ OneOwner' /\ PushedOnce'
  BY <1>1 DEF Life, Unreachable, OneOwner, PushedOnce, Running
<1>3. \A t \in Timers : Running(t) => mTimer[t] \in heap \/ Queued(Push(mTimer[t]))
  BY DEF RunningIsTracked
<1>4. RunningIsTracked'
  <2>1. CASE \E t \in Timers : mTimer[t] = top /\ mt' = [pc |-> "stop", client |-> t, now |-> t0]
    <3>1. PICK t \in Timers : mTimer[t] = top /\ mt' = [pc |-> "stop", client |-> t, now |-> t0]
      BY <2>1
    <3>2. mt'.pc = "stop" /\ mt'.client = t
      BY <3>1
    <3>3. \A u \in Timers : Running(u) /\ mTimer[u] = top => u = t
      BY <3>1 DEF Life, OneOwner
    <3> QED
      BY <1>1, <1>3, <3>2, <3>3 DEF RunningIsTracked, Running
  <2>2. CASE \A t \in Timers : mTimer[t] # top
    BY <1>1, <1>3, <2>2 DEF RunningIsTracked, Running
  <2> QED
    BY <2>1, <2>2 DEF pop
<1> QED
  BY <1>2, <1>4 DEF Life

\* Steps that move no delegate keep what is known of them.
LEMMA OtherLife ==
  ASSUME Life, RunningIsTracked, mt.pc # "stop" \/ mt' = mt,
         mTimer' = mTimer, deleted' = deleted, heap' = heap, Ordered',
         \A x : Queued(x)' => Queued(x) \/ x = Expire, \A d : Queued(Push(d)) => Queued(Push(d))'
  PROVE  Life' /\ RunningIsTracked'
<1>1. \A d : Push(d) # Expire /\ Remove(d) # Expire
  BY MessageNames
<1>2. Unreachable' /\ OneOwner' /\ PushedOnce'
  BY <1>1 DEF Life, Unreachable, OneOwner, PushedOnce, Running
<1>3. RunningIsTracked'
  BY DEF RunningIsTracked, Running
<1> QED
  BY <1>2, <1>3 DEF Life

\* Every step keeps the order of a delegate's life.
LEMMA LifeStep ==
  ASSUME TypeOK, NamesCreated, Life, RunningIsTracked, [Next]_vars
  PROVE  Life' /\ RunningIsTracked'
<1>1. queue \in Seq(Messages)
  BY DEF TypeOK, Messages
<1>2. CASE \E t \in Timers, delay \in Delays : Start(t, delay)
  BY <1>2, StartLife
<1>3. ASSUME NEW t \in Timers, Stop(t) PROVE Life' /\ RunningIsTracked'
  <2>1. stop(t) /\ heap' = heap /\ deleted' = deleted /\ mt' = mt
    BY <1>3 DEF Stop, heapVars
  <2>2. /\ Life'
        /\ mTimer'[t] = NoDelegate /\ \A u \in Timers \ {t} : mTimer'[u] = mTimer[u]
        /\ \A x : Queued(x) => Queued(x)'
    BY <2>1, StopLife
  <2> QED
    BY <2>1, <2>2 DEF RunningIsTracked, Running
<1>4. CASE Tick \/ UNCHANGED vars
  <2>1. UNCHANGED <<mTimer, queue, heap, deleted, mt>>
    BY <1>4 DEF Tick, heapVars, vars
  <2>2. Ordered' /\ \A x : Queued(x)' <=> Queued(x)
    BY <2>1 DEF Life, Ordered, Queued
  <2> QED
    BY <2>1, <2>2, OtherLife
<1>5. CASE PollerStep
  <2>1. UNCHANGED <<mTimer, heap, deleted, mt>> /\ (queue' = queue \/ queue' = Append(queue, Expire))
    BY <1>5 DEF PollerStep, WakeUp, Disarm, RemovePoll, SendExpire, heapVars
  <2>2. CASE queue' = queue
    <3>1. Ordered' /\ \A x : Queued(x)' <=> Queued(x)
      BY <2>2 DEF Life, Ordered, Queued
    <3> QED
      BY <2>1, <3>1, OtherLife
  <2>3. CASE queue' = Append(queue, Expire)
    <3>1. Ordered' /\ \A x : Queued(x)' <=> Queued(x) \/ x = Expire
      BY <1>1, <2>3, SendOrder DEF Life, Messages
    <3> QED
      BY <2>1, <3>1, OtherLife
  <2> QED
    BY <2>1, <2>2, <2>3
<1>6. CASE MsgTaskStep
  <2>1. ASSUME NEW d \in Delegates, HandlePush(d) PROVE Life' /\ RunningIsTracked'
    BY <2>1, HandlePushLife
  <2>2. ASSUME NEW d \in Delegates, HandleRemove(d) PROVE Life' /\ RunningIsTracked'
    BY <2>2, HandleRemoveLife
  <2>3. CASE HandleExpire
    <3>1. Receive(Expire) /\ mTimer' = mTimer /\ deleted' = deleted /\ mt.pc # "stop"
      BY <2>3 DEF HandleExpire, Receive, Idle
    <3>2. /\ Ordered' /\ \A x : Queued(x)' => Queued(x)
          /\ \A x : x # Expire /\ Queued(x) => Queued(x)'
      BY <1>1, <3>1, ReceiveOrder DEF Life
    <3>3. \A d : Queued(Push(d)) => Queued(Push(d))'
      BY <3>2, MessageNames
    <3>4. CASE pop(now)
      BY <3>1, <3>2, <3>3, <3>4, PopLife
    <3>5. CASE heap' = heap
      BY <3>1, <3>2, <3>3, <3>5, OtherLife
    <3> QED
      BY <2>3, <3>4, <3>5 DEF HandleExpire
  <2>4. CASE SetTime \/ EndExpire
    <3>1. UNCHANGED <<mTimer, queue, heap, deleted>> /\ mt.pc # "stop"
      BY <2>4 DEF SetTime, EndExpire, heapVars
    <3>2. Ordered' /\ \A x : Queued(x)' <=> Queued(x)
      BY <3>1 DEF Life, Ordered, Queued
    <3> QED
      BY <3>1, <3>2, OtherLife
  <2>5. CASE StopAndCallBack
    <3>1. mt.pc = "stop" /\ mt.client \in Timers /\ heap' = heap /\ deleted' = deleted
      BY <2>5, BusyFacts DEF StopAndCallBack, heapVars
    <3>2. CASE stop(mt.client)
      <4>1. /\ Life' /\ mTimer'[mt.client] = NoDelegate
            /\ \A u \in Timers \ {mt.client} : mTimer'[u] = mTimer[u]
            /\ \A x : Queued(x) => Queued(x)'
        BY <3>1, <3>2, StopLife
      <4> QED
        BY <3>1, <4>1 DEF RunningIsTracked, Running
    <3>3. CASE ~Running(mt.client) /\ UNCHANGED <<mTimer, queue>>
      <4>1. Ordered' /\ \A x : Queued(x)' <=> Queued(x)
        BY <3>3 DEF Life, Ordered, Queued
      <4>2. Unreachable' /\ OneOwner' /\ PushedOnce'
        BY <3>1, <3>3, <4>1 DEF Life, Unreachable, OneOwner, PushedOnce, Running
      <4>3. RunningIsTracked'
        BY <3>1, <3>3, <4>1 DEF RunningIsTracked, Running
      <4> QED
        BY <4>1, <4>2, <4>3 DEF Life
    <3> QED
      BY <2>5, <3>2, <3>3 DEF StopAndCallBack
  <2>6. CASE PopNext
    <3>1. UNCHANGED <<mTimer, queue, deleted>> /\ mt.pc # "stop" /\ pop(mt.now)
      BY <2>6 DEF PopNext
    <3>2. Ordered' /\ \A x : Queued(x)' <=> Queued(x)
      BY <3>1 DEF Life, Ordered, Queued
    <3> QED
      BY <3>1, <3>2, PopLife
  <2> QED
    BY <1>6, <2>1, <2>2, <2>3, <2>4, <2>5, <2>6, Zenon DEF MsgTaskStep
<1> QED
  BY <1>2, <1>3, <1>4, <1>5, <1>6, Zenon DEF Next

\* At first there is no delegate.
LEMMA LifeInit ==
  ASSUME Init
  PROVE  Life /\ RunningIsTracked
<1>1. queue = <<>> /\ heap = {} /\ deleted = {} /\ \A t \in Timers : mTimer[t] = NoDelegate
  BY DEF Init
<1>2. Ordered
  BY <1>1 DEF Ordered
<1> QED
  BY <1>1, <1>2 DEF Life, Unreachable, OneOwner, PushedOnce, RunningIsTracked, Running

\* In every state a delegate's life is in order.
THEOREM LifeInvariance == Spec => [](Life /\ RunningIsTracked)
<1>1. IInv /\ Life /\ RunningIsTracked /\ [Next]_vars => (Life /\ RunningIsTracked)'
  BY LifeStep DEF IInv
<1> QED
  BY <1>1, LifeInit, Invariance, PTL DEF Spec

\* A delegate is deleted once, when nothing can reach it any more: no timer, no
\* message and not the heap, for any number of timers and delegates.
THEOREM DeletedIsAlwaysUnreachable == Spec => []DeletedIsUnreachable
<1>1. Life => DeletedIsUnreachable
  BY DEF Life, Ordered, Unreachable, DeletedIsUnreachable
<1> QED
  BY <1>1, LifeInvariance, PTL

\* A running timer is never lost between its client, MsgTask and the expiry.
THEOREM RunningIsAlwaysTracked == Spec => []RunningIsTracked
BY LifeInvariance, PTL
=============================================================================
