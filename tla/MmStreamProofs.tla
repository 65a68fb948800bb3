--------------------------- MODULE MmStreamProofs ---------------------------
(***************************************************************************)
(* Proofs about MmStream for any number of buffers, uses of a stream and   *)
(* failures: the reference counts are right, the device is polled while    *)
(* buffers are queued, a stop finds the poll thread out of the stream, and *)
(* every step of the stream is one of BufferLoan or leaves it alone.       *)
(***************************************************************************)
EXTENDS MmStream, TLAPS, FiniteSetTheorems

Users == {"channel", "linked", "client"}

Types ==
  /\ config \in Configs /\ state \in States
  /\ call \in {"none", "mapping", "abort", "off", "join"}
  /\ refcnt \in [Buffers -> Nat] /\ queued_buffer_count \in Int
  /\ driver \in [Buffers -> {"out", "queued", "filled"}]
  /\ pipe \subseteq {"async", "sync"}
  /\ poller \in [pc : {"idle", "read", "counted", "notified", "shared"}, buf : Buffers]
  /\ app \in [pc : {"gone", "idle", "taken", "called"}, buf : Buffers]
  /\ queue \in Seq(Buffers)
  /\ holds \in [Buffers -> SUBSET Users]
  /\ requeue \subseteq Buffers /\ lost \subseteq Buffers

\* Where a buffer can be besides with its users
AtDriver(b) == driver[b] # "out"
InPoll(b) == poller.pc # "idle" /\ poller.buf = b
InApp(b) == app.pc \in {"taken", "called"} /\ app.buf = b
Occurs(q, b) == \E i \in 1 .. Len(q) : q[i] = b
Nobody(b) == holds[b] = {} /\ ~InPoll(b) /\ ~InApp(b) /\ ~Occurs(queue, b)

Live == state \in {"REG", "ACTIVE"} /\ ~stopped
Fresh == state \in {"INITED", "ACQUIRED", "CFG", "BUFFED"} /\ ~stopped

\* What is true in each state of the stream
Phases ==
  /\ state # "ACTIVE" => call = "none" /\ ~streaming /\ app.pc = "gone" /\ queue = <<>>
  /\ state = "ACTIVE" => ~stopped /\ (config.cb => app.pc # "gone") /\ (streaming <=> call \in {"none", "off"})
  /\ state \in {"INITED", "ACQUIRED", "CFG"} => ~stopped
  /\ Fresh => driver = AllOut /\ holds = NoHolds /\ poller.pc = "idle" /\ requeue = {} /\ lost = {}
  /\ (Live /\ state = "REG") \/ call \in {"mapping", "abort"} => poller.pc = "idle"
  /\ \A b \in Buffers : driver[b] = "filled" => streaming

\* A buffer is in one place
Places ==
  \A b \in Buffers :
    /\ AtDriver(b) \/ b \in requeue \/ b \in lost => Nobody(b)
    /\ b \in requeue \cup lost => ~AtDriver(b)
    /\ b \notin requeue \cap lost

Distinct(q) == \A i, j \in 1 .. Len(q) : q[i] = q[j] => i = j

\* Each user gets the buffer once, and in the order of the hand-over
HandOver ==
  /\ poller.pc # "idle" => ~InApp(poller.buf) /\ ~Occurs(queue, poller.buf)
  /\ poller.pc \in {"read", "counted"} => holds[poller.buf] = {}
  /\ poller.pc = "notified" => "linked" \notin holds[poller.buf]
  /\ poller.pc \in {"notified", "shared"} => config.cb /\ "client" \notin holds[poller.buf]
  /\ Distinct(queue)
  /\ \A b \in Buffers : Occurs(queue, b) => "client" \notin holds[b] /\ ~InApp(b)
  /\ app.pc = "taken" => "client" \notin holds[app.buf]

Counted == Live => \A b \in Buffers : refcnt[b] = References(b)

Queued == {b \in Buffers : driver[b] # "out"} \cup requeue

\* Polled is what has been counted
Polling ==
  /\ entry \in BOOLEAN /\ (polled # entry => pipe # {})
  /\ Live /\ call # "join" => queued_buffer_count = Cardinality(Queued)
  /\ Live /\ call \in {"none", "mapping"} /\ queued_buffer_count > 0 => entry
  /\ call \in {"off", "join"} /\ ~starved /\ lost = {} =>
       /\ ~entry /\ queued_buffer_count > 0
       /\ poller.pc = "idle" \/ (call = "off" /\ "sync" \in pipe)
  /\ state \in {"REG", "BUFFED"} /\ ~starved /\ lost = {} => poller.pc = "idle"

IInv == Types /\ Phases /\ Places /\ HandOver /\ Counted /\ Polling

-----------------------------------------------------------------------------
(* Sequences and counting.                                                 *)

\* A buffer that occurs in a queue without repetition occurs there once.
LEMMA CountOccurs ==
  ASSUME NEW q \in Seq(Buffers), Distinct(q), NEW b
  PROVE  Cardinality({i \in 1 .. Len(q) : q[i] = b}) = IF Occurs(q, b) THEN 1 ELSE 0
<1>1. CASE Occurs(q, b)
  <2>1. PICK i \in 1 .. Len(q) : q[i] = b
    BY <1>1 DEF Occurs
  <2>2. {j \in 1 .. Len(q) : q[j] = b} = {i}
    BY <2>1 DEF Distinct
  <2> QED
    BY <1>1, <2>2, FS_Singleton
<1>2. CASE ~Occurs(q, b)
  <2>1. {j \in 1 .. Len(q) : q[j] = b} = {}
    BY <1>2 DEF Occurs
  <2> QED
    BY <1>2, <2>1, FS_EmptySet
<1> QED
  BY <1>1, <1>2

\* What appending to a queue does to those that occur in it.
LEMMA AppendOccurs ==
  ASSUME NEW q \in Seq(Buffers), NEW c \in Buffers
  PROVE  /\ Append(q, c) \in Seq(Buffers)
         /\ \A b : Occurs(Append(q, c), b) <=> Occurs(q, b) \/ b = c
         /\ Distinct(q) /\ ~Occurs(q, c) => Distinct(Append(q, c))
<1>1. /\ Append(q, c) \in Seq(Buffers) /\ Len(q) \in Nat /\ Len(Append(q, c)) = Len(q) + 1
      /\ \A i \in 1 .. Len(q) : Append(q, c)[i] = q[i]
      /\ Append(q, c)[Len(q) + 1] = c
  OBVIOUS
<1> HIDE DEF Buffers
<1> DEFINE r == Append(q, c)
<1>2. \A i \in 1 .. Len(r) : i \in 1 .. Len(q) \/ i = Len(q) + 1
  BY <1>1
<1>3. \A i \in 1 .. Len(q) : i \in 1 .. Len(r)
  BY <1>1
<1>4. Len(q) + 1 \in 1 .. Len(r)
  BY <1>1
<1> HIDE DEF r
<1>5. \A b : Occurs(r, b) <=> Occurs(q, b) \/ b = c
  BY <1>1, <1>2, <1>3, <1>4 DEF r, Occurs
<1>6. ASSUME Distinct(q), ~Occurs(q, c)
      PROVE  Distinct(r)
  BY <1>1, <1>2, <1>6 DEF r, Distinct, Occurs
<1> QED
  BY <1>1, <1>5, <1>6 DEF r

\* What taking the first of a queue does to those that occur in it.
LEMMA TailOccurs ==
  ASSUME NEW q \in Seq(Buffers), q # <<>>, Distinct(q)
  PROVE  /\ Head(q) \in Buffers /\ Tail(q) \in Seq(Buffers) /\ Distinct(Tail(q))
         /\ Occurs(q, Head(q)) /\ ~Occurs(Tail(q), Head(q))
         /\ \A b : b # Head(q) => (Occurs(Tail(q), b) <=> Occurs(q, b))
<1>1. /\ Tail(q) \in Seq(Buffers) /\ Len(q) \in Nat /\ Len(q) > 0 /\ Len(Tail(q)) = Len(q) - 1
      /\ \A i \in 1 .. Len(q) - 1 : Tail(q)[i] = q[i + 1]
      /\ Head(q) = q[1] /\ Head(q) \in Buffers
  OBVIOUS
<1> DEFINE r == Tail(q)
<1>2. \A i \in 1 .. Len(r) : i + 1 \in 1 .. Len(q) /\ i + 1 # 1 /\ r[i] = q[i + 1]
  BY <1>1
<1>3. \A i \in 1 .. Len(q) : i = 1 \/ (i - 1 \in 1 .. Len(r) /\ r[i - 1] = q[i])
  BY <1>1
<1>4. 1 \in 1 .. Len(q)
  BY <1>1
<1> HIDE DEF r
<1>5. Distinct(r)
  <2> SUFFICES ASSUME NEW i \in 1 .. Len(r), NEW j \in 1 .. Len(r), r[i] = r[j]
               PROVE  i = j
    BY DEF Distinct
  <2>1. i + 1 = j + 1
    BY <1>2 DEF Distinct
  <2> QED
    BY <2>1
<1>6. Occurs(q, Head(q)) /\ ~Occurs(r, Head(q))
  BY <1>1, <1>2, <1>4 DEF Occurs, Distinct
<1>7. ASSUME NEW b, b # Head(q)
      PROVE  Occurs(r, b) <=> Occurs(q, b)
  BY <1>1, <1>2, <1>3, <1>7 DEF Occurs
<1> QED
  BY <1>1, <1>5, <1>6, <1>7 DEF r

\* Users that come and go are counted one by one.
LEMMA CountUsersOf ==
  ASSUME NEW h \in SUBSET Users
  PROVE  /\ Cardinality(h) \in Nat
         /\ Cardinality(h) = 0 <=> h = {}
         /\ \A u \in Users \ h : Cardinality(h \cup {u}) = Cardinality(h) + 1
         /\ \A u \in h : Cardinality(h \ {u}) = Cardinality(h) - 1
<1>1. IsFiniteSet({"channel", "linked", "client"})
  <2>1. IsFiniteSet({})
    BY FS_EmptySet
  <2>2. IsFiniteSet({} \cup {"channel"})
    BY <2>1, FS_AddElement
  <2>3. IsFiniteSet(({} \cup {"channel"}) \cup {"linked"})
    BY <2>2, FS_AddElement
  <2>4. IsFiniteSet((({} \cup {"channel"}) \cup {"linked"}) \cup {"client"})
    BY <2>3, FS_AddElement
  <2>5. ((({} \cup {"channel"}) \cup {"linked"}) \cup {"client"}) = {"channel", "linked", "client"}
    OBVIOUS
  <2> QED
    BY <2>4, <2>5
<1>2. IsFiniteSet(h)
  BY <1>1, FS_Subset DEF Users
<1> QED
  BY <1>2, FS_CardinalityType, FS_EmptySet, FS_AddElement, FS_RemoveElement

-----------------------------------------------------------------------------
(* Types.                                                                  *)

\* There is a first buffer, the buffers are finitely many, and a thread without a
\* buffer is of its type.
LEMMA BufferSet ==
  /\ 0 \in Buffers /\ IsFiniteSet(Buffers)
  /\ Away \in [pc : {"idle", "read", "counted", "notified", "shared"}, buf : Buffers]
  /\ Away \in [pc : {"gone", "idle", "taken", "called"}, buf : Buffers]
  /\ [Away EXCEPT !.pc = "gone"] \in [pc : {"gone", "idle", "taken", "called"}, buf : Buffers]
<1>1. 0 \in Buffers /\ IsFiniteSet(Buffers)
  BY ConstantsAssumption, FS_Interval DEF ConstantsAssumption, Buffers
<1> HIDE DEF Buffers
<1> QED
  BY <1>1 DEF Away

\* What the calls that count buffers in and out leave of the types.
LEMMA CountTypes ==
  ASSUME Types, CountOut \/ CountIn
  PROVE  queued_buffer_count' \in Int /\ pipe' \subseteq {"async", "sync"}
<1>1. queued_buffer_count' \in Int
  BY DEF Types, CountOut, CountIn
<1>2. pipe' = pipe \/ pipe' = pipe \cup {"async"}
  BY DEF CountOut, CountIn, DelPollAsync, AddPollAsync, polling
<1> QED
  BY <1>1, <1>2 DEF Types

\* Giving a buffer back keeps the types.
LEMMA BufDoneTypes ==
  ASSUME Types, NEW b \in Buffers, BufDone(b)
  PROVE  /\ refcnt' \in [Buffers -> Nat] /\ queued_buffer_count' \in Int
         /\ pipe' \subseteq {"async", "sync"} /\ requeue' \subseteq Buffers
<1>1. refcnt' \in [Buffers -> Nat]
  BY DEF Types, BufDone
<1>2. CASE refcnt[b] = 1
  BY <1>1, <1>2, CountTypes DEF Types, BufDone
<1>3. CASE refcnt[b] # 1
  BY <1>1, <1>3 DEF Types, BufDone, polling
<1> QED
  BY <1>2, <1>3

\* Every step keeps the types.
LEMMA TypesStep ==
  ASSUME Types, [Next]_vars
  PROVE  Types'
<1> USE DEF Types, caller, mapping, polling, threads, counts, kernel, returns
<1>1. CASE Acquire
  BY <1>1 DEF Acquire, States
<1>2. CASE SetFmt
  BY <1>2 DEF SetFmt, States
<1>3. CASE Release
  BY <1>3 DEF Release, States
<1>4. CASE GetBuf
  BY <1>4 DEF GetBuf, States
<1>5. CASE RegBuf
  <2>1. state' \in States /\ pipe' \subseteq {"async", "sync"}
    BY <1>5 DEF RegBuf, RegBufs, States, AddPollAsync, DelPollAsync
  <2>2. queued_buffer_count' \in Int
    <3>1. PICK kept \in SUBSET Buffers, n \in 0 .. NumBufs :
            queued_buffer_count' = Cardinality((0 .. n - 1) \ kept)
      BY <1>5 DEF RegBuf, RegBufs
    <3>2. (0 .. n - 1) \ kept \subseteq Buffers
      BY ConstantsAssumption DEF ConstantsAssumption, Buffers
    <3> QED
      BY <3>1, <3>2, BufferSet, FS_Subset, FS_CardinalityType
  <2>3. refcnt' \in [Buffers -> Nat]
    BY <1>5 DEF RegBuf, RegBufs
  <2>4. driver' \in [Buffers -> {"out", "queued", "filled"}]
    <3>1. PICK A : driver' = [b \in Buffers |-> IF b \in A THEN "queued" ELSE "out"]
      BY <1>5 DEF RegBuf, RegBufs
    <3> QED
      BY <3>1
  <2>5. holds' \in [Buffers -> SUBSET Users]
    <3>1. PICK A : holds' = [b \in Buffers |-> IF b \in A THEN {"client"} ELSE {}]
      BY <1>5 DEF RegBuf, RegBufs
    <3> QED
      BY <3>1 DEF Users
  <2>6. lost' \subseteq Buffers
    <3>1. PICK n : lost' = {b \in Buffers : b >= n}
      BY <1>5 DEF RegBuf, RegBufs
    <3> QED
      BY <3>1
  <2> QED
    BY <1>5, <2>1, <2>2, <2>3, <2>4, <2>5, <2>6 DEF RegBuf
<1>6. CASE Start
  <2>1. app' \in [pc : {"gone", "idle", "taken", "called"}, buf : Buffers]
    BY <1>6, BufferSet DEF Start
  <2>2. state' \in States /\ pipe' \subseteq {"async", "sync"} /\ call' \in {"none", "mapping", "abort", "off", "join"}
    BY <1>6 DEF Start, States, StreamOn, Abort, DelPollSync
  <2> QED
    BY <1>6, <2>1, <2>2 DEF Start
<1>7. CASE Stop
  BY <1>7 DEF Stop, DelPollSync
<1>8. CASE UnregBuf
  BY <1>8 DEF UnregBuf, AllOut, NoHolds, States
<1>9. CASE PutBuf
  BY <1>9 DEF PutBuf, AllOut, NoHolds, States
<1>10. CASE ProcPipe
  BY <1>10 DEF ProcPipe
<1>11. CASE CountUsers
  <2>1. poller' \in [pc : {"idle", "read", "counted", "notified", "shared"}, buf : Buffers]
    BY <1>11 DEF CountUsers
  <2>2. Sharers(config) \in Nat
    BY DEF Sharers
  <2>3. refcnt' \in [Buffers -> Nat]
    BY <1>11, <2>2 DEF CountUsers
  <2> QED
    BY <1>11, <2>1, <2>3 DEF CountUsers
<1>12. CASE NotifyChannel
  <2>1. poller' \in [pc : {"idle", "read", "counted", "notified", "shared"}, buf : Buffers]
    BY <1>12, BufferSet DEF NotifyChannel, Onward
  <2>2. holds' \in [Buffers -> SUBSET Users]
    BY <1>12 DEF NotifyChannel, Users
  <2> QED
    BY <1>12, <2>1, <2>2 DEF NotifyChannel
<1>13. CASE NotifyLinked
  <2>1. poller' \in [pc : {"idle", "read", "counted", "notified", "shared"}, buf : Buffers]
    BY <1>13, BufferSet DEF NotifyLinked, Onward
  <2>2. holds' \in [Buffers -> SUBSET Users]
    <3>1. holds' = holds \/ holds' = [holds EXCEPT ![poller.buf] = @ \cup {"linked"}]
      BY <1>13 DEF NotifyLinked
    <3> QED
      BY <3>1 DEF Users
  <2>3. refcnt' \in [Buffers -> Nat]
    BY <1>13 DEF NotifyLinked
  <2> QED
    BY <1>13, <2>1, <2>2, <2>3 DEF NotifyLinked
<1>14. CASE EnqueueAppData
  <2>1. poller' \in [pc : {"idle", "read", "counted", "notified", "shared"}, buf : Buffers]
    BY <1>14, BufferSet DEF EnqueueAppData
  <2>2. queue' \in Seq(Buffers)
    BY <1>14, AppendOccurs DEF EnqueueAppData
  <2> QED
    BY <1>14, <2>1, <2>2 DEF EnqueueAppData
<1>15. CASE TakeAppData
  BY <1>15 DEF TakeAppData
<1>16. CASE DispatchAppData
  <2>1. app' \in [pc : {"gone", "idle", "taken", "called"}, buf : Buffers]
    BY <1>16 DEF DispatchAppData
  <2>2. holds' \in [Buffers -> SUBSET Users]
    BY <1>16 DEF DispatchAppData, Users
  <2>3. refcnt' \in [Buffers -> Nat]
    BY <1>16 DEF DispatchAppData
  <2> QED
    BY <1>16, <2>1, <2>2, <2>3 DEF DispatchAppData
<1>17. CASE EndAppData
  BY <1>17, BufDoneTypes, BufferSet DEF EndAppData
<1>18. CASE EndMapping
  BY <1>18 DEF EndMapping, StreamOn, Abort, DelPollSync, Fails
<1>19. CASE EndAbort
  BY <1>19, BufferSet DEF EndAbort, States
<1>20. CASE StreamOff
  BY <1>20 DEF StreamOff, AllOut
<1>21. CASE JoinAppThread
  BY <1>21, BufferSet DEF JoinAppThread, States
<1>22. ASSUME NEW b \in Buffers, ReadFrame(b)
      PROVE  Types'
  <2>1. poller' \in [pc : {"idle", "read", "counted", "notified", "shared"}, buf : Buffers]
    BY <1>22 DEF ReadFrame
  <2> QED
    BY <1>22, <2>1, CountTypes DEF ReadFrame
<1>23. ASSUME NEW b \in Buffers, FillBuffer(b)
      PROVE  Types'
  BY <1>23 DEF FillBuffer
<1>24. ASSUME NEW b \in Buffers, MapBuf(b)
      PROVE  Types'
  BY <1>24 DEF MapBuf
<1>25. ASSUME NEW b \in Buffers, QueueBuffer(b)
      PROVE  Types'
  BY <1>25, CountTypes DEF QueueBuffer
<1>26. ASSUME NEW b \in Buffers, MarkInKernel(b)
      PROVE  Types'
  BY <1>26 DEF MarkInKernel
<1>27. ASSUME NEW b \in Buffers, NEW user \in Users, QBuf(b, user)
      PROVE  Types'
  BY <1>27, BufDoneTypes DEF QBuf
<1>28. CASE UNCHANGED vars
  BY <1>28 DEF vars
<1> QED
  BY <1>1, <1>2, <1>3, <1>4, <1>5, <1>6, <1>7, <1>8, <1>9, <1>10, <1>11, <1>12, <1>13, <1>14, <1>15, <1>16, <1>17, <1>18, <1>19, <1>20, <1>21, <1>22, <1>23, <1>24, <1>25, <1>26, <1>27, <1>28 DEF Next, ThreadStep, AppStep, CallStep, Users

-----------------------------------------------------------------------------
(* The states of the stream.                                               *)

\* Every step keeps what is true in each state: threads run and the device
\* streams only while the stream is ACTIVE.
LEMMA PhasesStep ==
  ASSUME Types, Phases, [Next]_vars
  PROVE  Phases'
<1> USE DEF Phases, Fresh, Live, caller, mapping, polling, threads, counts, kernel, returns
<1>1. CASE Acquire
  BY <1>1 DEF Acquire, Idle
<1>2. CASE SetFmt
  BY <1>2 DEF SetFmt, Idle
<1>3. CASE Release
  BY <1>3 DEF Release, Idle
<1>4. CASE GetBuf
  BY <1>4 DEF GetBuf, Idle
<1>5. CASE RegBuf
  BY <1>5 DEF RegBuf, RegBufs, Idle, AddPollAsync, DelPollAsync
<1>6. CASE Start
  BY <1>6 DEF Start, Idle, StreamOn, Abort, DelPollSync, Away, Fails
<1>7. CASE Stop
  BY <1>7 DEF Stop, Idle, DelPollSync
<1>8. CASE UnregBuf
  BY <1>8 DEF UnregBuf, Idle, AllOut, NoHolds
<1>9. CASE PutBuf
  BY <1>9 DEF PutBuf, Idle, AllOut, NoHolds
<1>10. CASE ProcPipe
  BY <1>10 DEF ProcPipe
<1>11. CASE CountUsers
  BY <1>11 DEF CountUsers
<1>12. CASE NotifyChannel
  BY <1>12 DEF NotifyChannel, Onward, Away
<1>13. CASE NotifyLinked
  BY <1>13 DEF NotifyLinked, Onward, Away
<1>14. CASE EnqueueAppData
  BY <1>14 DEF EnqueueAppData, Away
<1>15. CASE TakeAppData
  BY <1>15 DEF TakeAppData
<1>16. CASE DispatchAppData
  BY <1>16 DEF DispatchAppData
<1>17. CASE EndAppData
  BY <1>17 DEF EndAppData, Away, BufDone, CountIn, AddPollAsync
<1>18. CASE EndMapping
  BY <1>18 DEF EndMapping, StreamOn, Abort, DelPollSync, Fails
<1>19. CASE EndAbort
  BY <1>19 DEF EndAbort, Away
<1>20. CASE StreamOff
  BY <1>20 DEF StreamOff, AllOut
<1>21. CASE JoinAppThread
  BY <1>21 DEF JoinAppThread, Away
<1>22. ASSUME NEW b \in Buffers, ReadFrame(b)
      PROVE  Phases'
  BY <1>22 DEF ReadFrame, CountOut, DelPollAsync
<1>23. ASSUME NEW b \in Buffers, FillBuffer(b)
      PROVE  Phases'
  BY <1>23 DEF FillBuffer
<1>24. ASSUME NEW b \in Buffers, MapBuf(b)
      PROVE  Phases'
  BY <1>24 DEF MapBuf
<1>25. ASSUME NEW b \in Buffers, QueueBuffer(b)
      PROVE  Phases'
  <2>1. ~Fresh
    BY <1>25 DEF QueueBuffer
  <2>2. \/ UNCHANGED driver
        \/ driver' = [driver EXCEPT ![b] = "queued"]
    BY <1>25 DEF QueueBuffer
  <2>3. \A c \in Buffers : driver'[c] = "filled" => driver[c] = "filled"
    BY <2>2 DEF Types
  <2> QED
    BY <1>25, <2>1, <2>3 DEF QueueBuffer
<1>26. ASSUME NEW b \in Buffers, MarkInKernel(b)
      PROVE  Phases'
  BY <1>26 DEF MarkInKernel
<1>27. ASSUME NEW b \in Buffers, NEW user \in Users, QBuf(b, user)
      PROVE  Phases'
  BY <1>27 DEF QBuf, BufDone, CountIn, AddPollAsync
<1>28. CASE UNCHANGED vars
  BY <1>28 DEF vars
<1> QED
  BY <1>1, <1>2, <1>3, <1>4, <1>5, <1>6, <1>7, <1>8, <1>9, <1>10, <1>11, <1>12, <1>13, <1>14,
     <1>15, <1>16, <1>17, <1>18, <1>19, <1>20, <1>21, <1>22, <1>23, <1>24, <1>25, <1>26,
     <1>27, <1>28
  DEF Next, ThreadStep, AppStep, CallStep, Users

-----------------------------------------------------------------------------
(* Where the buffers are.                                                  *)

\* The terms of References, written as numbers.
One(P) == IF P THEN 1 ELSE 0
Share(p, c, b) ==
  IF p.buf # b THEN 0
  ELSE IF p.pc = "counted" THEN Sharers(c) ELSE IF p.pc \in {"notified", "shared"} THEN 1 ELSE 0

\* What the terms of References add up to, now and after a step.
LEMMA ReferencesAre ==
  ASSUME Types, HandOver, NEW b \in Buffers
  PROVE  References(b) = Cardinality(holds[b]) + One(InApp(b)) + One(Occurs(queue, b))
                         + Share(poller, config, b)
<1>1. Cardinality({i \in 1 .. Len(queue) : queue[i] = b}) = IF Occurs(queue, b) THEN 1 ELSE 0
  BY CountOccurs DEF Types, HandOver
<1>2. poller.pc \in {"notified", "shared"} => config.cb
  BY DEF HandOver
<1> QED
  BY <1>1, <1>2 DEF References, InApp, One, Share

\* The references to a buffer after a step, counted by place.
LEMMA ReferencesWillBe ==
  ASSUME Types', HandOver', NEW b \in Buffers
  PROVE  References(b)' = Cardinality(holds'[b]) + One(InApp(b)') + One(Occurs(queue', b))
                          + Share(poller', config', b)
<1>1. Cardinality({i \in 1 .. Len(queue') : queue'[i] = b}) = IF Occurs(queue', b) THEN 1 ELSE 0
  BY CountOccurs DEF Types, HandOver
<1>2. poller'.pc \in {"notified", "shared"} => config'.cb
  BY DEF HandOver
<1> QED
  BY <1>1, <1>2 DEF References, InApp, One, Share

\* When one reference is left, the one who has it is the only one.
LEMMA LastReference ==
  ASSUME Types, HandOver, Counted, Live, NEW b \in Buffers, refcnt[b] = 1
  PROVE  /\ \A user \in holds[b] : holds[b] \ {user} = {} /\ ~InPoll(b) /\ ~InApp(b) /\ ~Occurs(queue, b)
         /\ InApp(b) => holds[b] = {} /\ ~InPoll(b) /\ ~Occurs(queue, b)
<1> DEFINE app_ref == One(InApp(b))
           queue_ref == One(Occurs(queue, b))
           poll_ref == Share(poller, config, b)
<1>1. Cardinality(holds[b]) + app_ref + queue_ref + poll_ref = 1
  BY ReferencesAre DEF Counted
<1>2. holds[b] \in SUBSET Users
  BY DEF Types
<1>3. app_ref \in {0, 1} /\ queue_ref \in {0, 1} /\ poll_ref \in Nat
  BY DEF Sharers, One, Share
<1>4. (InApp(b) <=> app_ref = 1) /\ (Occurs(queue, b) <=> queue_ref = 1)
  BY DEF One
<1>5. InPoll(b) => \/ poller.pc \in {"read", "counted"} /\ holds[b] = {}
                   \/ poll_ref = 1
  BY DEF InPoll, HandOver, Types, Share
<1>6. InPoll(b) => ~InApp(b)
  BY DEF InPoll, HandOver
<1> HIDE DEF app_ref, queue_ref, poll_ref
<1>7. Cardinality(holds[b]) \in Nat /\ (Cardinality(holds[b]) = 0 <=> holds[b] = {})
  BY <1>2, CountUsersOf
<1>8. ASSUME NEW user \in holds[b]
      PROVE  holds[b] \ {user} = {} /\ ~InPoll(b) /\ ~InApp(b) /\ ~Occurs(queue, b)
  <2>1. holds[b] # {} /\ holds[b] \ {user} \in SUBSET Users
    BY <1>2
  <2>2. Cardinality(holds[b] \ {user}) = Cardinality(holds[b]) - 1
    BY <1>2, CountUsersOf
  <2>3. Cardinality(holds[b]) = 1 /\ app_ref = 0 /\ queue_ref = 0 /\ poll_ref = 0
    BY <1>1, <1>3, <1>7, <2>1
  <2>4. Cardinality(holds[b] \ {user}) = 0
    BY <2>2, <2>3
  <2>5. holds[b] \ {user} = {}
    BY <2>1, <2>4, CountUsersOf
  <2> QED
    BY <1>4, <1>5, <2>1, <2>3, <2>5
<1>9. ASSUME InApp(b)
      PROVE  holds[b] = {} /\ ~InPoll(b) /\ ~Occurs(queue, b)
  <2>1. app_ref = 1
    BY <1>4, <1>9
  <2>2. Cardinality(holds[b]) = 0 /\ queue_ref = 0
    BY <1>1, <1>3, <1>7, <2>1
  <2> QED
    BY <1>4, <1>6, <1>7, <1>9, <2>2
<1> QED
  BY <1>8, <1>9

\* Every step keeps each buffer in one place: with the driver, to be queued,
\* lost, or with its users.  The last user to return one leaves nobody behind.
LEMMA PlacesStep ==
  ASSUME Types, Phases, Places, HandOver, Counted, [Next]_vars
  PROVE  Places'
<1> USE DEF Places, Nobody, AtDriver, InPoll, InApp, caller, mapping, polling, threads, counts, kernel, returns
<1>1. CASE Acquire
  BY <1>1 DEF Acquire
<1>2. CASE SetFmt
  BY <1>2 DEF SetFmt
<1>3. CASE Release
  BY <1>3 DEF Release
<1>4. CASE GetBuf
  BY <1>4 DEF GetBuf
<1>5. CASE RegBuf
  <2>1. poller.pc = "idle" /\ app.pc = "gone" /\ queue = <<>> /\ requeue = {} /\ UNCHANGED <<poller, app, queue, requeue>>
    BY <1>5 DEF RegBuf, Phases, Fresh
  <2>2. \A b : ~Occurs(queue, b)
    BY <2>1 DEF Occurs
  <2>3. ASSUME NEW b \in Buffers
        PROVE  (AtDriver(b)' => holds'[b] = {}) /\ (b \in lost' => holds'[b] = {} /\ ~AtDriver(b)')
    <3>1. PICK kept \in SUBSET Buffers, n \in 0 .. NumBufs : RegBufs(kept, n)
      BY <1>5 DEF RegBuf
    <3> QED
      BY <2>3, <3>1 DEF RegBufs, Buffers
  <2> QED
    BY <2>1, <2>2, <2>3
<1>6. CASE Start
  <2>1. \A b \in Buffers : InApp(b)' => InApp(b)
    BY <1>6 DEF Start, Away
  <2> QED
    BY <1>6, <2>1 DEF Start
<1>7. CASE Stop
  BY <1>7 DEF Stop
<1>8. CASE UnregBuf
  <2>1. \A b \in Buffers : ~AtDriver(b)' /\ holds'[b] = {}
    BY <1>8 DEF UnregBuf, AllOut, NoHolds
  <2> QED
    BY <1>8, <2>1 DEF UnregBuf
<1>9. CASE PutBuf
  <2>1. \A b \in Buffers : ~AtDriver(b)' /\ holds'[b] = {}
    BY <1>9 DEF PutBuf, AllOut, NoHolds
  <2> QED
    BY <1>9, <2>1 DEF PutBuf
<1>10. CASE ProcPipe
  BY <1>10 DEF ProcPipe
<1>11. CASE CountUsers
  BY <1>11 DEF CountUsers
<1>12. CASE NotifyChannel
  <2>1. \A b \in Buffers : InPoll(b)' => InPoll(b)
    BY <1>12 DEF NotifyChannel, Onward, Away
  <2>2. \A b \in Buffers : ~InPoll(b) => holds'[b] = holds[b]
    BY <1>12 DEF NotifyChannel, Types
  <2> QED
    BY <1>12, <2>1, <2>2 DEF NotifyChannel
<1>13. CASE NotifyLinked
  <2>1. \A b \in Buffers : InPoll(b)' => InPoll(b)
    BY <1>13 DEF NotifyLinked, Onward, Away
  <2>2. \A b \in Buffers : ~InPoll(b) => holds'[b] = holds[b]
    BY <1>13 DEF NotifyLinked, Types
  <2> QED
    BY <1>13, <2>1, <2>2 DEF NotifyLinked
<1>14. CASE EnqueueAppData
  <2>1. \A b \in Buffers : Occurs(queue', b) => Occurs(queue, b) \/ InPoll(b)
    BY <1>14, AppendOccurs DEF EnqueueAppData, Types
  <2>2. \A b \in Buffers : ~InPoll(b)'
    BY <1>14 DEF EnqueueAppData, Away
  <2> QED
    BY <1>14, <2>1, <2>2 DEF EnqueueAppData
<1>15. CASE TakeAppData
  <2>1. \A b \in Buffers : Occurs(queue', b) \/ InApp(b)' => Occurs(queue, b)
    BY <1>15, TailOccurs DEF TakeAppData, Types, HandOver
  <2> QED
    BY <1>15, <2>1 DEF TakeAppData
<1>16. CASE DispatchAppData
  <2>1. \A b \in Buffers : InApp(b)' => InApp(b)
    BY <1>16 DEF DispatchAppData, Types
  <2>2. \A b \in Buffers : ~InApp(b) => holds'[b] = holds[b]
    BY <1>16 DEF DispatchAppData, Types
  <2> QED
    BY <1>16, <2>1, <2>2 DEF DispatchAppData
<1>17. CASE EndAppData
  <2>1. InApp(app.buf) /\ app.buf \in Buffers /\ Live
    BY <1>17 DEF EndAppData, Types, Phases, Live
  <2>2. app.buf \notin lost /\ ~AtDriver(app.buf)
    BY <2>1
  <2>3. requeue' \subseteq requeue \cup {app.buf} /\ \A b \in Buffers : ~InApp(b)'
    BY <1>17 DEF EndAppData, BufDone, Away
  <2>4. app.buf \in requeue' => holds[app.buf] = {} /\ ~InPoll(app.buf) /\ ~Occurs(queue, app.buf)
    BY <1>17, <2>1, LastReference DEF EndAppData, BufDone
  <2> QED
    BY <1>17, <2>2, <2>3, <2>4 DEF EndAppData
<1>18. CASE EndMapping
  BY <1>18 DEF EndMapping
<1>19. CASE EndAbort
  <2>1. \A b \in Buffers : ~InApp(b)'
    BY <1>19 DEF EndAbort, Away
  <2> QED
    BY <1>19, <2>1 DEF EndAbort
<1>20. CASE StreamOff
  <2>1. \A b \in Buffers : ~AtDriver(b)'
    BY <1>20 DEF StreamOff, AllOut
  <2> QED
    BY <1>20, <2>1 DEF StreamOff
<1>21. CASE JoinAppThread
  <2>1. \A b \in Buffers : ~InApp(b)'
    BY <1>21 DEF JoinAppThread, Away
  <2> QED
    BY <1>21, <2>1 DEF JoinAppThread
<1>22. ASSUME NEW b \in Buffers, ReadFrame(b)
      PROVE  Places'
  <2>1. AtDriver(b) /\ poller.pc = "idle" /\ b \notin lost /\ b \notin requeue
    BY <1>22 DEF ReadFrame
  <2>2. ~AtDriver(b)' /\ \A c \in Buffers : AtDriver(c)' => AtDriver(c) /\ c # b
    BY <1>22 DEF ReadFrame, Types
  <2>3. \/ poller' = [pc |-> "read", buf |-> b] /\ UNCHANGED lost
        \/ lost' = lost \cup {b} /\ UNCHANGED poller
    BY <1>22 DEF ReadFrame
  <2> QED
    BY <1>22, <2>1, <2>2, <2>3 DEF ReadFrame
<1>23. ASSUME NEW b \in Buffers, FillBuffer(b)
      PROVE  Places'
  <2>1. \A c \in Buffers : AtDriver(c)' => AtDriver(c)
    BY <1>23 DEF FillBuffer, Types
  <2> QED
    BY <1>23, <2>1 DEF FillBuffer
<1>24. ASSUME NEW b \in Buffers, MapBuf(b)
      PROVE  Places'
  BY <1>24 DEF MapBuf
<1>25. ASSUME NEW b \in Buffers, QueueBuffer(b)
      PROVE  Places'
  <2>1. b \in requeue /\ Nobody(b) /\ ~AtDriver(b) /\ b \notin lost
    BY <1>25 DEF QueueBuffer
  <2>2. \/ driver' = [driver EXCEPT ![b] = "queued"] /\ lost' = lost
        \/ lost' = lost \cup {b} /\ driver' = driver
    BY <1>25 DEF QueueBuffer
  <2>3. \A c \in Buffers : c # b => (AtDriver(c)' <=> AtDriver(c))
    BY <2>2 DEF Types
  <2> QED
    BY <1>25, <2>1, <2>2, <2>3 DEF QueueBuffer
<1>26. ASSUME NEW b \in Buffers, MarkInKernel(b)
      PROVE  Places'
  BY <1>26 DEF MarkInKernel
<1>27. ASSUME NEW b \in Buffers, NEW user \in Users, QBuf(b, user)
      PROVE  Places'
  <2>1. Live /\ user \in holds[b] /\ b \notin lost /\ ~AtDriver(b) /\ b \notin requeue
    BY <1>27 DEF QBuf, Phases, Live
  <2>2. requeue' = requeue \/ (requeue' = requeue \cup {b} /\ refcnt[b] = 1)
    BY <1>27 DEF QBuf, BufDone
  <2>3. holds'[b] = holds[b] \ {user} /\ \A c \in Buffers : c # b => holds'[c] = holds[c]
    BY <1>27 DEF QBuf, Types
  <2>4. b \in requeue' => holds'[b] = {} /\ ~InPoll(b) /\ ~InApp(b) /\ ~Occurs(queue, b)
    BY <2>1, <2>2, <2>3, LastReference
  <2> QED
    BY <1>27, <2>1, <2>2, <2>3, <2>4 DEF QBuf
<1>28. CASE UNCHANGED vars
  BY <1>28 DEF vars
<1> QED
  BY <1>1, <1>2, <1>3, <1>4, <1>5, <1>6, <1>7, <1>8, <1>9, <1>10, <1>11, <1>12, <1>13, <1>14,
     <1>15, <1>16, <1>17, <1>18, <1>19, <1>20, <1>21, <1>22, <1>23, <1>24, <1>25, <1>26,
     <1>27, <1>28
  DEF Next, ThreadStep, AppStep, CallStep, Users

-----------------------------------------------------------------------------
(* The hand-over of a frame.                                               *)

\* Every step keeps the order of the hand-over: a frame is with one thread at a
\* time, and no user gets it twice.
LEMMA HandOverStep ==
  ASSUME Types, Phases, Places, HandOver, [Next]_vars
  PROVE  HandOver'
<1> USE DEF HandOver, InApp, caller, mapping, polling, threads, counts, kernel, returns
<1>1. CASE Acquire
  BY <1>1 DEF Acquire
<1>2. CASE SetFmt
  BY <1>2 DEF SetFmt
<1>3. CASE Release
  BY <1>3 DEF Release
<1>4. CASE GetBuf
  BY <1>4 DEF GetBuf
<1>5. CASE RegBuf
  <2>1. poller.pc = "idle" /\ app.pc = "gone" /\ queue = <<>> /\ UNCHANGED <<poller, app, queue>>
    BY <1>5 DEF RegBuf, Phases, Fresh
  <2>2. \A b : ~Occurs(queue, b)
    BY <2>1 DEF Occurs
  <2> QED
    BY <2>1, <2>2
<1>6. CASE Start
  <2>1. app'.pc \in {"idle", "gone"}
    BY <1>6 DEF Start, Away, Phases
  <2> QED
    BY <1>6, <2>1 DEF Start
<1>7. CASE Stop
  BY <1>7 DEF Stop
<1>8. CASE UnregBuf
  <2>1. \A c \in Buffers : holds'[c] = {}
    BY <1>8 DEF UnregBuf, NoHolds
  <2>2. poller.buf \in Buffers /\ app.buf \in Buffers
    BY DEF Types
  <2> QED
    BY <1>8, <2>1, <2>2 DEF UnregBuf
<1>9. CASE PutBuf
  <2>1. \A c \in Buffers : holds'[c] = {}
    BY <1>9 DEF PutBuf, NoHolds
  <2>2. poller.buf \in Buffers /\ app.buf \in Buffers
    BY DEF Types
  <2> QED
    BY <1>9, <2>1, <2>2 DEF PutBuf
<1>10. CASE ProcPipe
  BY <1>10 DEF ProcPipe
<1>11. CASE CountUsers
  <2>1. poller.pc = "read" /\ poller'.pc = "counted" /\ poller'.buf = poller.buf
    BY <1>11 DEF CountUsers, Types
  <2> QED
    BY <1>11, <2>1 DEF CountUsers
<1>12. CASE NotifyChannel
  <2>1. /\ poller'.pc = "idle" \/ (poller'.pc = "notified" /\ poller'.buf = poller.buf /\ config.cb)
        /\ UNCHANGED <<config, app, queue>>
    BY <1>12, LinkedAssumption DEF NotifyChannel, Onward, Away, Types
  <2>2. \A b \in Buffers : holds'[b] \subseteq holds[b] \cup {"channel"}
    BY <1>12 DEF NotifyChannel, Types
  <2>3. holds[poller.buf] = {} /\ poller.buf \in Buffers /\ app.buf \in Buffers /\ poller.pc # "idle"
    BY <1>12 DEF NotifyChannel, Types
  <2> QED
    BY <2>1, <2>2, <2>3
<1>13. CASE NotifyLinked
  <2>1. /\ poller' = [poller EXCEPT !.pc = "shared"] /\ poller'.pc = "shared" /\ poller'.buf = poller.buf
        /\ UNCHANGED <<config, app, queue>>
    BY <1>13 DEF NotifyLinked, Onward, Types
  <2>2. \A b \in Buffers : holds'[b] \subseteq holds[b] \cup {"linked"}
    BY <1>13, ZenonT(30) DEF NotifyLinked, Types
  <2>3. poller.pc = "notified" /\ poller.buf \in Buffers /\ app.buf \in Buffers
    BY <1>13 DEF NotifyLinked, Types
  <2> QED
    BY <2>1, <2>2, <2>3
<1>14. CASE EnqueueAppData
  <2>1. poller.pc = "shared" /\ poller.buf \in Buffers /\ poller'.pc = "idle" /\ UNCHANGED <<config, app, holds>>
    BY <1>14 DEF EnqueueAppData, Away, Types
  <2>2. Distinct(queue')
    BY <1>14, <2>1, AppendOccurs DEF EnqueueAppData, Types
  <2>3. \A b \in Buffers : Occurs(queue', b) => Occurs(queue, b) \/ b = poller.buf
    BY <1>14, AppendOccurs DEF EnqueueAppData, Types
  <2> QED
    BY <2>1, <2>2, <2>3
<1>15. CASE TakeAppData
  <2>1. /\ Head(queue) \in Buffers /\ Distinct(queue') /\ Occurs(queue, Head(queue))
        /\ \A b \in Buffers : Occurs(queue', b) => Occurs(queue, b) /\ b # Head(queue)
    BY <1>15, TailOccurs DEF TakeAppData, Types
  <2>2. app'.pc = "taken" /\ app'.buf = Head(queue) /\ UNCHANGED <<config, poller, holds>>
    BY <1>15 DEF TakeAppData
  <2>3. poller.buf \in Buffers
    BY DEF Types
  <2> QED
    BY <2>1, <2>2, <2>3
<1>16. CASE DispatchAppData
  <2>1. InApp(app.buf) /\ app.buf \in Buffers /\ poller.buf \in Buffers
    BY <1>16 DEF DispatchAppData, Types
  <2>2. app'.pc = "called" /\ app'.buf = app.buf /\ UNCHANGED <<config, poller, queue>>
    BY <1>16 DEF DispatchAppData, Types
  <2>3. \A b \in Buffers : b # app.buf => holds'[b] = holds[b]
    BY <1>16 DEF DispatchAppData, Types
  <2> QED
    BY <2>1, <2>2, <2>3
<1>17. CASE EndAppData
  <2>1. app'.pc = "idle"
    BY <1>17 DEF EndAppData, Away
  <2> QED
    BY <1>17, <2>1 DEF EndAppData
<1>18. CASE EndMapping
  BY <1>18 DEF EndMapping
<1>19. CASE EndAbort
  <2>1. app'.pc = "gone"
    BY <1>19 DEF EndAbort, Away
  <2> QED
    BY <1>19, <2>1 DEF EndAbort
<1>20. CASE StreamOff
  BY <1>20 DEF StreamOff
<1>21. CASE JoinAppThread
  <2>1. app'.pc = "gone"
    BY <1>21 DEF JoinAppThread, Away
  <2> QED
    BY <1>21, <2>1 DEF JoinAppThread
<1>22. ASSUME NEW b \in Buffers, ReadFrame(b)
      PROVE  HandOver'
  <2>1. Nobody(b) /\ poller.pc = "idle"
    BY <1>22 DEF ReadFrame, Places, AtDriver
  <2>2. /\ UNCHANGED poller \/ poller' = [pc |-> "read", buf |-> b]
        /\ UNCHANGED <<config, app, queue, holds>>
    BY <1>22 DEF ReadFrame
  <2> QED
    BY <2>1, <2>2 DEF Nobody
<1>23. ASSUME NEW b \in Buffers, FillBuffer(b)
      PROVE  HandOver'
  BY <1>23 DEF FillBuffer
<1>24. ASSUME NEW b \in Buffers, MapBuf(b)
      PROVE  HandOver'
  BY <1>24 DEF MapBuf
<1>25. ASSUME NEW b \in Buffers, QueueBuffer(b)
      PROVE  HandOver'
  BY <1>25 DEF QueueBuffer
<1>26. ASSUME NEW b \in Buffers, MarkInKernel(b)
      PROVE  HandOver'
  BY <1>26 DEF MarkInKernel
<1>27. ASSUME NEW b \in Buffers, NEW user \in Users, QBuf(b, user)
      PROVE  HandOver'
  <2>1. \A c \in Buffers : holds'[c] \subseteq holds[c]
    BY <1>27 DEF QBuf, Types
  <2>2. poller.buf \in Buffers /\ app.buf \in Buffers
    BY DEF Types
  <2> QED
    BY <1>27, <2>1, <2>2 DEF QBuf
<1>28. CASE UNCHANGED vars
  BY <1>28 DEF vars
<1> QED
  BY <1>1, <1>2, <1>3, <1>4, <1>5, <1>6, <1>7, <1>8, <1>9, <1>10, <1>11, <1>12, <1>13, <1>14,
     <1>15, <1>16, <1>17, <1>18, <1>19, <1>20, <1>21, <1>22, <1>23, <1>24, <1>25, <1>26,
     <1>27, <1>28
  DEF Next, ThreadStep, AppStep, CallStep, Users

-----------------------------------------------------------------------------
(* The reference counts.                                                   *)

\* A step that adds as much to a count as to its references keeps it right.
LEMMA CountKept ==
  ASSUME Types, HandOver, Counted, Types', HandOver', Live, NEW b \in Buffers,
         NEW add \in Int, refcnt'[b] = refcnt[b] + add,
         Cardinality(holds'[b]) + One(InApp(b)') + One(Occurs(queue', b)) + Share(poller', config', b)
           = Cardinality(holds[b]) + One(InApp(b)) + One(Occurs(queue, b)) + Share(poller, config, b) + add
  PROVE  refcnt'[b] = References(b)'
<1>1. refcnt[b] = References(b) /\ refcnt[b] \in Nat
  BY DEF Counted, Types
<1> QED
  BY <1>1, ReferencesAre, ReferencesWillBe

\* The terms of References are numbers.
LEMMA TermTypes ==
  ASSUME NEW c \in Configs, NEW p, NEW b
  PROVE  /\ Sharers(c) = One(c.bundled) + One(c.cb)
         /\ Share(p, c, b) \in Nat
         /\ \A P \in BOOLEAN : One(P) \in Nat
BY DEF Sharers, One, Share

\* A step that none of the terms depends on keeps the counts.
LEMMA SameCounts ==
  ASSUME Counted, UNCHANGED <<refcnt, holds, app, queue, poller, config>>, Live' => Live
  PROVE  Counted'
BY DEF Counted, References

\* Every step keeps the reference counts of a registered stream right.
LEMMA CountedStep ==
  ASSUME Types, Phases, HandOver, Counted, Types', HandOver', [Next]_vars
  PROVE  Counted'
<1> USE DEF caller, mapping, polling, threads, counts, kernel, returns
<1>1. CASE Acquire
  BY <1>1 DEF Acquire, Counted, Live
<1>2. CASE SetFmt
  BY <1>2 DEF SetFmt, Counted, Live
<1>3. CASE Release
  BY <1>3 DEF Release, Counted, Live
<1>4. CASE GetBuf
  BY <1>4 DEF GetBuf, Counted, Live
<1>5. CASE RegBuf
  <2> SUFFICES ASSUME Live', NEW b \in Buffers
               PROVE  refcnt'[b] = References(b)'
    BY DEF Counted

  <2>1. poller.pc = "idle" /\ app.pc = "gone" /\ queue = <<>> /\ UNCHANGED <<config, poller, app, queue>>
    BY <1>5 DEF RegBuf, Phases, Fresh
  <2>2. One(InApp(b)') = 0 /\ One(Occurs(queue', b)) = 0 /\ Share(poller', config', b) = 0
    BY <2>1 DEF InApp, Occurs, Share, One
  <2>3. PICK kept \in SUBSET Buffers, n \in 0 .. NumBufs : RegBufs(kept, n)
    BY <1>5 DEF RegBuf
  <2>4. n = NumBufs
    BY <2>3 DEF RegBufs, Live
  <2>5. \/ refcnt'[b] = 1 /\ holds'[b] = {"client"}
        \/ refcnt'[b] = 0 /\ holds'[b] = {}
    BY <2>3, <2>4, ConstantsAssumption DEF RegBufs, Buffers, ConstantsAssumption
  <2>6. Cardinality(holds'[b]) = refcnt'[b]
    BY <2>5, FS_EmptySet, FS_Singleton
  <2>7. refcnt'[b] \in Nat
    BY DEF Types
  <2> QED
    BY <2>2, <2>6, <2>7, ReferencesWillBe
<1>6. CASE Start
  <2> SUFFICES ASSUME Live', NEW b \in Buffers
               PROVE  refcnt'[b] = References(b)'
    BY DEF Counted

  <2>1. Live /\ UNCHANGED <<config, refcnt, holds, poller, queue>> /\ app.pc = "gone" /\ app'.pc \in {"idle", "gone"}
    BY <1>6 DEF Start, Live, Phases, Away
  <2>2. ~InApp(b) /\ ~InApp(b)'
    BY <2>1 DEF InApp
  <2>3. refcnt[b] \in Nat /\ Cardinality(holds[b]) \in Nat /\ config \in Configs
    BY CountUsersOf DEF Types
  <2> QED
    BY <2>1, <2>2, <2>3, ReferencesAre, ReferencesWillBe DEF Counted, One
<1>7. CASE Stop
  <2>1. UNCHANGED <<refcnt, holds, app, queue, poller, config>> /\ (Live' => Live)
    BY <1>7 DEF Stop, DelPollSync, Live, Idle
  <2> QED
    BY <2>1, SameCounts
<1>8. CASE UnregBuf
  BY <1>8 DEF UnregBuf, Counted, Live
<1>9. CASE PutBuf
  BY <1>9 DEF PutBuf, Counted, Live
<1>10. CASE ProcPipe
  <2>1. UNCHANGED <<refcnt, holds, app, queue, poller, config>> /\ (Live' => Live)
    BY <1>10 DEF ProcPipe, Live, Idle
  <2> QED
    BY <2>1, SameCounts
<1>11. CASE CountUsers
  <2> SUFFICES ASSUME Live', NEW b \in Buffers
               PROVE  refcnt'[b] = References(b)'
    BY DEF Counted

  <2>a. Live /\ UNCHANGED config
    BY <1>11 DEF CountUsers, Live
  <2>b. holds[b] \in SUBSET Users /\ holds'[b] \in SUBSET Users /\ refcnt[b] \in Nat /\ config \in Configs
    BY DEF Types
  <2>c. Cardinality(holds[b]) \in Nat /\ Cardinality(holds'[b]) \in Nat
    BY <2>b, CountUsersOf
  <2>d. /\ One(InApp(b)) \in Nat /\ One(Occurs(queue, b)) \in Nat /\ Share(poller, config, b) \in Nat
        /\ One(InApp(b)') \in Nat /\ One(Occurs(queue', b)) \in Nat /\ Share(poller', config, b) \in Nat
    BY <2>b, TermTypes DEF One
  <2>1. UNCHANGED <<holds, app, queue>> /\ One(InApp(b)') = One(InApp(b))
    BY <1>11 DEF CountUsers, InApp
  <2>2. /\ refcnt'[b] = refcnt[b] + (IF poller.buf = b THEN Sharers(config) ELSE 0)
        /\ Share(poller', config, b) = Share(poller, config, b) + (IF poller.buf = b THEN Sharers(config) ELSE 0)
    BY <1>11, <2>b, <2>d DEF CountUsers, Types, Share
  <2>3. (IF poller.buf = b THEN Sharers(config) ELSE 0) \in Int
    BY DEF Sharers
  <2> QED
    BY <2>a, <2>b, <2>c, <2>d, <2>1, <2>2, <2>3, CountKept
<1>12. CASE NotifyChannel
  <2> SUFFICES ASSUME Live', NEW b \in Buffers
               PROVE  refcnt'[b] = References(b)'
    BY DEF Counted

  <2>a. Live /\ UNCHANGED config
    BY <1>12 DEF NotifyChannel, Live
  <2>b. holds[b] \in SUBSET Users /\ holds'[b] \in SUBSET Users /\ refcnt[b] \in Nat /\ config \in Configs
    BY DEF Types
  <2>c. Cardinality(holds[b]) \in Nat /\ Cardinality(holds'[b]) \in Nat
    BY <2>b, CountUsersOf
  <2>d. /\ One(InApp(b)) \in Nat /\ One(Occurs(queue, b)) \in Nat /\ Share(poller, config, b) \in Nat
        /\ One(InApp(b)') \in Nat /\ One(Occurs(queue', b)) \in Nat /\ Share(poller', config, b) \in Nat
    BY <2>b, TermTypes DEF One
  <2>1. UNCHANGED <<app, queue>> /\ One(InApp(b)') = One(InApp(b)) /\ refcnt'[b] = refcnt[b] + 0
    BY <1>12, <2>b DEF NotifyChannel, InApp
  <2>2. Cardinality(holds'[b]) + Share(poller', config, b) = Cardinality(holds[b]) + Share(poller, config, b)
    <3>1. CASE poller.buf = b
      <4>0. holds \in [Buffers -> SUBSET Users] /\ holds[poller.buf] = {}
        BY <1>12 DEF NotifyChannel, HandOver, Types
      <4>1. holds[b] = {} /\ holds'[b] = IF config.bundled THEN {"channel"} ELSE {}
        BY <1>12, <3>1, <4>0 DEF NotifyChannel
      <4>2. Cardinality(holds[b]) = 0 /\ Cardinality(holds'[b]) = One(config.bundled)
        BY <4>1, FS_EmptySet, FS_Singleton DEF One
      <4>3. Share(poller, config, b) = Sharers(config)
        BY <1>12, <3>1 DEF NotifyChannel, Share
      <4>4. Share(poller', config, b) = One(config.cb)
        BY <1>12, <3>1, <2>b, LinkedAssumption DEF NotifyChannel, Share, Onward, Away, One, Types
      <4>5. One(config.cb) \in Nat /\ One(config.bundled) \in Nat
        BY DEF One
      <4> QED
        BY <2>b, <4>2, <4>3, <4>4, <4>5, TermTypes
    <3>2. CASE poller.buf # b
      <4>1. holds'[b] = holds[b]
        BY <1>12, <3>2 DEF NotifyChannel, Types
      <4>2. Share(poller, config, b) = 0 /\ Share(poller', config, b) = 0
        BY <1>12, <3>2 DEF NotifyChannel, Share, Onward, Away, Types
      <4> QED
        BY <4>1, <4>2
    <3> QED
      BY <3>1, <3>2
  <2> QED
    BY <2>a, <2>b, <2>c, <2>d, <2>1, <2>2, CountKept
<1>13. CASE NotifyLinked
  <2> SUFFICES ASSUME Live', NEW b \in Buffers
               PROVE  refcnt'[b] = References(b)'
    BY DEF Counted

  <2>a. Live /\ UNCHANGED config
    BY <1>13 DEF NotifyLinked, Live
  <2>b. holds[b] \in SUBSET Users /\ holds'[b] \in SUBSET Users /\ refcnt[b] \in Nat /\ config \in Configs
    BY DEF Types
  <2>c. Cardinality(holds[b]) \in Nat /\ Cardinality(holds'[b]) \in Nat
    BY <2>b, CountUsersOf
  <2>d. /\ One(InApp(b)) \in Nat /\ One(Occurs(queue, b)) \in Nat /\ Share(poller, config, b) \in Nat
        /\ One(InApp(b)') \in Nat /\ One(Occurs(queue', b)) \in Nat /\ Share(poller', config, b) \in Nat
    BY <2>b, TermTypes DEF One
  <2>1. UNCHANGED <<app, queue>> /\ One(InApp(b)') = One(InApp(b))
    BY <1>13 DEF NotifyLinked, InApp
  <2>2. Share(poller', config, b) = Share(poller, config, b)
    BY <1>13 DEF NotifyLinked, Share, Onward, HandOver, Types
  <2>3. PICK add \in Int : refcnt'[b] = refcnt[b] + add /\ Cardinality(holds'[b]) = Cardinality(holds[b]) + add
    <3>1. CASE config.linked /\ poller.buf = b
      <4>1. refcnt'[b] = refcnt[b] + 1 /\ holds'[b] = holds[b] \cup {"linked"} /\ "linked" \in Users \ holds[b]
        BY <1>13, <3>1 DEF NotifyLinked, HandOver, Types, Users
      <4> QED
        BY <4>1, <2>b, CountUsersOf
    <3>2. CASE ~(config.linked /\ poller.buf = b)
      <4>1. refcnt'[b] = refcnt[b] + 0 /\ holds'[b] = holds[b]
        BY <1>13, <2>b, <3>2 DEF NotifyLinked, Types
      <4> QED
        BY <4>1, <2>c
    <3> QED
      BY <3>1, <3>2
  <2> QED
    BY <2>a, <2>b, <2>c, <2>d, <2>1, <2>2, <2>3, CountKept
<1>14. CASE EnqueueAppData
  <2> SUFFICES ASSUME Live', NEW b \in Buffers
               PROVE  refcnt'[b] = References(b)'
    BY DEF Counted

  <2>a. Live /\ UNCHANGED config
    BY <1>14 DEF EnqueueAppData, Live
  <2>b. holds[b] \in SUBSET Users /\ holds'[b] \in SUBSET Users /\ refcnt[b] \in Nat /\ config \in Configs
    BY DEF Types
  <2>c. Cardinality(holds[b]) \in Nat /\ Cardinality(holds'[b]) \in Nat
    BY <2>b, CountUsersOf
  <2>d. /\ One(InApp(b)) \in Nat /\ One(Occurs(queue, b)) \in Nat /\ Share(poller, config, b) \in Nat
        /\ One(InApp(b)') \in Nat /\ One(Occurs(queue', b)) \in Nat /\ Share(poller', config, b) \in Nat
    BY <2>b, TermTypes DEF One
  <2>1. UNCHANGED <<holds, app>> /\ One(InApp(b)') = One(InApp(b)) /\ refcnt'[b] = refcnt[b] + 0
    BY <1>14, <2>b DEF EnqueueAppData, InApp
  <2>2. queue' = Append(queue, poller.buf) /\ queue \in Seq(Buffers) /\ poller.buf \in Buffers
    BY <1>14, <2>a DEF EnqueueAppData, Live, Phases, HandOver, Types
  <2>3. One(Occurs(queue', b)) + Share(poller', config, b) = One(Occurs(queue, b)) + Share(poller, config, b)
    <3>1. Share(poller', config, b) = 0
      BY <1>14 DEF EnqueueAppData, Share, Away
    <3>2. Share(poller, config, b) = IF poller.buf = b THEN 1 ELSE 0
      BY <1>14 DEF EnqueueAppData, Share
    <3>3. ~Occurs(queue, poller.buf)
      BY <1>14 DEF EnqueueAppData, HandOver
    <3>4. Occurs(queue', b) <=> Occurs(queue, b) \/ b = poller.buf
      BY <2>2, AppendOccurs
    <3> QED
      BY <3>1, <3>2, <3>3, <3>4 DEF One
  <2> QED
    BY <2>a, <2>b, <2>c, <2>d, <2>1, <2>2, <2>3, CountKept, SMTT(20)
<1>15. CASE TakeAppData
  <2> SUFFICES ASSUME Live', NEW b \in Buffers
               PROVE  refcnt'[b] = References(b)'
    BY DEF Counted

  <2>a. Live /\ UNCHANGED config
    BY <1>15 DEF TakeAppData, Live
  <2>b. holds[b] \in SUBSET Users /\ holds'[b] \in SUBSET Users /\ refcnt[b] \in Nat /\ config \in Configs
    BY DEF Types
  <2>c. Cardinality(holds[b]) \in Nat /\ Cardinality(holds'[b]) \in Nat
    BY <2>b, CountUsersOf
  <2>d. /\ One(InApp(b)) \in Nat /\ One(Occurs(queue, b)) \in Nat /\ Share(poller, config, b) \in Nat
        /\ One(InApp(b)') \in Nat /\ One(Occurs(queue', b)) \in Nat /\ Share(poller', config, b) \in Nat
    BY <2>b, TermTypes DEF One
  <2>1. UNCHANGED <<holds, poller>> /\ refcnt'[b] = refcnt[b] + 0
    BY <1>15, <2>b DEF TakeAppData
  <2>2. One(Occurs(queue', b)) + One(InApp(b)') = One(Occurs(queue, b)) + One(InApp(b))
    <3>1. queue \in Seq(Buffers) /\ queue # <<>> /\ Distinct(queue) /\ queue' = Tail(queue)
      BY <1>15 DEF TakeAppData, HandOver, Types
    <3>2. /\ Occurs(queue, Head(queue)) /\ ~Occurs(queue', Head(queue))
          /\ b # Head(queue) => (Occurs(queue', b) <=> Occurs(queue, b))
      BY <3>1, TailOccurs
    <3>3. ~InApp(b) /\ (InApp(b)' <=> b = Head(queue))
      BY <1>15 DEF TakeAppData, InApp
    <3> QED
      BY <3>2, <3>3 DEF One
  <2> QED
    BY <2>a, <2>b, <2>c, <2>d, <2>1, <2>2, CountKept
<1>16. CASE DispatchAppData
  <2> SUFFICES ASSUME Live', NEW b \in Buffers
               PROVE  refcnt'[b] = References(b)'
    BY DEF Counted

  <2>a. Live /\ UNCHANGED config
    BY <1>16 DEF DispatchAppData, Live
  <2>b. holds[b] \in SUBSET Users /\ holds'[b] \in SUBSET Users /\ refcnt[b] \in Nat /\ config \in Configs
    BY DEF Types
  <2>c. Cardinality(holds[b]) \in Nat /\ Cardinality(holds'[b]) \in Nat
    BY <2>b, CountUsersOf
  <2>d. /\ One(InApp(b)) \in Nat /\ One(Occurs(queue, b)) \in Nat /\ Share(poller, config, b) \in Nat
        /\ One(InApp(b)') \in Nat /\ One(Occurs(queue', b)) \in Nat /\ Share(poller', config, b) \in Nat
    BY <2>b, TermTypes DEF One
  <2>1. UNCHANGED <<queue, poller>> /\ One(InApp(b)') = One(InApp(b))
    BY <1>16 DEF DispatchAppData, InApp, Types
  <2>2. PICK add \in Int : refcnt'[b] = refcnt[b] + add /\ Cardinality(holds'[b]) = Cardinality(holds[b]) + add
    <3>1. CASE app.buf = b
      <4>1. refcnt'[b] = refcnt[b] + 1 /\ holds'[b] = holds[b] \cup {"client"} /\ "client" \in Users \ holds[b]
        BY <1>16, <3>1 DEF DispatchAppData, HandOver, Types, Users
      <4> QED
        BY <4>1, <2>b, CountUsersOf
    <3>2. CASE app.buf # b
      <4>1. refcnt'[b] = refcnt[b] + 0 /\ holds'[b] = holds[b]
        BY <1>16, <2>b, <3>2 DEF DispatchAppData, Types
      <4> QED
        BY <4>1, <2>c
    <3> QED
      BY <3>1, <3>2
  <2> QED
    BY <2>a, <2>b, <2>c, <2>d, <2>1, <2>2, CountKept
<1>17. CASE EndAppData
  <2> SUFFICES ASSUME Live', NEW b \in Buffers
               PROVE  refcnt'[b] = References(b)'
    BY DEF Counted

  <2>a. Live /\ UNCHANGED config
    BY <1>17 DEF EndAppData, Live
  <2>b. holds[b] \in SUBSET Users /\ holds'[b] \in SUBSET Users /\ refcnt[b] \in Nat /\ config \in Configs
    BY DEF Types
  <2>c. Cardinality(holds[b]) \in Nat /\ Cardinality(holds'[b]) \in Nat
    BY <2>b, CountUsersOf
  <2>d. /\ One(InApp(b)) \in Nat /\ One(Occurs(queue, b)) \in Nat /\ Share(poller, config, b) \in Nat
        /\ One(InApp(b)') \in Nat /\ One(Occurs(queue', b)) \in Nat /\ Share(poller', config, b) \in Nat
    BY <2>b, TermTypes DEF One
  <2>1. UNCHANGED <<holds, queue, poller>>
    BY <1>17 DEF EndAppData
  <2>2. PICK add \in Int : refcnt'[b] = refcnt[b] + add /\ One(InApp(b)') = One(InApp(b)) + add
    <3>1. CASE app.buf = b
      <4>1. refcnt'[b] = refcnt[b] - 1 /\ InApp(b) /\ ~InApp(b)'
        BY <1>17, <2>b, <3>1 DEF EndAppData, BufDone, InApp, Away, Types
      <4> QED
        BY <2>b, <4>1 DEF One
    <3>2. CASE app.buf # b
      <4>1. refcnt'[b] = refcnt[b] + 0 /\ ~InApp(b) /\ ~InApp(b)'
        BY <1>17, <2>b, <3>2 DEF EndAppData, BufDone, InApp, Away, Types
      <4> QED
        BY <4>1, <2>d DEF One
    <3> QED
      BY <3>1, <3>2
  <2> QED
    BY <2>a, <2>b, <2>c, <2>d, <2>1, <2>2, CountKept
<1>18. CASE EndMapping
  <2>1. UNCHANGED <<refcnt, holds, app, queue, poller, config>> /\ (Live' => Live)
    BY <1>18 DEF EndMapping, Live, Idle
  <2> QED
    BY <2>1, SameCounts
<1>19. CASE EndAbort
  BY <1>19 DEF EndAbort, Counted, Live
<1>20. CASE StreamOff
  <2>1. UNCHANGED <<refcnt, holds, app, queue, poller, config>> /\ (Live' => Live)
    BY <1>20 DEF StreamOff, Live, Idle
  <2> QED
    BY <2>1, SameCounts
<1>21. CASE JoinAppThread
  BY <1>21 DEF JoinAppThread, Counted, Live
<1>22. ASSUME NEW read \in Buffers, ReadFrame(read)
      PROVE  Counted'
  <2> SUFFICES ASSUME Live', NEW b \in Buffers
               PROVE  refcnt'[b] = References(b)'
    BY DEF Counted

  <2>a. Live /\ UNCHANGED config
    BY <1>22 DEF ReadFrame, Live
  <2>b. holds[b] \in SUBSET Users /\ holds'[b] \in SUBSET Users /\ refcnt[b] \in Nat /\ config \in Configs
    BY DEF Types
  <2>c. Cardinality(holds[b]) \in Nat /\ Cardinality(holds'[b]) \in Nat
    BY <2>b, CountUsersOf
  <2>d. /\ One(InApp(b)) \in Nat /\ One(Occurs(queue, b)) \in Nat /\ Share(poller, config, b) \in Nat
        /\ One(InApp(b)') \in Nat /\ One(Occurs(queue', b)) \in Nat /\ Share(poller', config, b) \in Nat
    BY <2>b, TermTypes DEF One
  <2>1. refcnt'[b] = refcnt[b] + 0 /\ UNCHANGED <<holds, app, queue>>
    BY <1>22, <2>b DEF ReadFrame
  <2>2. Share(poller', config, b) = Share(poller, config, b)
    BY <1>22 DEF ReadFrame, Share
  <2>3. One(InApp(b)') = One(InApp(b))
    BY <2>1 DEF InApp, One
  <2> QED
    BY <2>a, <2>b, <2>c, <2>d, <2>1, <2>2, <2>3, CountKept
<1>23. ASSUME NEW b \in Buffers, FillBuffer(b)
      PROVE  Counted'
  <2>1. UNCHANGED <<refcnt, holds, app, queue, poller, config>> /\ (Live' => Live)
    BY <1>23 DEF FillBuffer, Live, Idle
  <2> QED
    BY <2>1, SameCounts
<1>24. ASSUME NEW b \in Buffers, MapBuf(b)
      PROVE  Counted'
  <2>1. UNCHANGED <<refcnt, holds, app, queue, poller, config>> /\ (Live' => Live)
    BY <1>24 DEF MapBuf, Live, Idle
  <2> QED
    BY <2>1, SameCounts
<1>25. ASSUME NEW b \in Buffers, QueueBuffer(b)
      PROVE  Counted'
  <2>1. UNCHANGED <<refcnt, holds, app, queue, poller, config>> /\ (Live' => Live)
    BY <1>25 DEF QueueBuffer, Live, Idle
  <2> QED
    BY <2>1, SameCounts
<1>26. ASSUME NEW b \in Buffers, MarkInKernel(b)
      PROVE  Counted'
  <2>1. UNCHANGED <<refcnt, holds, app, queue, poller, config>> /\ (Live' => Live)
    BY <1>26 DEF MarkInKernel, Live, Idle
  <2> QED
    BY <2>1, SameCounts
<1>27. ASSUME NEW done \in Buffers, NEW user \in Users, QBuf(done, user)
      PROVE  Counted'
  <2> SUFFICES ASSUME Live', NEW b \in Buffers
               PROVE  refcnt'[b] = References(b)'
    BY DEF Counted

  <2>a. Live /\ UNCHANGED config
    BY <1>27 DEF QBuf, Live
  <2>b. holds[b] \in SUBSET Users /\ holds'[b] \in SUBSET Users /\ refcnt[b] \in Nat /\ config \in Configs
    BY DEF Types
  <2>c. Cardinality(holds[b]) \in Nat /\ Cardinality(holds'[b]) \in Nat
    BY <2>b, CountUsersOf
  <2>d. /\ One(InApp(b)) \in Nat /\ One(Occurs(queue, b)) \in Nat /\ Share(poller, config, b) \in Nat
        /\ One(InApp(b)') \in Nat /\ One(Occurs(queue', b)) \in Nat /\ Share(poller', config, b) \in Nat
    BY <2>b, TermTypes DEF One
  <2>1. UNCHANGED <<app, queue, poller>> /\ One(InApp(b)') = One(InApp(b))
    BY <1>27 DEF QBuf, InApp
  <2>2. PICK add \in Int : refcnt'[b] = refcnt[b] + add /\ Cardinality(holds'[b]) = Cardinality(holds[b]) + add
    <3>1. CASE done = b
      <4>1. refcnt'[b] = refcnt[b] + (-1) /\ holds'[b] = holds[b] \ {user} /\ user \in holds[b]
        BY <1>27, <2>b, <3>1 DEF QBuf, BufDone, Types
      <4>2. Cardinality(holds[b] \ {user}) = Cardinality(holds[b]) + (-1)
        BY <4>1, <2>b, <2>c, CountUsersOf
      <4> QED
        BY <4>1, <4>2
    <3>2. CASE done # b
      <4>1. refcnt'[b] = refcnt[b] + 0 /\ holds'[b] = holds[b]
        BY <1>27, <2>b, <3>2 DEF QBuf, BufDone, Types
      <4> QED
        BY <4>1, <2>c
    <3> QED
      BY <3>1, <3>2
  <2> QED
    BY <2>a, <2>b, <2>c, <2>d, <2>1, <2>2, CountKept
<1>28. CASE UNCHANGED vars

  <2>1. UNCHANGED <<refcnt, holds, app, queue, poller, config>> /\ (Live' => Live)
    BY <1>28 DEF vars, Live, Idle
  <2> QED
    BY <2>1, SameCounts
<1> QED
  BY <1>1, <1>2, <1>3, <1>4, <1>5, <1>6, <1>7, <1>8, <1>9, <1>10, <1>11, <1>12, <1>13, <1>14,
     <1>15, <1>16, <1>17, <1>18, <1>19, <1>20, <1>21, <1>22, <1>23, <1>24, <1>25, <1>26,
     <1>27, <1>28
  DEF Next, ThreadStep, AppStep, CallStep, Users

-----------------------------------------------------------------------------
(* The poll thread and the count of queued buffers.                        *)

\* One buffer more or less among those that are queued.
LEMMA QueuedSize ==
  ASSUME NEW q \in SUBSET Buffers
  PROVE  /\ Cardinality(q) \in Nat
         /\ \A b \in Buffers \ q : Cardinality(q \cup {b}) = Cardinality(q) + 1
         /\ \A b \in q : Cardinality(q \ {b}) = Cardinality(q) - 1
<1>1. IsFiniteSet(q)
  BY BufferSet, FS_Subset
<1> QED
  BY <1>1, FS_CardinalityType, FS_AddElement, FS_RemoveElement

\* Counting a buffer in or out leaves the entry right; the entry of a stream
\* that is being stopped does not come back.
LEMMA CountInEntry ==
  ASSUME Types, Polling, CountIn
  PROVE  /\ queued_buffer_count' = queued_buffer_count + 1
         /\ entry' \in BOOLEAN /\ (polled' # entry' => pipe' # {}) /\ pipe \subseteq pipe'
         /\ (queued_buffer_count > 0 => entry) => (queued_buffer_count' > 0 => entry')
         /\ queued_buffer_count > 0 => UNCHANGED entry
<1>1. queued_buffer_count' = queued_buffer_count + 1 /\ queued_buffer_count \in Int
  BY DEF CountIn, Types
<1>2. entry \in BOOLEAN /\ (polled # entry => pipe # {})
  BY DEF Polling
<1>3. CASE queued_buffer_count = 0
  <2>1. AddPollAsync
    BY <1>3 DEF CountIn
  <2>2. entry' = TRUE /\ pipe' = pipe \cup {"async"}
    BY <2>1 DEF AddPollAsync
  <2>3. entry' \in BOOLEAN /\ pipe' # {} /\ pipe \subseteq pipe'
    BY <2>2
  <2>4. queued_buffer_count' = 1 /\ ~(queued_buffer_count > 0)
    BY <1>1, <1>3
  <2> QED
    BY <1>1, <2>2, <2>3, <2>4
<1>4. CASE queued_buffer_count # 0
  <2>1. UNCHANGED <<entry, polled, pipe>>
    BY <1>4 DEF CountIn, polling
  <2> QED
    BY <1>1, <1>2, <1>4, <2>1
<1> QED
  BY <1>3, <1>4

\* Counting a buffer out takes the stream out of the poll entries with the last
\* one only, and tells the poll thread.
LEMMA CountOutEntry ==
  ASSUME Types, Polling, CountOut
  PROVE  /\ queued_buffer_count' = queued_buffer_count - 1
         /\ entry' \in BOOLEAN /\ (polled' # entry' => pipe' # {}) /\ pipe \subseteq pipe'
         /\ (queued_buffer_count > 0 => entry) => (queued_buffer_count' > 0 => entry')
<1>1. queued_buffer_count' = queued_buffer_count - 1 /\ queued_buffer_count \in Int
  BY DEF CountOut, Types
<1>2. entry \in BOOLEAN /\ (polled # entry => pipe # {})
  BY DEF Polling
<1>3. CASE queued_buffer_count = 1
  <2>1. DelPollAsync
    BY <1>3 DEF CountOut
  <2>2. entry' = FALSE /\ pipe' = pipe \cup {"async"}
    BY <2>1 DEF DelPollAsync
  <2>3. entry' \in BOOLEAN /\ pipe' # {} /\ pipe \subseteq pipe'
    BY <2>2
  <2>4. queued_buffer_count' = 0 /\ ~(queued_buffer_count > 1)
    BY <1>1, <1>3
  <2> QED
    BY <1>1, <2>2, <2>3, <2>4
<1>4. CASE queued_buffer_count # 1
  <2>1. UNCHANGED <<entry, polled, pipe>>
    BY <1>4 DEF CountOut, polling
  <2> QED
    BY <1>1, <1>2, <1>4, <2>1
<1> QED
  BY <1>3, <1>4

\* A user who has a buffer finds it neither with the driver nor to be queued.
LEMMA DoneIsOut ==
  ASSUME Types, Polling, NEW b \in Buffers, b \notin Queued, BufDone(b), UNCHANGED driver
  PROVE  /\ queued_buffer_count = Cardinality(Queued) => queued_buffer_count' = Cardinality(Queued')
         /\ entry' \in BOOLEAN /\ (polled' # entry' => pipe' # {}) /\ pipe \subseteq pipe'
         /\ (queued_buffer_count > 0 => entry) => (queued_buffer_count' > 0 => entry')
         /\ queued_buffer_count > 0 => UNCHANGED entry /\ queued_buffer_count' > 0
<1>1. CASE refcnt[b] = 1
  <2>1. CountIn /\ requeue' = requeue \cup {b}
    BY <1>1 DEF BufDone
  <2>2. Queued' = Queued \cup {b}
    BY <2>1 DEF Queued
  <2>3. Queued \in SUBSET Buffers
    BY DEF Queued, Types
  <2>4. Cardinality(Queued') = Cardinality(Queued) + 1
    BY <2>2, <2>3, QueuedSize
  <2>5. queued_buffer_count \in Int
    BY DEF Types
  <2> QED
    BY <2>1, <2>4, <2>5, CountInEntry
<1>2. CASE refcnt[b] # 1
  <2>1. UNCHANGED <<requeue, driver, queued_buffer_count, entry, polled, pipe>>
    BY <1>2 DEF BufDone, polling
  <2>2. Queued' = Queued
    BY <2>1 DEF Queued
  <2> QED
    BY <2>1, <2>2 DEF Polling
<1> QED
  BY <1>1, <1>2

\* Every step keeps what is polled in accord with what has been counted.
LEMMA PollingStep ==
  ASSUME Types, Phases, Places, Polling, [Next]_vars
  PROVE  Polling'
<1> USE DEF Polling, Live, caller, mapping, polling, threads, counts, kernel, returns
<1>1. CASE Acquire
  <2>1. UNCHANGED <<entry, polled, pipe, Queued, queued_buffer_count>>
    BY <1>1 DEF Acquire, Queued
  <2> QED
    BY <1>1, <2>1 DEF Acquire, Idle
<1>2. CASE SetFmt
  <2>1. UNCHANGED <<entry, polled, pipe, Queued, queued_buffer_count>>
    BY <1>2 DEF SetFmt, Queued
  <2> QED
    BY <1>2, <2>1 DEF SetFmt, Idle
<1>3. CASE Release
  BY <1>3 DEF Release, Idle
<1>4. CASE GetBuf
  <2>1. UNCHANGED <<entry, polled, pipe, Queued, queued_buffer_count>>
    BY <1>4 DEF GetBuf, Queued
  <2> QED
    BY <1>4, <2>1 DEF GetBuf, Idle, Phases, Fresh
<1>5. CASE RegBuf
  <2>1. PICK kept \in SUBSET Buffers, n \in 0 .. NumBufs : RegBufs(kept, n)
    BY <1>5 DEF RegBuf
  <2>2. poller'.pc = "idle" /\ call' = "none" /\ requeue' = {}
    BY <1>5 DEF RegBuf, Idle
  <2>3. entry' \in BOOLEAN /\ (polled' # entry' => pipe' # {})
    BY <2>1 DEF RegBufs, AddPollAsync, DelPollAsync
  <2> DEFINE queued == (0 .. n - 1) \ kept
  <2>4. queued_buffer_count' = Cardinality(queued) /\ (queued # {} => entry')
    BY <2>1 DEF RegBufs, AddPollAsync
  <2>5. Live' => Queued' = queued
    <3>1. Live' => n = NumBufs
      BY <2>1 DEF RegBufs
    <3>2. driver' = [b \in Buffers |-> IF b \in queued THEN "queued" ELSE "out"]
      BY <2>1 DEF RegBufs
    <3>3. n = NumBufs => queued \subseteq Buffers
      BY DEF Buffers
    <3> QED
      BY <2>2, <3>1, <3>2, <3>3 DEF Queued
  <2>6. queued = {} => Cardinality(queued) = 0
    BY FS_EmptySet
  <2> HIDE DEF queued, Live
  <2> QED
    BY <2>2, <2>3, <2>4, <2>5, <2>6
<1>6. CASE Start
  <2>1. call = "none" /\ state = "REG" /\ Live /\ state' = "ACTIVE" /\ call' \in {"none", "mapping", "abort"}
    BY <1>6 DEF Start, Idle, StreamOn, Abort
  <2>2. UNCHANGED <<Queued, queued_buffer_count>>
    BY <1>6 DEF Start, Queued
  <2>3. entry' \in BOOLEAN /\ (polled' # entry' => pipe' # {})
    BY <1>6 DEF Start, StreamOn, Abort, DelPollSync
  <2>4. call' \in {"none", "mapping"} => UNCHANGED entry
    BY <1>6 DEF Start, StreamOn, Abort
  <2> QED
    BY <2>1, <2>2, <2>3, <2>4
<1>7. CASE Stop
  <2>1. call = "none" /\ state = "ACTIVE" /\ Live /\ UNCHANGED <<state, stopped, poller>> /\ call' = "off"
    BY <1>7 DEF Stop, Idle, Phases
  <2>2. UNCHANGED <<Queued, queued_buffer_count>> /\ queued_buffer_count \in Int /\ Cardinality(Queued) \in Nat
    <3>1. Queued \in SUBSET Buffers
      BY DEF Queued, Types
    <3> QED
      BY <1>7, <3>1, QueuedSize DEF Stop, Queued, Types
  <2>3. /\ ~entry' /\ entry' \in BOOLEAN /\ (polled' # entry' => pipe' # {})
        /\ entry => "sync" \in pipe'
    BY <1>7 DEF Stop, DelPollSync
  <2>4. ~starved' => queued_buffer_count # 0
    BY <1>7 DEF Stop
  <2> QED
    BY <2>1, <2>2, <2>3, <2>4
<1>8. CASE UnregBuf
  BY <1>8 DEF UnregBuf, Idle
<1>9. CASE PutBuf
  BY <1>9 DEF PutBuf, Idle
<1>10. CASE ProcPipe
  <2>1. poller.pc = "idle" /\ polled' = entry /\ UNCHANGED <<entry, Queued, queued_buffer_count>>
    BY <1>10 DEF ProcPipe, Queued
  <2> QED
    BY <1>10, <2>1 DEF ProcPipe
<1>11. CASE CountUsers
  <2>1. UNCHANGED <<entry, polled, pipe, Queued, queued_buffer_count>>
    BY <1>11 DEF CountUsers, Queued
  <2> QED
    BY <1>11, <2>1 DEF CountUsers
<1>12. CASE NotifyChannel
  <2>1. UNCHANGED <<entry, polled, pipe, Queued, queued_buffer_count>>
    BY <1>12 DEF NotifyChannel, Queued
  <2> QED
    BY <1>12, <2>1 DEF NotifyChannel, Onward, Away
<1>13. CASE NotifyLinked
  <2>1. UNCHANGED <<entry, polled, pipe, Queued, queued_buffer_count>>
    BY <1>13 DEF NotifyLinked, Queued
  <2> QED
    BY <1>13, <2>1 DEF NotifyLinked, Onward, Away
<1>14. CASE EnqueueAppData
  <2>1. UNCHANGED <<entry, polled, pipe, Queued, queued_buffer_count>>
    BY <1>14 DEF EnqueueAppData, Queued
  <2> QED
    BY <1>14, <2>1 DEF EnqueueAppData, Away
<1>15. CASE TakeAppData
  <2>1. UNCHANGED <<entry, polled, pipe, Queued, queued_buffer_count>>
    BY <1>15 DEF TakeAppData, Queued
  <2> QED
    BY <1>15, <2>1 DEF TakeAppData
<1>16. CASE DispatchAppData
  <2>1. UNCHANGED <<entry, polled, pipe, Queued, queued_buffer_count>>
    BY <1>16 DEF DispatchAppData, Queued
  <2> QED
    BY <1>16, <2>1 DEF DispatchAppData
<1>17. CASE EndAppData
  <2>1. app.buf \in Buffers /\ app.buf \notin Queued
    BY <1>17 DEF EndAppData, Types, Places, Nobody, AtDriver, InApp, Queued
  <2>2. Live /\ UNCHANGED <<state, stopped, call, starved, lost, poller, driver>>
    BY <1>17 DEF EndAppData, Phases
  <2>3. BufDone(app.buf)
    BY <1>17 DEF EndAppData
  <2> QED
    BY <2>1, <2>2, <2>3, DoneIsOut
<1>18. CASE EndMapping
  <2>1. call = "mapping" /\ state = "ACTIVE" /\ Live /\ UNCHANGED <<state, stopped>> /\ call' \in {"none", "abort"}
    BY <1>18 DEF EndMapping, StreamOn, Abort, Phases
  <2>2. UNCHANGED <<Queued, queued_buffer_count>>
    BY <1>18 DEF EndMapping, Queued
  <2>3. entry' \in BOOLEAN /\ (polled' # entry' => pipe' # {})
    BY <1>18 DEF EndMapping, StreamOn, Abort, DelPollSync
  <2>4. call' = "none" => UNCHANGED entry
    BY <1>18 DEF EndMapping, StreamOn, Abort
  <2> QED
    BY <2>1, <2>2, <2>3, <2>4
<1>19. CASE EndAbort
  <2>1. UNCHANGED <<entry, polled, pipe, Queued, queued_buffer_count>>
    BY <1>19 DEF EndAbort, Queued
  <2> QED
    BY <1>19, <2>1 DEF EndAbort, Phases
<1>20. CASE StreamOff
  <2>1. call = "off" /\ "sync" \notin pipe /\ call' = "join"
    BY <1>20 DEF StreamOff
  <2> QED
    BY <1>20, <2>1 DEF StreamOff
<1>21. CASE JoinAppThread
  <2>1. UNCHANGED <<entry, polled, pipe, Queued, queued_buffer_count>>
    BY <1>21 DEF JoinAppThread, Queued
  <2> QED
    BY <1>21, <2>1 DEF JoinAppThread
<1>22. ASSUME NEW b \in Buffers, ReadFrame(b)
      PROVE  Polling'
  <2>1. UNCHANGED <<state, stopped, call, starved>> /\ CountOut /\ poller.pc = "idle" /\ Live /\ b \in Queued
    BY <1>22 DEF ReadFrame, Phases, Queued
  <2>2. Queued' = Queued \ {b}
    <3>1. b \notin requeue
      BY <1>22 DEF ReadFrame, Places, AtDriver
    <3>2. {c \in Buffers : driver'[c] # "out"} = {c \in Buffers : driver[c] # "out"} \ {b}
      BY <1>22 DEF ReadFrame, Types
    <3> QED
      BY <1>22, <3>1, <3>2 DEF ReadFrame, Queued
  <2>3. Cardinality(Queued') = Cardinality(Queued) - 1
    <3>1. Queued \in SUBSET Buffers
      BY DEF Queued, Types
    <3> QED
      BY <2>1, <2>2, <3>1, QueuedSize
  <2>4. entry /\ state = "ACTIVE" /\ lost \subseteq lost'
    BY <1>22 DEF ReadFrame
  <2>5. queued_buffer_count \in Int
    BY DEF Types
  <2> QED
    BY <2>1, <2>3, <2>4, <2>5, CountOutEntry
<1>23. ASSUME NEW b \in Buffers, FillBuffer(b)
      PROVE  Polling'
  <2>1. {c \in Buffers : driver'[c] # "out"} = {c \in Buffers : driver[c] # "out"}
    BY <1>23 DEF FillBuffer, Types
  <2>2. UNCHANGED <<entry, polled, pipe, Queued, queued_buffer_count>>
    BY <1>23, <2>1 DEF FillBuffer, Queued
  <2> QED
    BY <1>23, <2>2 DEF FillBuffer
<1>24. ASSUME NEW b \in Buffers, MapBuf(b)
      PROVE  Polling'
  <2>1. UNCHANGED <<entry, polled, pipe, Queued, queued_buffer_count>>
    BY <1>24 DEF MapBuf, Queued
  <2> QED
    BY <1>24, <2>1 DEF MapBuf
<1>25. ASSUME NEW b \in Buffers, QueueBuffer(b)
      PROVE  Polling'
  <2>1. UNCHANGED <<state, stopped, call, starved, poller>> /\ b \in requeue
    BY <1>25 DEF QueueBuffer
  <2>2. ~AtDriver(b)
    BY <2>1 DEF Places
  <2>3. CASE driver' = [driver EXCEPT ![b] = "queued"] /\ UNCHANGED <<queued_buffer_count, polling, lost>>
    <3>1. {c \in Buffers : driver'[c] # "out"} = {c \in Buffers : driver[c] # "out"} \cup {b}
      BY <2>3 DEF Types
    <3>2. requeue' = requeue \ {b}
      BY <1>25 DEF QueueBuffer
    <3>3. Queued' = Queued
      BY <2>1, <3>1, <3>2 DEF Queued
    <3> QED
      BY <2>1, <2>3, <3>3
  <2>4. CASE CountOut /\ lost' = lost \cup {b} /\ UNCHANGED driver
    <3>1. Queued' = Queued \ {b} /\ b \in Queued
      BY <1>25, <2>1, <2>2, <2>4 DEF QueueBuffer, Queued, AtDriver
    <3>2. Queued \in SUBSET Buffers
      BY DEF Queued, Types
    <3>3. Cardinality(Queued') = Cardinality(Queued) - 1
      BY <3>1, <3>2, QueuedSize
    <3>4. lost' # {} /\ queued_buffer_count \in Int
      BY <2>4 DEF Types
    <3> QED
      BY <2>1, <2>4, <3>3, <3>4, CountOutEntry
  <2> QED
    BY <1>25, <2>3, <2>4 DEF QueueBuffer
<1>26. ASSUME NEW b \in Buffers, MarkInKernel(b)
      PROVE  Polling'
  <2>1. UNCHANGED <<entry, polled, pipe, Queued, queued_buffer_count>>
    BY <1>26 DEF MarkInKernel, Queued
  <2> QED
    BY <1>26, <2>1 DEF MarkInKernel
<1>27. ASSUME NEW b \in Buffers, NEW user \in Users, QBuf(b, user)
      PROVE  Polling'
  <2>1. b \notin Queued
    BY <1>27 DEF QBuf, Places, Nobody, AtDriver, Queued
  <2>2. Live /\ UNCHANGED <<state, stopped, call, starved, lost, poller, driver>>
    BY <1>27 DEF QBuf, Phases
  <2>3. BufDone(b)
    BY <1>27 DEF QBuf
  <2> QED
    BY <2>1, <2>2, <2>3, DoneIsOut
<1>28. CASE UNCHANGED vars
  <2>1. UNCHANGED <<entry, polled, pipe, Queued, queued_buffer_count>>
    BY <1>28 DEF vars, Queued
  <2> QED
    BY <1>28, <2>1 DEF vars
<1> QED
  BY <1>1, <1>2, <1>3, <1>4, <1>5, <1>6, <1>7, <1>8, <1>9, <1>10, <1>11, <1>12, <1>13, <1>14,
     <1>15, <1>16, <1>17, <1>18, <1>19, <1>20, <1>21, <1>22, <1>23, <1>24, <1>25, <1>26,
     <1>27, <1>28
  DEF Next, ThreadStep, AppStep, CallStep, Users

-----------------------------------------------------------------------------
(* The invariant and what follows from it.                                 *)

\* A stream that has not been opened satisfies the invariant.
LEMMA InitInvariant ==
  ASSUME Init
  PROVE  IInv
<1>1. Types
  BY BufferSet DEF Init, Types, States, AllOut, NoHolds
<1>2. Phases
  BY DEF Init, Phases, AllOut, Away
<1>3. Places
  BY DEF Init, Places, Nobody, AtDriver, InPoll, InApp, Occurs, AllOut, NoHolds, Away
<1>4. HandOver
  BY DEF Init, HandOver, Distinct, Occurs, Away
<1>5. Counted
  BY DEF Init, Counted, Live
<1>6. Polling
  BY DEF Init, Polling, Live, Away
<1> QED
  BY <1>1, <1>2, <1>3, <1>4, <1>5, <1>6 DEF IInv

\* Every step keeps the invariant.
LEMMA NextInvariant ==
  ASSUME IInv, [Next]_vars
  PROVE  IInv'
<1> USE DEF IInv
<1>1. Types' /\ Phases'
  BY TypesStep, PhasesStep
<1>2. Places' /\ HandOver'
  BY PlacesStep, HandOverStep
<1>3. Counted'
  BY <1>1, <1>2, CountedStep
<1>4. Polling'
  BY PollingStep
<1> QED
  BY <1>1, <1>2, <1>3, <1>4

\* The invariant holds in every state of every behaviour of the stream.
THEOREM Invariance == Spec => []IInv
BY InitInvariant, NextInvariant, PTL DEF Spec

\* The invariant implies the properties: streaming is only a registered stream.
LEMMA InvariantRefcnt ==
  ASSUME IInv
  PROVE  RefcntIsUsers
BY DEF IInv, Phases, Counted, Live, RefcntIsUsers

\* A stream that is on and has queued buffers has its entry.
LEMMA InvariantPollFollowsCount ==
  ASSUME IInv
  PROVE  PollFollowsCount
BY DEF IInv, Phases, Polling, Live, Queued, PollFollowsCount

\* After the join of a stop the poll thread is not in the stream.
LEMMA InvariantPollerIsOut ==
  ASSUME IInv
  PROVE  PollerIsOut
BY DEF IInv, Polling, PollerIsOut

\* RefcntIsUsers for any number of buffers and every use of a stream: while it
\* is on, buf_refcnt of each buffer is the number of those who will return it.
THEOREM AlwaysRefcntIsUsers == Spec => []RefcntIsUsers
<1>1. IInv => RefcntIsUsers
  BY InvariantRefcnt
<1> QED
  BY <1>1, Invariance, PTL

\* PollFollowsCount for any number of buffers: the device of an active stream is
\* polled while buffers are queued, and the count of them is right.
THEOREM AlwaysPollFollowsCount == Spec => []PollFollowsCount
<1>1. IInv => PollFollowsCount
  BY InvariantPollFollowsCount
<1> QED
  BY <1>1, Invariance, PTL

\* PollerIsOut for any number of buffers: a stream stopped with buffers queued,
\* none of which was refused, has the poll thread out before its buffers go.
THEOREM AlwaysPollerIsOut == Spec => []PollerIsOut
<1>1. IInv => PollerIsOut
  BY InvariantPollerIsOut
<1> QED
  BY <1>1, Invariance, PTL

-----------------------------------------------------------------------------
(* The loan of buffers.  The steps of BufferLoan, told of AtDriver and        *)
(* UsersOf.                                                                   *)

LoanUsers == {"poll", "app", "channel", "linked", "client"}
DriverKept == \A c \in Buffers : AtDriver(c)' <=> AtDriver(c)
OthersKept(b) == \A c \in Buffers : c # b => UsersOf(c)' = UsersOf(c)
UsersKept == \A c \in Buffers : UsersOf(c)' = UsersOf(c)

\* What UsersOf is, in the terms of the invariant.
LEMMA UsersAre ==
  ASSUME NEW b
  PROVE  /\ UsersOf(b) = holds[b] \cup (IF InApp(b) \/ Occurs(queue, b) THEN {"app"} ELSE {})
                                  \cup (IF InPoll(b) THEN {"poll"} ELSE {})
         /\ UsersOf(b)' = holds'[b] \cup (IF InApp(b)' \/ Occurs(queue', b) THEN {"app"} ELSE {})
                                    \cup (IF InPoll(b)' THEN {"poll"} ELSE {})
BY DEF UsersOf, InApp, InPoll, Occurs

\* A step that moves no buffer leaves the loan alone.
LEMMA LoanStutter ==
  ASSUME UNCHANGED <<streaming, lost>>, DriverKept, UsersKept
  PROVE  UNCHANGED Loan!vars
<1>1. {c \in Buffers : driver'[c] # "out"} = {c \in Buffers : driver[c] # "out"}
  BY DEF DriverKept, AtDriver
<1>2. [c \in Buffers |-> UsersOf(c)'] = [c \in Buffers |-> UsersOf(c)]
  BY DEF UsersKept
<1> QED
  BY <1>1, <1>2 DEF Loan!vars

\* A user who hands a buffer on passes it.
LEMMA LoanPass ==
  ASSUME UNCHANGED <<streaming, lost>>, DriverKept, NEW b \in Buffers, OthersKept(b),
         NEW from \in LoanUsers, NEW to \in LoanUsers, from # to, from \in UsersOf(b),
         UsersOf(b)' \in {UsersOf(b) \cup {to}, (UsersOf(b) \ {from}) \cup {to}}
  PROVE  Loan!Next
<1>1. {c \in Buffers : driver'[c] # "out"} = {c \in Buffers : driver[c] # "out"}
  BY DEF DriverKept, AtDriver
<1>2. [c \in Buffers |-> UsersOf(c)'] = [[c \in Buffers |-> UsersOf(c)] EXCEPT ![b] = UsersOf(b)']
  BY DEF OthersKept
<1>3. Loan!Pass(b, from, to)
  BY <1>1, <1>2 DEF Loan!Pass
<1> QED
  BY <1>3 DEF Loan!Next, LoanUsers

\* A user who takes himself off a buffer gives it back.
LEMMA LoanGiveBack ==
  ASSUME UNCHANGED <<streaming, lost>>, DriverKept, NEW b \in Buffers, OthersKept(b),
         NEW from \in LoanUsers, from \in UsersOf(b), UsersOf(b)' = UsersOf(b) \ {from}
  PROVE  Loan!Next
<1>1. {c \in Buffers : driver'[c] # "out"} = {c \in Buffers : driver[c] # "out"}
  BY DEF DriverKept, AtDriver
<1>2. [c \in Buffers |-> UsersOf(c)'] = [[c \in Buffers |-> UsersOf(c)] EXCEPT ![b] = UsersOf(b)']
  BY DEF OthersKept
<1>3. Loan!GiveBack(b, from)
  BY <1>1, <1>2 DEF Loan!GiveBack
<1> QED
  BY <1>3 DEF Loan!Next, LoanUsers

\* A frame that is read lends its buffer to the poll thread.
LEMMA LoanLend ==
  ASSUME UNCHANGED <<streaming, lost>>, NEW b \in Buffers, streaming, AtDriver(b),
         \A c \in Buffers : AtDriver(c)' <=> AtDriver(c) /\ c # b,
         OthersKept(b), UsersOf(b)' = {"poll"}
  PROVE  Loan!Next
<1>1. {c \in Buffers : driver'[c] # "out"} = {c \in Buffers : driver[c] # "out"} \ {b}
  BY DEF AtDriver
<1>2. [c \in Buffers |-> UsersOf(c)'] = [[c \in Buffers |-> UsersOf(c)] EXCEPT ![b] = {"poll"}]
  BY DEF OthersKept
<1>3. Loan!Lend(b)
  BY <1>1, <1>2 DEF Loan!Lend, AtDriver
<1> QED
  BY <1>3 DEF Loan!Next

\* A buffer that a failed call did not queue is lost.
LEMMA LoanLose ==
  ASSUME UNCHANGED streaming, NEW b \in Buffers, b \notin lost, lost' = lost \cup {b},
         \A c \in Buffers : AtDriver(c)' <=> AtDriver(c) /\ c # b,
         UsersKept, UsersOf(b) = {}
  PROVE  Loan!Next
<1>1. {c \in Buffers : driver'[c] # "out"} = {c \in Buffers : driver[c] # "out"} \ {b}
  BY DEF AtDriver
<1>2. [c \in Buffers |-> UsersOf(c)'] = [c \in Buffers |-> UsersOf(c)]
  BY DEF UsersKept
<1>3. Loan!Lose(b)
  BY <1>1, <1>2 DEF Loan!Lose
<1> QED
  BY <1>3 DEF Loan!Next

\* A buffer that all have returned is queued again.
LEMMA LoanRequeue ==
  ASSUME UNCHANGED <<streaming, lost>>, NEW b \in Buffers, b \notin lost, ~AtDriver(b),
         \A c \in Buffers : AtDriver(c)' <=> AtDriver(c) \/ c = b,
         UsersKept, UsersOf(b) = {}
  PROVE  Loan!Next
<1>1. {c \in Buffers : driver'[c] # "out"} = {c \in Buffers : driver[c] # "out"} \cup {b}
  BY DEF AtDriver
<1>2. [c \in Buffers |-> UsersOf(c)'] = [c \in Buffers |-> UsersOf(c)]
  BY DEF UsersKept
<1>3. Loan!Requeue(b)
  BY <1>1, <1>2 DEF Loan!Requeue, Loan!Idle, AtDriver
<1> QED
  BY <1>3 DEF Loan!Next

\* Freeing the buffers of a stream that is off resets the loan.
LEMMA LoanReset ==
  ASSUME UNCHANGED streaming, ~streaming, lost' \in {lost, {}},
         \A c \in Buffers : ~AtDriver(c)' /\ UsersOf(c)' = UsersOf(c) \cap {"poll"}
  PROVE  Loan!Next
<1>1. {c \in Buffers : driver'[c] # "out"} = {}
  BY DEF AtDriver
<1>2. [c \in Buffers |-> UsersOf(c)'] = [c \in Buffers |-> UsersOf(c) \cap {"poll"}]
  OBVIOUS
<1>3. Loan!Reset
  BY <1>1, <1>2 DEF Loan!Reset
<1> QED
  BY <1>3 DEF Loan!Next

\* Starting the stream at the driver switches the loan on.
LEMMA LoanSwitchOn ==
  ASSUME ~streaming, streaming' = TRUE, UNCHANGED lost, DriverKept, UsersKept
  PROVE  Loan!Next
<1>1. {c \in Buffers : driver'[c] # "out"} = {c \in Buffers : driver[c] # "out"}
  BY DEF DriverKept, AtDriver
<1>2. [c \in Buffers |-> UsersOf(c)'] = [c \in Buffers |-> UsersOf(c)]
  BY DEF UsersKept
<1>3. Loan!SwitchOn
  BY <1>1, <1>2 DEF Loan!SwitchOn
<1> QED
  BY <1>3 DEF Loan!Next

\* Stopping it takes the buffers from the driver.
LEMMA LoanSwitchOff ==
  ASSUME streaming' = FALSE, UNCHANGED lost, \A c \in Buffers : ~AtDriver(c)', UsersKept
  PROVE  Loan!Next
<1>1. {c \in Buffers : driver'[c] # "out"} = {}
  BY DEF AtDriver
<1>2. [c \in Buffers |-> UsersOf(c)'] = [c \in Buffers |-> UsersOf(c)]
  BY DEF UsersKept
<1>3. Loan!SwitchOff
  BY <1>1, <1>2 DEF Loan!SwitchOff
<1> QED
  BY <1>3 DEF Loan!Next

\* Registering buffers gives each to the driver, to the client, or loses it.
LEMMA LoanRegister ==
  ASSUME UNCHANGED streaming, ~streaming, NEW D \in SUBSET Buffers, NEW kept \in SUBSET Buffers, D \cap kept = {},
         \A c \in Buffers : ~AtDriver(c) /\ UsersOf(c) = {} /\ (AtDriver(c)' <=> c \in D)
                            /\ UsersOf(c)' = IF c \in kept THEN {"client"} ELSE {},
         lost' = Buffers \ (D \cup kept)
  PROVE  Loan!Next
<1>1. {c \in Buffers : driver[c] # "out"} = {} /\ {c \in Buffers : driver'[c] # "out"} = D
  BY DEF AtDriver
<1>2. /\ [c \in Buffers |-> UsersOf(c)'] = [c \in Buffers |-> IF c \in kept THEN {"client"} ELSE {}]
      /\ [c \in Buffers |-> UsersOf(c)] = [c \in Buffers |-> {}]
  OBVIOUS
<1>3. Loan!Register(D, kept)
  BY <1>1, <1>2 DEF Loan!Register, Loan!NoUsers
<1> QED
  BY <1>3 DEF Loan!Next

\* Every step of the stream is a step of BufferLoan or leaves it alone.
LEMMA LoanStep ==
  ASSUME Types, Phases, Places, HandOver, [Next]_vars
  PROVE  [Loan!Next]_(Loan!vars)
<1> USE DEF caller, mapping, polling, threads, counts, kernel, returns
<1>1. CASE Acquire
  <2>1. UNCHANGED <<streaming, lost>> /\ DriverKept
    BY <1>1 DEF Acquire, DriverKept, AtDriver
  <2>2. UsersKept
    BY <1>1 DEF Acquire, UsersKept, UsersOf
  <2> QED
    BY <2>1, <2>2, LoanStutter
<1>2. CASE SetFmt
  <2>1. UNCHANGED <<streaming, lost>> /\ DriverKept
    BY <1>2 DEF SetFmt, DriverKept, AtDriver
  <2>2. UsersKept
    BY <1>2 DEF SetFmt, UsersKept, UsersOf
  <2> QED
    BY <2>1, <2>2, LoanStutter
<1>3. CASE Release
  <2>1. UNCHANGED <<streaming, lost>> /\ DriverKept
    BY <1>3 DEF Release, DriverKept, AtDriver
  <2>2. UsersKept
    BY <1>3 DEF Release, UsersKept, UsersOf
  <2> QED
    BY <2>1, <2>2, LoanStutter
<1>4. CASE GetBuf
  <2>1. UNCHANGED <<streaming, lost>> /\ DriverKept
    BY <1>4 DEF GetBuf, DriverKept, AtDriver
  <2>2. UsersKept
    BY <1>4 DEF GetBuf, UsersKept, UsersOf
  <2> QED
    BY <2>1, <2>2, LoanStutter
<1>5. CASE RegBuf
  <2>1. PICK kept \in SUBSET Buffers, n \in 0 .. NumBufs : RegBufs(kept, n)
    BY <1>5 DEF RegBuf
  <2> DEFINE queued == (0 .. n - 1) \ kept
             stay == (0 .. n - 1) \cap kept
  <2>2. UNCHANGED streaming /\ ~streaming /\ UNCHANGED threads /\ app.pc = "gone" /\ queue = <<>> /\ poller.pc = "idle"
    BY <1>5 DEF RegBuf, Phases
  <2>3. driver = AllOut /\ holds = NoHolds
    BY <1>5 DEF RegBuf, Phases, Fresh
  <2>4. /\ driver' = [b \in Buffers |-> IF b \in queued THEN "queued" ELSE "out"]
        /\ holds' = [b \in Buffers |-> IF b \in stay THEN {"client"} ELSE {}]
        /\ lost' = {b \in Buffers : b >= n}
    BY <2>1 DEF RegBufs
  <2>5. queued \in SUBSET Buffers /\ stay \in SUBSET Buffers /\ queued \cap stay = {}
    BY ConstantsAssumption DEF Buffers, ConstantsAssumption
  <2>6. Buffers \ (queued \cup stay) = {b \in Buffers : b >= n}
    BY ConstantsAssumption DEF Buffers, ConstantsAssumption
  <2>7. ASSUME NEW c \in Buffers
        PROVE  /\ ~AtDriver(c) /\ UsersOf(c) = {} /\ (AtDriver(c)' <=> c \in queued)
               /\ UsersOf(c)' = IF c \in stay THEN {"client"} ELSE {}
    <3>1. ~InApp(c) /\ ~Occurs(queue, c) /\ ~InPoll(c) /\ ~InApp(c)' /\ ~Occurs(queue', c) /\ ~InPoll(c)'
      BY <2>2 DEF InApp, Occurs, InPoll
    <3>2. ~AtDriver(c) /\ holds[c] = {} /\ (AtDriver(c)' <=> c \in queued)
      BY <2>3, <2>4 DEF AtDriver, AllOut, NoHolds
    <3>3. holds'[c] = IF c \in stay THEN {"client"} ELSE {}
      BY <2>4
    <3> QED
      BY <3>1, <3>2, <3>3, UsersAre
  <2> HIDE DEF queued, stay
  <2> QED
    BY <2>2, <2>4, <2>5, <2>6, <2>7, LoanRegister
<1>6. CASE Start
  <2>1. UNCHANGED lost /\ DriverKept /\ ~streaming /\ (streaming' = TRUE \/ UNCHANGED streaming)
    BY <1>6 DEF Start, StreamOn, Abort, DriverKept, AtDriver, Phases
  <2>2. UsersKept
    BY <1>6 DEF Start, UsersKept, UsersOf, Away, Phases
  <2> QED
    BY <2>1, <2>2, LoanStutter, LoanSwitchOn
<1>7. CASE Stop
  <2>1. UNCHANGED <<streaming, lost>> /\ DriverKept
    BY <1>7 DEF Stop, DriverKept, AtDriver
  <2>2. UsersKept
    BY <1>7 DEF Stop, UsersKept, UsersOf
  <2> QED
    BY <2>1, <2>2, LoanStutter
<1>8. CASE UnregBuf
  <2>1. UNCHANGED streaming /\ ~streaming /\ lost' \in {lost, {}}
    BY <1>8 DEF UnregBuf, Phases
  <2>2. \A c \in Buffers : ~AtDriver(c)' /\ holds'[c] = {}
    BY <1>8 DEF UnregBuf, AllOut, AtDriver, NoHolds
  <2>3. app.pc = "gone" /\ queue = <<>> /\ UNCHANGED threads
    BY <1>8 DEF UnregBuf, Phases
  <2>4. ASSUME NEW c \in Buffers
        PROVE  UsersOf(c)' = UsersOf(c) \cap {"poll"}
    <3>1. ~InApp(c) /\ ~Occurs(queue, c) /\ ~InApp(c)' /\ ~Occurs(queue', c) /\ (InPoll(c)' <=> InPoll(c))
      BY <2>3 DEF InApp, Occurs, InPoll
    <3>2. holds[c] \subseteq Users
      BY DEF Types
    <3> QED
      BY <2>2, <3>1, <3>2, UsersAre DEF Users
  <2> QED
    BY <2>1, <2>2, <2>4, LoanReset
<1>9. CASE PutBuf
  <2>1. UNCHANGED streaming /\ ~streaming /\ lost' \in {lost, {}}
    BY <1>9 DEF PutBuf, Phases
  <2>2. \A c \in Buffers : ~AtDriver(c)' /\ holds'[c] = {}
    BY <1>9 DEF PutBuf, AllOut, AtDriver, NoHolds
  <2>3. app.pc = "gone" /\ queue = <<>> /\ UNCHANGED threads
    BY <1>9 DEF PutBuf, Phases
  <2>4. ASSUME NEW c \in Buffers
        PROVE  UsersOf(c)' = UsersOf(c) \cap {"poll"}
    <3>1. ~InApp(c) /\ ~Occurs(queue, c) /\ ~InApp(c)' /\ ~Occurs(queue', c) /\ (InPoll(c)' <=> InPoll(c))
      BY <2>3 DEF InApp, Occurs, InPoll
    <3>2. holds[c] \subseteq Users
      BY DEF Types
    <3> QED
      BY <2>2, <3>1, <3>2, UsersAre DEF Users
  <2> QED
    BY <2>1, <2>2, <2>4, LoanReset
<1>10. CASE ProcPipe
  <2>1. UNCHANGED <<streaming, lost>> /\ DriverKept
    BY <1>10 DEF ProcPipe, DriverKept, AtDriver
  <2>2. UsersKept
    BY <1>10 DEF ProcPipe, UsersKept, UsersOf
  <2> QED
    BY <2>1, <2>2, LoanStutter
<1>11. CASE CountUsers
  <2>1. UNCHANGED <<streaming, lost>> /\ DriverKept
    BY <1>11 DEF CountUsers, DriverKept, AtDriver
  <2>2. UsersKept
    BY <1>11 DEF CountUsers, UsersKept, UsersOf, Types
  <2> QED
    BY <2>1, <2>2, LoanStutter
<1>12. CASE NotifyChannel
  <2>0. PICK b \in Buffers : b = poller.buf
    BY DEF Types
  <2>1. UNCHANGED <<streaming, lost, app, queue>> /\ DriverKept
    BY <1>12, <2>0 DEF NotifyChannel, DriverKept, AtDriver
  <2>2. /\ b \in Buffers /\ ~InApp(b) /\ ~Occurs(queue, b) /\ holds[b] = {}
        /\ \A c \in Buffers : (InPoll(c) <=> c = b) /\ (InApp(c)' <=> InApp(c))
    BY <1>12, <2>0 DEF NotifyChannel, InPoll, InApp, HandOver, Types
  <2>3. \/ \A c \in Buffers : InPoll(c)' <=> c = b
        \/ \A c \in Buffers : ~InPoll(c)'
    BY <1>12, <2>0 DEF NotifyChannel, Onward, Away, InPoll, Types
  <2>4. holds'[b] \in {{}, {"channel"}} /\ \A c \in Buffers : c # b => holds'[c] = holds[c]
    BY <1>12, <2>0, <2>2 DEF NotifyChannel, Types
  <2>5. OthersKept(b) /\ UsersOf(b) = {"poll"}
    BY <2>1, <2>2, <2>3, <2>4, UsersAre DEF OthersKept
  <2>6. UsersOf(b)' \in {{"poll"}, {}, {"poll", "channel"}, {"channel"}}
    BY <2>1, <2>2, <2>3, <2>4, UsersAre
  <2>7. CASE UsersOf(b)' = {"poll"}
    <3>1. UsersKept
      BY <2>5, <2>7 DEF OthersKept, UsersKept
    <3> QED
      BY <2>1, <3>1, LoanStutter
  <2>8. CASE UsersOf(b)' = {}
    BY <2>1, <2>2, <2>5, <2>8, LoanGiveBack DEF LoanUsers
  <2>9. CASE UsersOf(b)' \in {{"poll", "channel"}, {"channel"}}
    <3>1. UsersOf(b)' \in {UsersOf(b) \cup {"channel"}, (UsersOf(b) \ {"poll"}) \cup {"channel"}}
      BY <2>5, <2>9
    <3> QED
      BY <2>1, <2>2, <2>5, <3>1, LoanPass DEF LoanUsers
  <2> QED
    BY <2>6, <2>7, <2>8, <2>9
<1>13. CASE NotifyLinked
  <2>0. PICK b \in Buffers : b = poller.buf
    BY DEF Types
  <2>1. UNCHANGED <<streaming, lost, app, queue>> /\ DriverKept
    BY <1>13, <2>0 DEF NotifyLinked, DriverKept, AtDriver
  <2>2. /\ b \in Buffers
        /\ \A c \in Buffers : (InPoll(c) <=> c = b) /\ (InPoll(c)' <=> c = b) /\ (InApp(c)' <=> InApp(c))
    BY <1>13, <2>0 DEF NotifyLinked, Onward, InPoll, InApp, HandOver, Types
  <2>3. holds'[b] \in {holds[b], holds[b] \cup {"linked"}} /\ \A c \in Buffers : c # b => holds'[c] = holds[c]
    BY <1>13, <2>0, <2>2 DEF NotifyLinked, Types
  <2>4. OthersKept(b) /\ "poll" \in UsersOf(b)
    BY <2>1, <2>2, <2>3, UsersAre DEF OthersKept
  <2>5. CASE holds'[b] = holds[b]
    <3>1. UsersKept
      BY <2>1, <2>2, <2>4, <2>5, UsersAre DEF OthersKept, UsersKept
    <3> QED
      BY <2>1, <3>1, LoanStutter
  <2>6. CASE holds'[b] = holds[b] \cup {"linked"}
    <3>1. UsersOf(b)' = UsersOf(b) \cup {"linked"}
      BY <2>1, <2>2, <2>6, UsersAre
    <3> QED
      BY <2>1, <2>2, <2>4, <3>1, LoanPass DEF LoanUsers
  <2> QED
    BY <2>3, <2>5, <2>6
<1>14. CASE EnqueueAppData
  <2>0. PICK b \in Buffers : b = poller.buf
    BY DEF Types
  <2>1. UNCHANGED <<streaming, lost, holds, app>> /\ DriverKept
    BY <1>14, <2>0 DEF EnqueueAppData, DriverKept, AtDriver
  <2>2. /\ b \in Buffers /\ ~InApp(b) /\ ~Occurs(queue, b)
        /\ \A c \in Buffers : (InPoll(c) <=> c = b) /\ ~InPoll(c)' /\ (InApp(c)' <=> InApp(c))
    BY <1>14, <2>0 DEF EnqueueAppData, InPoll, InApp, HandOver, Away, Types
  <2>3. "poll" \notin holds[b] /\ "app" \notin holds[b]
    BY <2>2 DEF Types, Users
  <2>4. CASE app.pc # "gone"
    <3>1. \A c \in Buffers : Occurs(queue', c) <=> Occurs(queue, c) \/ c = b
      BY <1>14, <2>0, <2>4, AppendOccurs DEF EnqueueAppData, Types
    <3>2. OthersKept(b) /\ "poll" \in UsersOf(b) /\ UsersOf(b)' = (UsersOf(b) \ {"poll"}) \cup {"app"}
      BY <2>1, <2>2, <2>3, <3>1, UsersAre, ZenonT(30) DEF OthersKept
    <3> QED
      BY <2>1, <2>2, <3>2, LoanPass DEF LoanUsers
  <2>5. CASE app.pc = "gone"
    <3>1. UNCHANGED queue
      BY <1>14, <2>0, <2>5 DEF EnqueueAppData
    <3>2. OthersKept(b) /\ "poll" \in UsersOf(b) /\ UsersOf(b)' = UsersOf(b) \ {"poll"}
      BY <2>1, <2>2, <2>3, <3>1, UsersAre DEF OthersKept
    <3> QED
      BY <2>1, <2>2, <3>2, LoanGiveBack DEF LoanUsers
  <2> QED
    BY <2>4, <2>5
<1>15. CASE TakeAppData
  <2>1. UNCHANGED <<streaming, lost, holds, poller>> /\ DriverKept
    BY <1>15 DEF TakeAppData, DriverKept, AtDriver
  <2>2. \A c \in Buffers : InApp(c)' \/ Occurs(queue', c) <=> InApp(c) \/ Occurs(queue, c)
    <3>1. queue \in Seq(Buffers) /\ queue # <<>> /\ Distinct(queue) /\ queue' = Tail(queue)
      BY <1>15 DEF TakeAppData, HandOver, Types
    <3>2. \A c \in Buffers : ~InApp(c) /\ (InApp(c)' <=> c = Head(queue))
      BY <1>15 DEF TakeAppData, InApp
    <3> QED
      BY <3>1, <3>2, TailOccurs
  <2>3. \A c \in Buffers : InPoll(c)' <=> InPoll(c)
    BY <2>1 DEF InPoll
  <2>4. UsersKept
    BY <2>1, <2>2, <2>3, UsersAre DEF UsersKept
  <2> QED
    BY <2>1, <2>4, LoanStutter
<1>16. CASE DispatchAppData
  <2>0. PICK b \in Buffers : b = app.buf
    BY DEF Types
  <2>1. UNCHANGED <<streaming, lost, queue, poller>> /\ DriverKept
    BY <1>16, <2>0 DEF DispatchAppData, DriverKept, AtDriver
  <2>2. b \in Buffers /\ InApp(b) /\ \A c \in Buffers : (InApp(c)' <=> InApp(c)) /\ (InPoll(c)' <=> InPoll(c))
    BY <1>16, <2>0 DEF DispatchAppData, InApp, InPoll, Types
  <2>3. holds'[b] = holds[b] \cup {"client"} /\ \A c \in Buffers : c # b => holds'[c] = holds[c]
    BY <1>16, <2>0 DEF DispatchAppData, Types
  <2>4. OthersKept(b) /\ "app" \in UsersOf(b) /\ UsersOf(b)' = UsersOf(b) \cup {"client"}
    BY <2>1, <2>2, <2>3, UsersAre, SMTT(20) DEF OthersKept
  <2> QED
    BY <2>1, <2>2, <2>4, LoanPass DEF LoanUsers
<1>17. CASE EndAppData
  <2>0. PICK b \in Buffers : b = app.buf
    BY DEF Types
  <2>1. UNCHANGED <<streaming, lost, holds, queue, poller>> /\ DriverKept
    BY <1>17, <2>0 DEF EndAppData, DriverKept, AtDriver
  <2>2. b \in Buffers /\ \A c \in Buffers : (InApp(c) <=> c = b) /\ ~InApp(c)' /\ (InPoll(c)' <=> InPoll(c))
    BY <1>17, <2>0 DEF EndAppData, InApp, InPoll, Away, Types
  <2>3. ~Occurs(queue, b) /\ "app" \notin holds[b]
    BY <2>2, SMTT(20) DEF HandOver, Types, Users
  <2>4. OthersKept(b) /\ "app" \in UsersOf(b) /\ UsersOf(b)' = UsersOf(b) \ {"app"}
    BY <2>1, <2>2, <2>3, UsersAre DEF OthersKept
  <2> QED
    BY <2>1, <2>2, <2>4, LoanGiveBack DEF LoanUsers
<1>18. CASE EndMapping
  <2>1. UNCHANGED lost /\ DriverKept /\ ~streaming /\ (streaming' = TRUE \/ UNCHANGED streaming)
    BY <1>18 DEF EndMapping, StreamOn, Abort, DriverKept, AtDriver, Phases
  <2>2. UsersKept
    BY <1>18 DEF EndMapping, UsersKept, UsersOf, Away, Phases
  <2> QED
    BY <2>1, <2>2, LoanStutter, LoanSwitchOn
<1>19. CASE EndAbort
  <2>1. UNCHANGED <<streaming, lost>> /\ DriverKept
    BY <1>19 DEF EndAbort, DriverKept, AtDriver
  <2>2. UsersKept
    BY <1>19 DEF EndAbort, UsersKept, UsersOf, Away
  <2> QED
    BY <2>1, <2>2, LoanStutter
<1>20. CASE StreamOff
  <2>1. UNCHANGED lost /\ streaming' = FALSE /\ \A c \in Buffers : ~AtDriver(c)'
    BY <1>20 DEF StreamOff, AllOut, AtDriver
  <2>2. UsersKept
    BY <1>20 DEF StreamOff, UsersKept, UsersOf
  <2> QED
    BY <2>1, <2>2, LoanSwitchOff
<1>21. CASE JoinAppThread
  <2>1. UNCHANGED <<streaming, lost>> /\ DriverKept
    BY <1>21 DEF JoinAppThread, DriverKept, AtDriver
  <2>2. UsersKept
    BY <1>21 DEF JoinAppThread, UsersKept, UsersOf, Away
  <2> QED
    BY <2>1, <2>2, LoanStutter
<1>22. ASSUME NEW b \in Buffers, ReadFrame(b)
      PROVE  [Loan!Next]_(Loan!vars)
  <2>1. AtDriver(b) /\ streaming /\ UNCHANGED streaming /\ poller.pc = "idle"
    BY <1>22 DEF ReadFrame, AtDriver, Phases
  <2>2. Nobody(b) /\ b \notin lost
    BY <2>1 DEF Places
  <2>3. \A c \in Buffers : AtDriver(c)' <=> AtDriver(c) /\ c # b
    BY <1>22 DEF ReadFrame, AtDriver, Types
  <2>4. UNCHANGED <<holds, app, queue>>
    BY <1>22 DEF ReadFrame
  <2>5. UsersOf(b) = {}
    BY <2>2, UsersAre DEF Nobody
  <2>6. CASE poller' = [pc |-> "read", buf |-> b] /\ UNCHANGED lost
    <3>1. \A c \in Buffers : ~InPoll(c) /\ (InPoll(c)' <=> c = b)
      BY <2>1, <2>6 DEF InPoll
    <3>2. \A c \in Buffers : InApp(c)' <=> InApp(c)
      BY <2>4 DEF InApp
    <3>3. OthersKept(b) /\ UsersOf(b)' = {"poll"}
      BY <2>2, <2>4, <3>1, <3>2, UsersAre DEF Nobody, OthersKept
    <3> QED
      BY <2>1, <2>3, <2>6, <3>3, LoanLend
  <2>7. CASE lost' = lost \cup {b} /\ UNCHANGED poller
    <3>1. UsersKept
      BY <2>4, <2>7 DEF UsersKept, UsersOf
    <3> QED
      BY <2>1, <2>2, <2>3, <2>5, <2>7, <3>1, LoanLose
  <2> QED
    BY <1>22, <2>6, <2>7 DEF ReadFrame
<1>23. ASSUME NEW b \in Buffers, FillBuffer(b)
      PROVE  [Loan!Next]_(Loan!vars)
  <2>1. UNCHANGED <<streaming, lost>> /\ DriverKept
    BY <1>23 DEF FillBuffer, DriverKept, AtDriver, Types
  <2>2. UsersKept
    BY <1>23 DEF FillBuffer, UsersKept, UsersOf
  <2> QED
    BY <2>1, <2>2, LoanStutter
<1>24. ASSUME NEW b \in Buffers, MapBuf(b)
      PROVE  [Loan!Next]_(Loan!vars)
  <2>1. UNCHANGED <<streaming, lost>> /\ DriverKept
    BY <1>24 DEF MapBuf, DriverKept, AtDriver
  <2>2. UsersKept
    BY <1>24 DEF MapBuf, UsersKept, UsersOf
  <2> QED
    BY <2>1, <2>2, LoanStutter
<1>25. ASSUME NEW b \in Buffers, QueueBuffer(b)
      PROVE  [Loan!Next]_(Loan!vars)
  <2>1. b \in requeue /\ UNCHANGED <<streaming, holds, app, queue, poller>>
    BY <1>25 DEF QueueBuffer
  <2>2. Nobody(b) /\ b \notin lost /\ ~AtDriver(b)
    BY <2>1 DEF Places
  <2>3. UsersOf(b) = {} /\ UsersKept
    BY <2>1, <2>2, UsersAre DEF Nobody, UsersKept, UsersOf
  <2>4. CASE driver' = [driver EXCEPT ![b] = "queued"] /\ UNCHANGED lost
    <3>1. \A c \in Buffers : AtDriver(c)' <=> AtDriver(c) \/ c = b
      BY <2>4 DEF AtDriver, Types
    <3> QED
      BY <2>1, <2>2, <2>3, <2>4, <3>1, LoanRequeue
  <2>5. CASE lost' = lost \cup {b} /\ UNCHANGED driver
    <3>1. \A c \in Buffers : AtDriver(c)' <=> AtDriver(c) /\ c # b
      BY <2>2, <2>5 DEF AtDriver
    <3> QED
      BY <2>1, <2>2, <2>3, <2>5, <3>1, LoanLose
  <2> QED
    BY <1>25, <2>4, <2>5 DEF QueueBuffer
<1>26. ASSUME NEW b \in Buffers, MarkInKernel(b)
      PROVE  [Loan!Next]_(Loan!vars)
  <2>1. UNCHANGED <<streaming, lost>> /\ DriverKept
    BY <1>26 DEF MarkInKernel, DriverKept, AtDriver
  <2>2. UsersKept
    BY <1>26 DEF MarkInKernel, UsersKept, UsersOf
  <2> QED
    BY <2>1, <2>2, LoanStutter
<1>27. ASSUME NEW b \in Buffers, NEW user \in Users, QBuf(b, user)
      PROVE  [Loan!Next]_(Loan!vars)
  <2>1. UNCHANGED <<streaming, lost, app, queue, poller>> /\ DriverKept
    BY <1>27 DEF QBuf, DriverKept, AtDriver
  <2>2. user \in holds[b] /\ holds' = [holds EXCEPT ![b] = @ \ {user}] /\ user \in LoanUsers
    BY <1>27 DEF QBuf, Users, LoanUsers
  <2>3. \A c \in Buffers : (InApp(c)' <=> InApp(c)) /\ (InPoll(c)' <=> InPoll(c))
    BY <2>1 DEF InApp, InPoll
  <2>4. /\ holds'[b] = holds[b] \ {user} /\ user \notin {"app", "poll"}
        /\ \A c \in Buffers : c # b => holds'[c] = holds[c]
    BY <1>27, <2>2 DEF Types, Users
  <2>5. OthersKept(b) /\ user \in UsersOf(b) /\ UsersOf(b)' = UsersOf(b) \ {user}
    BY <2>1, <2>2, <2>3, <2>4, UsersAre DEF OthersKept
  <2> QED
    BY <2>1, <2>2, <2>5, LoanGiveBack
<1>28. CASE UNCHANGED vars

  <2>1. UNCHANGED <<streaming, lost>> /\ DriverKept
    BY <1>28 DEF vars, DriverKept, AtDriver
  <2>2. UsersKept
    BY <1>28 DEF vars, UsersKept, UsersOf
  <2> QED
    BY <2>1, <2>2, LoanStutter
<1> QED
  BY <1>1, <1>2, <1>3, <1>4, <1>5, <1>6, <1>7, <1>8, <1>9, <1>10, <1>11, <1>12, <1>13, <1>14,
     <1>15, <1>16, <1>17, <1>18, <1>19, <1>20, <1>21, <1>22, <1>23, <1>24, <1>25, <1>26,
     <1>27, <1>28
  DEF Next, ThreadStep, AppStep, CallStep, Users


\* At first nobody has a buffer.
LEMMA LoanInit ==
  ASSUME Init
  PROVE  Loan!Init
<1>1. \A c \in Buffers : driver[c] = "out" /\ UsersOf(c) = {}
  BY DEF Init, AllOut, NoHolds, UsersOf, Away
<1>2. {c \in Buffers : driver[c] # "out"} = {} /\ [c \in Buffers |-> UsersOf(c)] = [c \in Buffers |-> {}]
  BY <1>1
<1> QED
  BY <1>2 DEF Init, Loan!Init, Loan!NoUsers

\* The stream implements BufferLoan as far as safety goes, for any number of
\* buffers: whatever the threads do, no buffer is with the driver and a user at
\* once, one passes from user to user only as the loan allows, and it is queued
\* again only when nobody has it.  (That it is queued eventually is ImplementsLoan.)
THEOREM StreamRefinesLoan == Spec => Loan!Init /\ [][Loan!Next]_(Loan!vars)
<1>1. IInv /\ [Next]_vars => [Loan!Next]_(Loan!vars)
  BY LoanStep DEF IInv
<1> QED
  BY <1>1, LoanInit, Invariance, PTL DEF Spec
=============================================================================
