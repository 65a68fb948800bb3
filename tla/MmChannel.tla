----------------------------- MODULE MmChannel -----------------------------
(***************************************************************************)
(* A channel of the camera stack interface                                 *)
(* (stack/mm-camera-interface/src/mm_camera_channel.c): the frames of its  *)
(* bundled streams are matched by their frame id into super buffers, and   *)
(* the client gets as many as it has asked for.                            *)
(*                                                                         *)
(* The poll threads of the streams append each frame to the queue of the   *)
(* channel's command thread, the client appends requests, flushes and      *)
(* modes.  The command thread handles one after the other: it alone        *)
(* touches the queue of super buffers, gives buffers it discards back to   *)
(* their stream and passes super buffers to a callback thread, which calls *)
(* the client.  A flush is waited for by its caller, and a stop is a flush *)
(* followed by the end of the two threads.                                 *)
(*                                                                         *)
(* Left out: the low priority of the matching, the captures configured     *)
(* frame by frame, the zoom and the flash bracketing, a second camera, and *)
(* the first frame id of the instant capture.                              *)
(***************************************************************************)
EXTENDS Integers, Sequences, FiniteSets, FiniteSetsExt

CONSTANTS
  Streams,      \* the bundled streams
  Meta,         \* the one of them that brings the metadata
  NumBufs,      \* buffers of each stream
  WaterMark, LookBack, PostSkip, MaxUnmatched,   \* superbuf_queue.attr
  FutureWait,   \* MM_CAMERA_MAX_FUTURE_FRAME_WAIT
  Commands,     \* what the client may ask for
  MaxFrame,     \* bound: frame ids
  MaxCommands,  \* bound: commands of the client
  MaxInfos,     \* bound: metadata with something for the channel
  MaxStarts,    \* bound: starts of the channel
  MaxBacklog    \* bound: commands of the client and the streams that wait

ASSUME ConstantsAssumption ==
  /\ Meta \in Streams /\ IsFiniteSet(Streams) /\ Cardinality(Streams) > 1
  /\ {NumBufs, FutureWait, MaxFrame} \subseteq Nat \ {0}
  /\ {WaterMark, LookBack, PostSkip, MaxUnmatched, MaxCommands, MaxInfos, MaxStarts, MaxBacklog} \subseteq Nat

\* A client asks for super buffers, flushes, sets the delivery, starts and ends
\* the snapshot mode and the bracketing
ASSUME CommandsAssumption ==
  \A cmd \in Commands :
    \/ cmd \in [type : {"request"}, num : Nat, retro : Nat]
    \/ cmd \in [type : {"flush"}, frame : Nat]
    \/ cmd \in [type : {"notify"}, mode : {"burst", "continuous"}]
    \/ cmd \in [type : {"zsl", "bracket"}, start : BOOLEAN]

Frames == 1 .. MaxFrame

VARIABLES
  ch,        \* what only the command thread touches, see InitChannel
  phase,     \* "stopped", "active", and the steps of a stop: "stopping",
             \* "flushing", "joining cmd", "joining cb"
  on,        \* the streams that are on
  cmds,      \* cmd_queue of the command thread
  posted,    \* sync_sem: flushes done that nobody has waited for yet
  waiting,   \* the client waits for a flush
  supers,    \* cmd_queue of the callback thread: frame ids
  client,    \* buffers the client has: <<stream, frame>>
  out,       \* of each stream, the frames that have not come back to it
  next,      \* of each stream, the frame id it is at
  last,      \* history: the frame id of the last super buffer
  count      \* bounds: [commands, infos, starts]

vars == <<ch, phase, on, cmds, posted, waiting, supers, client, out, next, last, count>>

-----------------------------------------------------------------------------
(* The queue of super buffers.  A node has the frame id, the streams whose *)
(* buffer is in it, and expected_frame.                                    *)

Matched(n) == n.bufs = Streams
Bufs(n) == {<<s, n.frame>> : s \in n.bufs}

GiveBack(c, B) == [c EXCEPT !.back = @ \cup B]

\* The k-th of a set of positions
Nth(S, k) == CHOOSE i \in S : Cardinality({j \in S : j <= i}) = k

\* Removes the nodes of the frames F and gives their buffers back
Without(c, F) ==
  LET kept == {i \in DOMAIN c.nodes : c.nodes[i].frame \notin F}
  IN  [GiveBack(c, UNION {Bufs(c.nodes[i]) : i \in DOMAIN c.nodes \ kept})
         EXCEPT !.nodes = [k \in 1 .. Cardinality(kept) |-> c.nodes[Nth(kept, k)]]]

\* The matched nodes at the head, which are all that can be dequeued
Leading(c) ==
  Max({k \in 0 .. Len(c.nodes) : \A i \in 1 .. k : Matched(c.nodes[i])})

Dequeue(c, k) ==
  [c EXCEPT !.nodes = SubSeq(@, k + 1, Len(@)), !.match_cnt = @ - k]

DropFirst_leaks(c, k) == Dequeue(c, k)

DropFirst(c, k) ==
  GiveBack(Dequeue(c, k), UNION {Bufs(c.nodes[i]) : i \in 1 .. k})

FlushMatched(c) == DropFirst(c, Leading(c))

Flush(c) ==
  [GiveBack(c, UNION {Bufs(c.nodes[i]) : i \in DOMAIN c.nodes})
     EXCEPT !.nodes = <<>>,
            !.match_cnt = @ - Cardinality({i \in DOMAIN c.nodes : Matched(c.nodes[i])})]

\* In burst mode the oldest matched nodes go until "mark" are left
Surplus(c, mark) ==
  IF c.mode = "burst" /\ c.match_cnt > mark THEN c.match_cnt - mark ELSE 0

\* The loops that drop the surplus do not end when it is not at the head
Spins(c, mark) == Surplus(c, mark) > Leading(c)

Trim(c, mark) == DropFirst(c, Surplus(c, mark))

-----------------------------------------------------------------------------
(* A frame: mm_channel_superbuf_comp_and_enqueue.                          *)

Later(id) == Min({id, MaxFrame + 1})   \* nothing is later than the bound

FutureFrame(c) == [c EXCEPT !.expected = Later(@ + FutureWait)]

Divert(c, f, info) ==
  IF info.kind = "divert" THEN [c EXCEPT !.diverted = IF info.id >= f THEN info.id ELSE 0] ELSE c

\* The preflash is over, and the main flash is needed or not
PrepSnapshotDone(c, info) ==
  CASE info.kind = "future" -> [Flush(FutureFrame([c EXCEPT !.wait = FALSE])) EXCEPT !.led = TRUE]
    [] info.kind = "done" -> [c EXCEPT !.wait = FALSE, !.led = FALSE]
    [] OTHER -> c

GoodFrame(c, info) ==
  IF info.kind = "good"
    THEN [c EXCEPT !.expected = info.id, !.good = info.id, !.bracketing = "active",
                   !.led_off = IF c.led /\ c.burst > 1 THEN info.id + 1 ELSE @,
                   !.once = @ /\ ~(c.led /\ c.burst > 1)]
  ELSE IF c.bracketing = "wait" /\ info.kind \notin {"future", "done"}
    THEN FutureFrame(FlushMatched(c))
  ELSE c

\* The end of the frames with the flash on
LedOff(c, f) ==
  IF c.burst > 1 /\ c.led /\ c.bracketing = "off" /\ f >= c.led_off /\ ~c.once
    THEN [c EXCEPT !.expected = Later(c.led_off + 1), !.once = TRUE, !.stop_zsl = TRUE, !.led = FALSE]
    ELSE c

HandleMetadata(c, f, info) == LedOff(GoodFrame(PrepSnapshotDone(Divert(c, f, info), info), info), f)

Discarded(c, f) ==
  /\ f < c.expected
  /\ \A i \in DOMAIN c.nodes : ~(c.nodes[i].expected /\ c.nodes[i].frame = f)

Unmatched(c) == {i \in DOMAIN c.nodes : ~Matched(c.nodes[i])}
Older(c, f) == {i \in Unmatched(c) : c.nodes[i].frame < f}
Newer(c, f) == {i \in Unmatched(c) : c.nodes[i].frame > f}

Fill_keeps(c, s, f, i) ==
  LET filled == [c.nodes[i] EXCEPT !.bufs = @ \cup {s}]
  IN  IF s \in c.nodes[i].bufs THEN GiveBack(c, {<<s, f>>})
      ELSE IF Matched(filled)
        THEN [c EXCEPT !.nodes[i] = [filled EXCEPT !.expected = FALSE],
                       !.expected = f + PostSkip, !.match_cnt = @ + 1]
      ELSE [c EXCEPT !.nodes[i] = [filled EXCEPT !.expected = @ \/ c.diverted = f],
                     !.diverted = IF @ = f THEN 0 ELSE @]

\* The buffer goes into node i; once that is matched, what is between the
\* first older unmatched node and it is released
Fill(c, s, f, i) ==
  LET filled == [c.nodes[i] EXCEPT !.bufs = @ \cup {s}]
      stale == {c.nodes[j].frame : j \in {k \in 1 .. i - 1 : \E l \in Older(c, f) : l <= k}}
  IN  IF s \in c.nodes[i].bufs THEN GiveBack(c, {<<s, f>>})
      ELSE IF Matched(filled)
        THEN Without([c EXCEPT !.nodes[i] = [filled EXCEPT !.expected = FALSE],
                               !.expected = f + PostSkip, !.match_cnt = @ + 1], stale)
      ELSE [c EXCEPT !.nodes[i] = [filled EXCEPT !.expected = @ \/ c.diverted = f],
                     !.diverted = IF @ = f THEN 0 ELSE @]

\* The nodes to remove before one for frame f is inserted: from the first
\* older one on, sparing those that are expected and the one f comes before,
\* and when these are too few, the first older one itself
Removable(c, f) ==
  {i \in DOMAIN c.nodes : /\ \E j \in Older(c, f) : j <= i
                          /\ ~c.nodes[i].expected
                          /\ Newer(c, f) = {} \/ i # Min(Newer(c, f))}

Removed(c, f) ==
  LET many == Cardinality(Unmatched(c)) - MaxUnmatched
      first == {i \in Removable(c, f) : Cardinality({j \in Removable(c, f) : j < i}) < many}
  IN  IF Cardinality(first) < many THEN first \cup {Min(Older(c, f))} ELSE first

Insert_crowds(c, s, f) ==
  LET node == [frame |-> f, bufs |-> {s}, expected |-> f \in {c.diverted, c.good}]
      at == IF Newer(c, f) = {} THEN Len(c.nodes) + 1 ELSE Min(Newer(c, f))
  IN  [c EXCEPT !.nodes = SubSeq(@, 1, at - 1) \o <<node>> \o SubSeq(@, at, Len(@)),
                !.diverted = IF node.expected THEN 0 ELSE @]

\* A new node, before the first newer one
Insert(c, s, f) ==
  LET node == [frame |-> f, bufs |-> {s}, expected |-> f \in {c.diverted, c.good}]
      less == Without(c, {c.nodes[i].frame : i \in Removed(c, f)})
      at == IF Newer(less, f) = {} THEN Len(less.nodes) + 1 ELSE Min(Newer(less, f))
  IN  IF Cardinality(Unmatched(c)) > MaxUnmatched /\ Older(c, f) = {}
        THEN GiveBack(c, {<<s, f>>})
        ELSE [less EXCEPT !.nodes = SubSeq(@, 1, at - 1) \o <<node>> \o SubSeq(@, at, Len(@)),
                          !.diverted = IF node.expected THEN 0 ELSE @]

CompAndEnqueue(c0, s, f, info) ==
  LET c == IF s = Meta THEN HandleMetadata(c0, f, info) ELSE c0
      same == {i \in Unmatched(c) : c.nodes[i].frame = f}
  IN  IF Discarded(c, f) THEN GiveBack(c, {<<s, f>>})
      ELSE IF same # {} THEN Fill(c, s, f, Min(same))
      ELSE Insert(c, s, f)

-----------------------------------------------------------------------------
(* What follows every command but a flush: the snapshot mode of the daemon *)
(* (zsl) and the dispatch.                                                 *)

\* mm_camera_start_zsl_snapshot and mm_camera_stop_zsl_snapshot
StartZsl(c) == [c EXCEPT !.zsl = TRUE, !.burst = c.pending, !.wait = FALSE]

StopZsl(c) == [c EXCEPT !.zsl = FALSE, !.led = FALSE, !.burst = 0, !.stop_zsl = FALSE, !.bracketing = "off"]

UpdateZsl(c) ==
  CASE c.pending > 0 /\ (c.led \/ c.bracketing # "off") /\ ~c.manual /\ ~c.zsl -> StartZsl(c)
    [] (c.pending = 0 \/ c.stop_zsl) /\ ~c.manual /\ c.zsl -> [StopZsl(c) EXCEPT !.wait = FALSE]
    [] OTHER -> c

Ready(c) ==
  IF c.wait THEN 0
  ELSE IF c.mode = "continuous" THEN Leading(c)
  ELSE Min({Leading(c), c.pending} \cup (IF c.retro > 0 THEN {c.retro} ELSE {}))

Dispatch_unordered(c) ==
  LET n == Ready(c)
      gone == Dequeue([c EXCEPT !.sent = @ \o [i \in 1 .. n |-> c.nodes[n + 1 - i].frame]], n)
  IN  IF c.mode = "continuous" \/ n = 0 THEN gone
      ELSE [gone EXCEPT !.pending = @ - n,
                        !.retro = IF @ > 0 THEN @ - n ELSE 0,
                        !.wait = c.retro = n]

Dispatch_unstopped(c) ==
  LET n == Ready(c)
      gone == Dequeue([c EXCEPT !.sent = @ \o [i \in 1 .. n |-> c.nodes[i].frame]], n)
  IN  IF c.mode = "continuous" \/ n = 0 THEN gone
      ELSE [gone EXCEPT !.pending = @ - n,
                        !.retro = IF @ > 0 THEN @ - n ELSE 0,
                        !.wait = c.retro = n]

\* Super buffers are sent while some are pending; with the last retroactive
\* one the channel waits until the snapshot is prepared
Dispatch(c) ==
  LET n == Ready(c)
      gone == Dequeue([c EXCEPT !.sent = @ \o [i \in 1 .. n |-> c.nodes[i].frame]], n)
      served == [gone EXCEPT !.pending = @ - n,
                             !.retro = IF @ > 0 THEN @ - n ELSE 0,
                             !.wait = c.retro = n]
  IN  IF c.mode = "continuous" \/ n = 0 THEN gone
      ELSE IF served.pending = 0 /\ ~c.manual /\ c.zsl THEN StopZsl(served)
      ELSE served

-----------------------------------------------------------------------------
(* The commands.                                                           *)

Request(c, n, retro) ==
  [c EXCEPT !.pending = n, !.retro = IF n = 0 \/ retro > n THEN n ELSE retro, !.wait = FALSE,
            !.led = @ /\ (IF n = 0 \/ retro > n THEN n ELSE retro) = 0, !.stop_zsl = FALSE]

\* What the command itself does, but for the flush
Effect(c, cmd) ==
  CASE cmd.type = "data"    -> CompAndEnqueue(c, cmd.stream, cmd.frame, cmd.info)
    [] cmd.type = "request" -> Trim(Request(c, cmd.num, cmd.retro), LookBack)
    [] cmd.type = "notify"  -> [c EXCEPT !.mode = cmd.mode]
    [] cmd.type = "zsl"     -> [c EXCEPT !.manual = cmd.start]
    [] cmd.type = "bracket" -> [Flush(c) EXCEPT !.bracketing = IF cmd.start THEN "wait" ELSE "off"]

ProcessStreamBuf(c, cmd) ==
  IF cmd.type = "flush" THEN Flush([c EXCEPT !.expected = cmd.frame])
  ELSE Dispatch(Trim(UpdateZsl(Effect(c, cmd)), WaterMark))

\* One of the two loops would not end
Hangs(c, cmd) ==
  \/ cmd.type = "request" /\ Spins(Request(c, cmd.num, cmd.retro), LookBack)
  \/ cmd.type # "flush" /\ Spins(UpdateZsl(Effect(c, cmd)), WaterMark)

HandleCommand ==
  /\ cmds # <<>> /\ Head(cmds).type # "exit" /\ ~Hangs(ch, Head(cmds))
  /\ cmds' = Tail(cmds)
  /\ LET c == ProcessStreamBuf(ch, Head(cmds))
     IN  /\ ch' = [c EXCEPT !.back = {}, !.sent = <<>>]
         /\ supers' = supers \o c.sent
         /\ out' = [s \in Streams |-> {f \in out[s] : <<s, f>> \notin c.back}]
  /\ posted' = IF Head(cmds).type = "flush" THEN posted + 1 ELSE posted
  /\ UNCHANGED <<phase, on, waiting, client, next, last, count>>

\* The callback thread: mm_channel_dispatch_super_buf
DispatchSuperBuf ==
  /\ supers # <<>>
  /\ client' = client \cup {<<s, Head(supers)>> : s \in Streams}
  /\ last' = Head(supers) /\ supers' = Tail(supers)
  /\ UNCHANGED <<ch, phase, on, cmds, posted, waiting, out, next, count>>

\* The client is done with a buffer: mm_channel_qbuf
QBuf(s, f) ==
  /\ <<s, f>> \in client
  /\ client' = client \ {<<s, f>>}
  /\ out' = [out EXCEPT ![s] = @ \ {f}]
  /\ UNCHANGED <<ch, phase, on, cmds, posted, waiting, supers, next, last, count>>

-----------------------------------------------------------------------------
(* The streams and the client.                                             *)

Infos(s, f) ==
  {[kind |-> "none"]} \cup
  (IF s = Meta /\ count.infos < MaxInfos
     THEN {[kind |-> "done"], [kind |-> "future"]}
          \cup {[kind |-> k, id |-> i] : k \in {"good", "divert"}, i \in f .. MaxFrame}
     ELSE {})

\* A frame of a stream; the driver may have skipped some
StreamFrame(s, f) ==
  /\ s \in on /\ f > next[s] /\ Cardinality(out[s]) < NumBufs /\ Len(cmds) < MaxBacklog
  /\ next' = [next EXCEPT ![s] = f]
  /\ out' = [out EXCEPT ![s] = @ \cup {f}]
  /\ \E info \in Infos(s, f) :
       /\ cmds' = Append(cmds, [type |-> "data", stream |-> s, frame |-> f, info |-> info])
       /\ count' = IF info.kind = "none" THEN count ELSE [count EXCEPT !.infos = @ + 1]
  /\ UNCHANGED <<ch, phase, on, posted, waiting, supers, client, last>>

\* The client asks, and waits for a flush with the lock of the channel
Ask(cmd) ==
  /\ phase = "active" /\ ~waiting /\ count.commands < MaxCommands /\ Len(cmds) < MaxBacklog
  /\ cmds' = Append(cmds, cmd)
  /\ waiting' = (cmd.type = "flush")
  /\ count' = [count EXCEPT !.commands = @ + 1]
  /\ UNCHANGED <<ch, phase, on, posted, supers, client, out, next, last>>

EndFlush ==
  /\ waiting /\ phase = "active" /\ posted > 0
  /\ posted' = posted - 1 /\ waiting' = FALSE
  /\ UNCHANGED <<ch, phase, on, cmds, supers, client, out, next, last, count>>

\* The client has returned what it got before the last stop.  Of the fields
\* of the channel some are reset here, some in the stop, and the rest stays.
Start ==
  /\ phase = "stopped" /\ client = {} /\ count.starts < MaxStarts
  /\ phase' = "active" /\ on' = Streams
  /\ ch' = [ch EXCEPT !.expected = 0, !.good = 0, !.led_off = 0, !.wait = FALSE]
  /\ posted' = 0 /\ last' = 0
  /\ out' = [s \in Streams |-> {}] /\ next' = [s \in Streams |-> 0]
  /\ count' = [count EXCEPT !.starts = @ + 1]
  /\ UNCHANGED <<cmds, waiting, supers, client>>

Stop ==
  /\ phase = "active" /\ ~waiting
  /\ phase' = "stopping"
  /\ UNCHANGED <<ch, on, cmds, posted, waiting, supers, client, out, next, last, count>>

\* The metadata stream is stopped last
StopStream(s) ==
  /\ phase = "stopping" /\ s \in on
  /\ s = Meta => on = {Meta}
  /\ on' = on \ {s}
  /\ IF on = {Meta}
       THEN /\ phase' = "flushing" /\ cmds' = Append(cmds, [type |-> "flush", frame |-> 0])
            /\ waiting' = TRUE
       ELSE UNCHANGED <<phase, cmds, waiting>>
  /\ UNCHANGED <<ch, posted, supers, client, out, next, last, count>>

StopThread ==
  /\ phase = "flushing" /\ posted > 0
  /\ posted' = posted - 1 /\ waiting' = FALSE
  /\ phase' = "joining cmd" /\ cmds' = Append(cmds, [type |-> "exit"])
  /\ UNCHANGED <<ch, on, supers, client, out, next, last, count>>

\* The command thread has ended
JoinCmdThread ==
  /\ phase = "joining cmd" /\ cmds # <<>> /\ Head(cmds).type = "exit"
  /\ phase' = "joining cb" /\ cmds' = <<>>
  /\ UNCHANGED <<ch, on, posted, waiting, supers, client, out, next, last, count>>

\* The callback thread has ended, too, and the queue is freed
JoinCbThread ==
  /\ phase = "joining cb" /\ supers = <<>>
  /\ phase' = "stopped"
  /\ ch' = [ch EXCEPT !.nodes = <<>>, !.match_cnt = 0, !.expected = 0, !.good = 0]
  /\ UNCHANGED <<on, cmds, posted, waiting, supers, client, out, next, last, count>>

-----------------------------------------------------------------------------
InitChannel ==
  [nodes |-> <<>>, match_cnt |-> 0,
   mode |-> "burst",           \* attr.notify_mode
   expected |-> 0,             \* expected_frame_id
   good |-> 0,                 \* good_frame_id
   diverted |-> 0,             \* diverted_frame_id
   pending |-> 0, retro |-> 0, \* pending_cnt, pending_retro_cnt
   wait |-> FALSE,             \* bWaitForPrepSnapshotDone
   led |-> FALSE,              \* needLEDFlash
   zsl |-> FALSE,              \* startZSlSnapshotCalled
   manual |-> FALSE,           \* manualZSLSnapshot
   bracketing |-> "off",       \* bracketingState
   stop_zsl |-> FALSE,         \* stopZslSnapshot
   burst |-> 0,                \* burstSnapNum
   led_off |-> 0,              \* led_off_start_frame_id
   once |-> FALSE,
   back |-> {}, sent |-> <<>>] \* what a command gives back and sends

Init ==
  /\ ch = InitChannel
  /\ phase = "stopped" /\ on = {} /\ cmds = <<>> /\ posted = 0 /\ waiting = FALSE
  /\ supers = <<>> /\ client = {} /\ out = [s \in Streams |-> {}] /\ next = [s \in Streams |-> 0]
  /\ last = 0 /\ count = [commands |-> 0, infos |-> 0, starts |-> 0]

Stopping == StopThread \/ JoinCmdThread \/ JoinCbThread \/ \E s \in Streams : StopStream(s)

Next ==
  \/ HandleCommand \/ DispatchSuperBuf \/ EndFlush \/ Start \/ Stop \/ Stopping
  \/ \E cmd \in Commands : Ask(cmd)
  \/ \E s \in Streams, f \in Frames : StreamFrame(s, f) \/ QBuf(s, f)

Spec == Init /\ [][Next]_vars

-----------------------------------------------------------------------------
(* Properties.                                                             *)

\* What has been asked for and is matched has been sent: outside a command no
\* matched super buffer waits in the queue while some are pending
RequestIsServed ==
  (ch.pending > 0 \/ ch.mode = "continuous") /\ ~ch.wait => \A i \in DOMAIN ch.nodes : ~Matched(ch.nodes[i])

\* The queue keeps no more than its attributes allow, so that the streams do
\* not run out of buffers, and match_cnt tells how many nodes are matched: the
\* loops that drop the surplus end
QueueIsBounded ==
  /\ ch.match_cnt = Cardinality(DOMAIN ch.nodes \ Unmatched(ch))
  /\ ch.match_cnt = Leading(ch)
  /\ ch.mode = "burst" => ch.match_cnt <= WaterMark
  /\ Cardinality(Unmatched(ch)) <= MaxUnmatched + 1

\* The places a buffer is in: the queue of the command thread, a node, a super
\* buffer that waits for the callback thread, the client
Places(s, f) ==
  Cardinality({i \in DOMAIN cmds : cmds[i].type = "data" /\ cmds[i].stream = s /\ cmds[i].frame = f})
  + Cardinality({i \in DOMAIN ch.nodes : ch.nodes[i].frame = f /\ s \in ch.nodes[i].bufs})
  + Cardinality({i \in DOMAIN supers : supers[i] = f})
  + Cardinality({<<s, f>>} \cap client)

\* A buffer that has not come back to its stream is in exactly one place, any
\* other in none: no discard, flush or stop loses it or returns it twice
BuffersAccounted ==
  \A s \in on, f \in Frames : Places(s, f) = (IF f \in out[s] THEN 1 ELSE 0)

\* The client gets super buffers in the order of their frames, each frame once
SentInOrder == [][phase # "stopped" /\ last' # last => last' > last]_vars

\* The daemon is left in its snapshot mode, with the flash on, only for
\* pictures that are still to come
ZslEnds == ch.zsl /\ ~ch.manual => ch.pending > 0
=============================================================================
